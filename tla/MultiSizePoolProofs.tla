------------------------ MODULE MultiSizePoolProofs ------------------------
(***************************************************************************)
(* Size classes, and the blocks of the pools that share them, for any      *)
(* types, sizes and counts.                                                *)
(***************************************************************************)
EXTENDS MultiSizePool, Induction, FiniteSetTheorems

\* What the results on blocks suppose: no multiplication wraps, and a region added
\* to a pool holds a block.
NothingWraps == \A t \in Types, n \in Counts : n * t.size < SizeMax
RegionsHoldABlock == \A c \in Classes : c =< GrowthSize

----------------------------------------------------------------------------
(* The inductive invariant. *)

TypeInv ==
  /\ entry \in [Classes -> {"none", "null", "pool"}]
  /\ pools \in [Classes -> Pool]
  /\ live \subseteq [block : Block, type : Types, count : Counts]
  /\ \A h \in live : <<h.type, h.count>> \in Asked

\* What is held belongs to a pool that has been made.
HeldInPools == \A h \in live : HomeClass(h) = h.block.class /\ entry[h.block.class] = "pool"

Elements(s) == {s[k] : k \in DOMAIN s}
Once(s)     == \A k, l \in DOMAIN s : s[k] = s[l] => k = l
HeldOf(c)   == {h.block : h \in {g \in live : g.block.class = c}}

\* A block is held once, or is once on the free list of its class.
OnePlace ==
  /\ \A g, h \in live : g.block = h.block => g = h
  /\ \A c \in Classes : /\ Once(pools[c].free)
                         /\ \A b \in FreeOf(c) : b.class = c
                         /\ HeldOf(c) \cap FreeOf(c) = {}

\* What has been cut for class c: the multiples of c up to next, and in older regions
\* all that have room.
Cut(c) ==
  {b \in Block :
     /\ b.class = c /\ b.off % c = 0 /\ b.off + c =< RegionSize(b.region)
     /\ \/ b.region < pools[c].region
        \/ b.region = pools[c].region /\ b.off < pools[c].next}

\* The blocks of a class tile its regions, without gaps.
Tiled ==
  \A c \in Classes : /\ pools[c].next % c = 0
                      /\ pools[c].next =< RegionSize(pools[c].region)
                      /\ HeldOf(c) \cup FreeOf(c) = Cut(c)

Safe == crashed = FALSE

IInv == TypeInv /\ HeldInPools /\ OnePlace /\ Tiled /\ Safe

----------------------------------------------------------------------------
(* Divisibility. *)

LEMMA DividesMeans ==
  ASSUME NEW a \in Nat \ {0}, NEW x \in Nat
  PROVE  x % a = 0 <=> \E k \in Nat : x = k * a
<1>1. ASSUME x % a = 0
      PROVE  \E k \in Nat : x = k * a
  <2>1. x = a * (x \div a) + (x % a) /\ x \div a \in Nat
    OBVIOUS
  <2> QED
    BY <1>1, <2>1
<1>2. ASSUME NEW k \in Nat, x = k * a
      PROVE  x % a = 0
  BY <1>2
<1> QED
  BY <1>1, <1>2

LEMMA DividesTransitive ==
  ASSUME NEW a \in Nat \ {0}, NEW b \in Nat \ {0}, NEW x \in Nat,
         b % a = 0, x % b = 0
  PROVE  x % a = 0
<1>1. PICK k \in Nat : b = k * a
  BY DividesMeans
<1>2. PICK l \in Nat : x = l * b
  BY DividesMeans
<1>3. x = (l * k) * a /\ l * k \in Nat
  BY <1>1, <1>2
<1> QED
  BY <1>3, DividesMeans

LEMMA DividesSum ==
  ASSUME NEW a \in Nat \ {0}, NEW x \in Nat, NEW y \in Nat, x % a = 0
  PROVE  (x + y) % a = 0 <=> y % a = 0
<1> DEFINE z == x + y
<1>1. z \in Nat
  OBVIOUS
<1>2. PICK k \in Nat : x = k * a
  BY DividesMeans
<1>3. ASSUME NEW l \in Nat, y = l * a
      PROVE  \E n \in Nat : z = n * a
  <2>1. z = (k + l) * a /\ k + l \in Nat
    BY <1>2, <1>3
  <2> QED
    BY <2>1
<1>4. ASSUME NEW l \in Nat, z = l * a
      PROVE  \E n \in Nat : y = n * a
  <2>1. k =< l
    BY <1>2, <1>4
  <2>2. y = (l - k) * a /\ l - k \in Nat
    BY <1>2, <1>4, <2>1
  <2> QED
    BY <2>2
<1> HIDE DEF z
<1>5. z % a = 0 <=> y % a = 0
  BY <1>1, <1>3, <1>4, DividesMeans
<1> QED
  BY <1>5 DEF z

\* Two multiples of c are at least c apart.
LEMMA MultiplesApart ==
  ASSUME NEW c \in Nat \ {0}, NEW x \in Nat, NEW y \in Nat,
         x % c = 0, y % c = 0, x < y
  PROVE  x + c =< y
<1>1. PICK k \in Nat : x = k * c
  BY DividesMeans
<1>2. PICK l \in Nat : y = l * c
  BY DividesMeans
<1>3. k < l
  BY <1>1, <1>2
<1>4. y = x + c + (l - k - 1) * c /\ (l - k - 1) * c \in Nat
  BY <1>1, <1>2, <1>3
<1> QED
  BY <1>4

----------------------------------------------------------------------------
(* Powers of 2. *)

LEMMA PowerOfDouble ==
  ASSUME NEW p \in Nat, PowerOf2(p)
  PROVE  PowerOf2(2 * p)
<1>1. p \in Nat \ {0}
  BY DEF PowerOf2
<1>2. ASSUME NEW d \in 2 .. 2 * p, (2 * p) % d = 0, d % 2 # 0
      PROVE  FALSE
  <2>1. PICK q \in Nat : 2 * p = q * d
    BY <1>1, <1>2, DividesMeans
  <2>2. PICK e \in Nat : d = 2 * e + 1
    <3>1. d = 2 * (d \div 2) + 1 /\ d \div 2 \in Nat
      BY <1>2
    <3> QED
      BY <3>1
  <2>3. q = 2 * (p - e * q)
    BY <1>1, <2>1, <2>2
  <2> DEFINE w == p - e * q
  <2>4. w \in Int /\ q = 2 * w
    BY <1>1, <2>3
  <2> HIDE DEF w
  <2>5. w \in Nat
    BY <2>4
  <2>6. p = w * d
    BY <1>1, <2>1, <2>4, <2>5
  <2>7. w # 0
    BY <1>1, <2>6
  <2>8. d =< p
    BY <1>1, <2>5, <2>6, <2>7
  <2>9. d \in 2 .. p /\ p % d = 0
    BY <1>1, <2>5, <2>6, <2>8, DividesMeans
  <2> QED
    BY <1>2, <2>9 DEF PowerOf2
<1> QED
  BY <1>1, <1>2 DEF PowerOf2

LEMMA PowerOfHalf ==
  ASSUME NEW b \in Nat, PowerOf2(b), b > 1
  PROVE  \E h \in Nat : b = 2 * h /\ PowerOf2(h) /\ h < b
<1>1. b % b = 0
  OBVIOUS
<1>2. b % 2 = 0
  BY <1>1 DEF PowerOf2
<1>3. PICK h \in Nat : b = h * 2
  BY <1>2, DividesMeans
<1>4. h \in Nat \ {0} /\ h < b /\ b = 2 * h
  BY <1>3
<1>5. ASSUME NEW d \in 2 .. h, h % d = 0
      PROVE  d % 2 = 0
  <2>1. PICK k \in Nat : h = k * d
    BY <1>5, DividesMeans
  <2>2. b = (2 * k) * d /\ 2 * k \in Nat
    BY <1>4, <2>1
  <2>3. \E m \in Nat : b = m * d
    BY <2>2
  <2>4. d \in Nat \ {0} /\ d \in 2 .. b
    BY <1>4
  <2>5. b % d = 0
    BY <2>3, <2>4, DividesMeans
  <2> QED
    BY <2>4, <2>5 DEF PowerOf2
<1> QED
  BY <1>4, <1>5 DEF PowerOf2

\* Of two powers of 2, the lower divides the greater.
LEMMA PowersDivide ==
  ASSUME NEW a \in Nat, NEW b \in Nat, PowerOf2(a), PowerOf2(b), a =< b
  PROVE  b % a = 0
<1> DEFINE T == {n \in Nat : \A x \in 1 .. n : \A y \in Nat :
                   PowerOf2(x) /\ PowerOf2(y) /\ x =< y => y % x = 0}
<1>1. 0 \in T
  OBVIOUS
<1>2. ASSUME NEW n \in Nat, n \in T
      PROVE  n + 1 \in T
  <2>1. SUFFICES ASSUME NEW x \in 1 .. n + 1, NEW y \in Nat,
                        PowerOf2(x), PowerOf2(y), x =< y
                 PROVE  y % x = 0
    OBVIOUS
  <2>2. CASE x = 1
    BY <2>2
  <2>3. CASE x > 1
    <3>1. PICK h \in Nat : x = 2 * h /\ PowerOf2(h) /\ h < x
      BY <2>3, <2>1, PowerOfHalf
    <3>2. PICK g \in Nat : y = 2 * g /\ PowerOf2(g) /\ g < y
      BY <2>3, <2>1, PowerOfHalf
    <3>3. h \in 1 .. n /\ h =< g
      BY <2>1, <2>3, <3>1, <3>2
    <3>4. g % h = 0
      BY <1>2, <3>1, <3>2, <3>3
    <3>5. PICK k \in Nat : g = k * h
      <4>1. h \in Nat \ {0}
        BY <3>1 DEF PowerOf2
      <4> QED
        BY <3>4, <4>1, DividesMeans
    <3>6. y = k * x
      BY <3>1, <3>2, <3>5
    <3> QED
      BY <2>1, <3>6, DividesMeans
  <2> QED
    BY <2>1, <2>2, <2>3
<1>3. Nat \subseteq T
  <2> HIDE DEF T
  <2> QED
    BY <1>1, <1>2, SetInduction
<1>4. a \in T
  <2> HIDE DEF T
  <2> QED
    BY <1>3
<1>5. a \in 1 .. a
  BY DEF PowerOf2
<1> QED
  BY <1>4, <1>5

\* There is a power of 2 between a number and its double.
LEMMA BitCeilIsPower ==
  ASSUME NEW x \in Nat \ {0}
  PROVE  BitCeil(x) \in x .. 2 * x - 1 /\ PowerOf2(BitCeil(x))
<1> DEFINE T == {n \in Nat : n = 0 \/ \E p \in n .. 2 * n - 1 : PowerOf2(p)}
<1>1. 0 \in T
  OBVIOUS
<1>2. ASSUME NEW n \in Nat, n \in T
      PROVE  n + 1 \in T
  <2>1. CASE n = 0
    <3>1. PowerOf2(1)
      BY DEF PowerOf2
    <3> QED
      BY <2>1, <3>1
  <2>2. CASE n # 0
    <3>1. PICK p \in n .. 2 * n - 1 : PowerOf2(p)
      BY <1>2, <2>2
    <3>2. CASE p = n
      <4>1. PowerOf2(2 * p) /\ 2 * p \in n + 1 .. 2 * (n + 1) - 1
        BY <2>2, <3>1, <3>2, PowerOfDouble
      <4> QED
        BY <4>1
    <3>3. CASE p # n
      <4>1. p \in n + 1 .. 2 * (n + 1) - 1
        BY <3>1, <3>3
      <4> QED
        BY <3>1, <4>1
    <3> QED
      BY <3>2, <3>3
  <2> QED
    BY <2>1, <2>2
<1>3. Nat \subseteq T
  <2> HIDE DEF T
  <2> QED
    BY <1>1, <1>2, SetInduction
<1>4. \E p \in x .. 2 * x - 1 : PowerOf2(p)
  BY <1>3
<1> QED
  BY <1>4 DEF BitCeil

----------------------------------------------------------------------------
(* Size classes. *)

LEMMA RoundUpBounds ==
  ASSUME NEW x \in Nat, NEW m \in Nat \ {0}
  PROVE  /\ RoundUp(x, m) \in Nat
         /\ RoundUp(x, m) >= x /\ RoundUp(x, m) < x + m
         /\ RoundUp(x, m) % m = 0
BY DEF RoundUp

LEMMA RoundUpOfMultiple ==
  ASSUME NEW x \in Nat, NEW m \in Nat \ {0}, x % m = 0
  PROVE  RoundUp(x, m) = x
<1> DEFINE r == RoundUp(x, m)
<1>1. r \in Nat /\ r >= x /\ r < x + m /\ r % m = 0
  BY RoundUpBounds
<1> HIDE DEF r
<1>2. ASSUME x < r PROVE FALSE
  <2>1. x + m =< r
    BY <1>1, <1>2, MultiplesApart
  <2> QED
    BY <1>1, <2>1
<1>3. r = x
  BY <1>1, <1>2
<1> QED
  BY <1>3 DEF r

\* A size that is a multiple of an alignment is rounded up to another one.
LEMMA RoundUpKeepsAlignment ==
  ASSUME NEW x \in Nat, NEW m \in Nat, NEW a \in Nat, PowerOf2(m), PowerOf2(a), x % a = 0
  PROVE  RoundUp(x, m) % a = 0
<1>1. m \in Nat \ {0} /\ a \in Nat \ {0}
  BY DEF PowerOf2
<1>2. CASE a =< m
  <2>1. m % a = 0
    BY <1>2, PowersDivide
  <2> QED
    BY <1>1, <2>1, RoundUpBounds, DividesTransitive
<1>3. CASE m =< a
  <2>1. a % m = 0
    BY <1>3, PowersDivide
  <2>2. x % m = 0
    BY <1>1, <2>1, DividesTransitive
  <2> QED
    BY <1>1, <2>2, RoundUpOfMultiple
<1> QED
  BY <1>2, <1>3

\* The code's three roundings hold the size.
LEMMA SizeClassHolds ==
  ASSUME NEW bytes \in Nat \ {0}
  PROVE  SizeClass(bytes) \in Nat \ {0} /\ SizeClass(bytes) >= bytes
<1>1. Line \in Nat \ {0} /\ Quarter \in Nat \ {0} /\ SmallMax \in Nat /\ MediumMax \in Nat
  BY SizesAssumption DEF PowerOf2
<1>2. /\ RoundUp(bytes, Line) \in Nat /\ RoundUp(bytes, Line) >= bytes
      /\ RoundUp(bytes, Quarter) \in Nat /\ RoundUp(bytes, Quarter) >= bytes
  BY <1>1, RoundUpBounds
<1>3. BitCeil(bytes) \in Nat /\ BitCeil(bytes) >= bytes
  BY BitCeilIsPower
<1> QED
  BY <1>1, <1>2, <1>3 DEF SizeClass

LEMMA SizeClassKeepsAlignment ==
  ASSUME NEW bytes \in Nat \ {0}, NEW a \in Nat, PowerOf2(a), bytes % a = 0
  PROVE  SizeClass(bytes) % a = 0
<1>1. PowerOf2(Line) /\ PowerOf2(Quarter) /\ Line \in Nat /\ Quarter \in Nat
      /\ a \in Nat \ {0}
  BY SizesAssumption DEF PowerOf2
<1>2. RoundUp(bytes, Line) % a = 0 /\ RoundUp(bytes, Quarter) % a = 0
  BY <1>1, RoundUpKeepsAlignment
<1>3. BitCeil(bytes) % a = 0
  <2>1. BitCeil(bytes) \in Nat /\ BitCeil(bytes) >= bytes /\ PowerOf2(BitCeil(bytes))
    BY BitCeilIsPower
  <2>2. a =< bytes
    <3>1. PICK k \in Nat : bytes = k * a
      BY <1>1, DividesMeans
    <3>2. k # 0
      BY <3>1
    <3> QED
      BY <1>1, <3>1, <3>2
  <2> QED
    BY <1>1, <2>1, <2>2, PowersDivide
<1> QED
  BY <1>2, <1>3 DEF SizeClass

\* A product of size_type, wrapped or not, is a multiple of the type's alignment.
LEMMA BytesOfAsked ==
  ASSUME NEW t \in Types, NEW n \in Counts, <<t, n>> \in Asked
  PROVE  /\ Bytes(t, n) \in Nat \ {0}
         /\ t.align \in Nat \ {0} /\ PowerOf2(t.align)
         /\ Bytes(t, n) % t.align = 0
         /\ SizeClass(Bytes(t, n)) \in Classes
<1>1. /\ t.size \in Nat \ {0} /\ t.size < SizeMax /\ t.align \in Nat \ {0}
      /\ PowerOf2(t.align) /\ t.size % t.align = 0
      /\ n \in Nat /\ SizeMax \in Nat \ {0} /\ PowerOf2(SizeMax)
  BY TypesAssumption, CountsAssumption, SizesAssumption DEF PowerOf2
<1> DEFINE all == n * t.size
           bytes == all % SizeMax
           q == all \div SizeMax
<1>2. all \in Nat /\ bytes \in Nat /\ q \in Nat /\ all = q * SizeMax + bytes
  BY <1>1
<1>3. bytes = Bytes(t, n) /\ Bytes(t, n) # 0
  BY DEF Bytes, Asked
<1>4. all % t.align = 0
  <2>1. all % t.size = 0
    BY <1>1, <1>2, DividesMeans
  <2> QED
    BY <1>1, <1>2, <2>1, DividesTransitive
<1>5. t.align =< t.size
  <2>1. PICK k \in Nat : t.size = k * t.align
    BY <1>1, DividesMeans
  <2>2. k # 0
    BY <1>1, <2>1
  <2> QED
    BY <1>1, <2>1, <2>2
<1>6. SizeMax % t.align = 0
  BY <1>1, <1>5, PowersDivide
<1> HIDE DEF all, bytes, q
<1>7. q * SizeMax \in Nat /\ (q * SizeMax) % t.align = 0
  <2>1. q * SizeMax \in Nat /\ (q * SizeMax) % SizeMax = 0
    BY <1>1, <1>2, DividesMeans
  <2> QED
    BY <1>1, <1>6, <2>1, DividesTransitive
<1>8. bytes % t.align = 0
  BY <1>1, <1>2, <1>4, <1>7, DividesSum
<1>9. SizeClass(Bytes(t, n)) \in Classes
  BY DEF Classes
<1> QED
  BY <1>1, <1>2, <1>3, <1>8, <1>9

\* The class of a request, with what the pools rely on.
LEMMA ClassOf ==
  ASSUME NEW t \in Types, NEW n \in Counts, <<t, n>> \in Asked,
         NEW c, c = SizeClass(Bytes(t, n))
  PROVE  c \in Classes /\ c \in Nat \ {0} /\ c % t.align = 0 /\ c >= Bytes(t, n)
<1>1. /\ Bytes(t, n) \in Nat \ {0} /\ PowerOf2(t.align) /\ t.align \in Nat
      /\ Bytes(t, n) % t.align = 0 /\ c \in Classes
  BY BytesOfAsked
<1> QED
  BY <1>1, SizeClassHolds, SizeClassKeepsAlignment

LEMMA ClassesType ==
  ASSUME NEW c \in Classes
  PROVE  c \in Nat \ {0}
<1>1. PICK a \in Asked : c = SizeClass(Bytes(a[1], a[2]))
  BY DEF Classes
<1>2. a[1] \in Types /\ a[2] \in Counts /\ <<a[1], a[2]>> \in Asked
  BY DEF Asked
<1> QED
  BY <1>1, <1>2, ClassOf

----------------------------------------------------------------------------
(* Free lists. *)

LEMMA Pushed ==
  ASSUME NEW S, NEW s \in Seq(S), NEW b \in S, Once(s), b \notin Elements(s)
  PROVE  /\ <<b>> \o s \in Seq(S)
         /\ Once(<<b>> \o s) /\ Elements(<<b>> \o s) = Elements(s) \cup {b}
<1> DEFINE t == <<b>> \o s
<1>1. t \in Seq(S) /\ Len(t) = Len(s) + 1 /\ Len(s) \in Nat
  OBVIOUS
<1>2. DOMAIN t = 1 .. Len(s) + 1 /\ DOMAIN s = 1 .. Len(s)
  BY <1>1
<1>3. t[1] = b /\ \A k \in 1 .. Len(s) : t[k + 1] = s[k]
  OBVIOUS
<1> HIDE DEF t
<1>4. \A k \in DOMAIN t : k = 1 \/ (k - 1 \in DOMAIN s /\ t[k] = s[k - 1])
  BY <1>1, <1>2, <1>3
<1>5. \A k \in DOMAIN s : k + 1 \in DOMAIN t
  BY <1>1, <1>2
<1>6. 1 \in DOMAIN t
  BY <1>1, <1>2
<1>7. Elements(t) = Elements(s) \cup {b}
  <2>1. ASSUME NEW x \in Elements(t) PROVE x \in Elements(s) \cup {b}
    BY <1>3, <1>4, <2>1 DEF Elements
  <2>2. b \in Elements(t)
    BY <1>3, <1>6 DEF Elements
  <2>3. ASSUME NEW x \in Elements(s) PROVE x \in Elements(t)
    <3>1. PICK k \in DOMAIN s : x = s[k]
      BY DEF Elements
    <3>2. k + 1 \in DOMAIN t /\ t[k + 1] = x
      BY <1>2, <1>3, <1>5, <3>1
    <3> QED
      BY <3>2 DEF Elements
  <2> QED
    BY <2>1, <2>2, <2>3
<1>8. Once(t)
  <2>1. ASSUME NEW k \in DOMAIN t, NEW l \in DOMAIN t, t[k] = t[l]
        PROVE  k = l
    <3>1. CASE k = 1 /\ l = 1
      BY <3>1
    <3>2. CASE (k = 1 /\ l # 1) \/ (k # 1 /\ l = 1)
      <4>1. \A j \in DOMAIN t : j # 1 => t[j] \in Elements(s)
        BY <1>4 DEF Elements
      <4> QED
        BY <1>3, <2>1, <3>2, <4>1
    <3>3. CASE k # 1 /\ l # 1
      <4>1. k - 1 = l - 1
        BY <1>4, <2>1, <3>3 DEF Once
      <4> QED
        BY <1>2, <4>1
    <3> QED
      BY <3>1, <3>2, <3>3
  <2> QED
    BY <2>1 DEF Once
<1> QED
  BY <1>1, <1>7, <1>8 DEF t

LEMMA Popped ==
  ASSUME NEW S, NEW s \in Seq(S), s # <<>>, Once(s)
  PROVE  /\ Tail(s) \in Seq(S) /\ Once(Tail(s))
         /\ Head(s) \in Elements(s) /\ Elements(Tail(s)) = Elements(s) \ {Head(s)}
<1> DEFINE t == Tail(s)
<1>1. t \in Seq(S) /\ Len(t) = Len(s) - 1 /\ Len(s) \in Nat \ {0}
  OBVIOUS
<1>2. DOMAIN t = 1 .. Len(s) - 1 /\ DOMAIN s = 1 .. Len(s)
  BY <1>1
<1>3. Head(s) = s[1] /\ \A k \in 1 .. Len(s) - 1 : t[k] = s[k + 1]
  OBVIOUS
<1> HIDE DEF t
<1>4. \A k \in DOMAIN s : k = 1 \/ (k - 1 \in DOMAIN t /\ t[k - 1] = s[k])
  BY <1>1, <1>2, <1>3
<1>5. \A k \in DOMAIN t : k + 1 \in DOMAIN s /\ k + 1 # 1 /\ t[k] = s[k + 1]
  BY <1>1, <1>2, <1>3
<1>6. 1 \in DOMAIN s
  BY <1>1, <1>2
<1>7. Elements(t) = Elements(s) \ {Head(s)}
  <2>1. \A k \in DOMAIN s : s[k] = s[1] => k = 1
    BY <1>6 DEF Once
  <2> QED
    BY <1>3, <1>4, <1>5, <1>6, <2>1 DEF Elements
<1>8. Once(t)
  <2>1. ASSUME NEW k \in DOMAIN t, NEW l \in DOMAIN t, t[k] = t[l]
        PROVE  k = l
    <3>1. k + 1 = l + 1
      BY <1>5, <2>1 DEF Once
    <3> QED
      BY <1>2, <3>1
  <2> QED
    BY <2>1 DEF Once
<1> QED
  BY <1>1, <1>3, <1>6, <1>7, <1>8 DEF t, Elements

----------------------------------------------------------------------------
(* Blocks cut from a region. *)

\* allocate of a pool takes the first freed block, or cuts one where the last one
\* ends, or at the beginning of a new region.  No padding is ever needed.
LEMMA PoolAllocates ==
  ASSUME IInv, RegionsHoldABlock, NEW c \in Classes,
         NEW align \in Nat \ {0}, c % align = 0,
         NEW r \in PoolAllocate(pools[c], c, align)
  PROVE  LET p == pools[c] IN
         \/ p.free # <<>> /\ r.block = Head(p.free) /\ r.pool = [p EXCEPT !.free = Tail(@)]
         \/ /\ p.free = <<>> /\ p.next + c =< RegionSize(p.region)
            /\ r = CutAt(p, c, p.region, p.next)
         \/ /\ p.free = <<>> /\ p.next + c > RegionSize(p.region)
            /\ p.region < MaxRegions /\ c =< RegionSize(p.region + 1)
            /\ r = CutAt(p, c, p.region + 1, 0)
<1> DEFINE p == pools[c]
<1>1. p \in Pool /\ p.next \in Nat /\ p.region \in 1 .. MaxRegions /\ p.next % c = 0
  BY DEF IInv, TypeInv, Tiled, Pool
<1>2. c \in Nat \ {0}
  BY ClassesType
<1>3. Aligned(p.next, align) = p.next
  BY <1>1, <1>2, DividesTransitive, RoundUpOfMultiple DEF Aligned
<1>4. MaxRegions \in Nat
  BY CountsAssumption
<1>5. c =< RegionSize(p.region + 1)
  BY <1>1, <1>4 DEF RegionsHoldABlock, RegionSize
<1> HIDE DEF p
<1>6. CASE p.free # <<>>
  BY <1>6 DEF PoolAllocate, p
<1>7. CASE p.free = <<>> /\ Fits(p, c, p.next)
  <2>1. r = CutAt(p, c, p.region, p.next)
    BY <1>3, <1>7 DEF PoolAllocate, p
  <2> QED
    BY <1>7, <2>1 DEF Fits, p
<1>8. CASE p.free = <<>> /\ ~Fits(p, c, p.next)
  <2>1. p.region < MaxRegions /\ r = CutAt(p, c, p.region + 1, 0)
    BY <1>3, <1>8 DEF PoolAllocate, p
  <2>2. p.next + c > RegionSize(p.region)
    BY <1>1, <1>2, <1>8, SizesAssumption DEF Fits, RegionSize
  <2> QED
    BY <1>5, <1>8, <2>1, <2>2 DEF p
<1> QED
  BY <1>6, <1>7, <1>8

\* The bytes between next and the end of a region are too few for a block, or hold one
\* more: either way exactly one block is cut.
LEMMA CutOneMore ==
  ASSUME IInv, RegionsHoldABlock, NEW c \in Classes, NEW R \in 1 .. MaxRegions, NEW x \in Nat,
         x + c =< RegionSize(R),
         \/ R = pools[c].region /\ x = pools[c].next
         \/ /\ R = pools[c].region + 1 /\ x = 0
            /\ pools[c].next + c > RegionSize(pools[c].region),
         pools'[c].region = R, pools'[c].next = x + c
  PROVE  /\ [class |-> c, region |-> R, off |-> x] \in Block \ Cut(c)
         /\ Cut(c)' = Cut(c) \cup {[class |-> c, region |-> R, off |-> x]}
         /\ (x + c) % c = 0
<1> DEFINE new == [class |-> c, region |-> R, off |-> x]
<1>1. /\ c \in Nat \ {0} /\ pools[c].region \in 1 .. MaxRegions /\ pools[c].next \in Nat
      /\ pools[c].next % c = 0
  BY ClassesType DEF IInv, TypeInv, Tiled, Pool
<1>2. x % c = 0 /\ (x + c) % c = 0
  <2>1. 0 % c = 0 /\ c % c = 0
    BY <1>1
  <2>2. x % c = 0
    BY <1>1, <2>1
  <2> QED
    BY <1>1, <2>1, <2>2, DividesSum
<1>3. new \in Block /\ new.class = c /\ new.region = R /\ new.off = x
  BY DEF Block
<1> HIDE DEF new
<1>4. MaxRegions \in Nat
  BY CountsAssumption
<1>5. new \notin Cut(c)
  BY <1>1, <1>3, <1>4 DEF Cut
<1>6. ASSUME NEW b \in Block, b.class = c, b.off % c = 0
      PROVE  /\ b.region = R /\ b.off < x + c => b.off =< x
             /\ b.region \in 1 .. MaxRegions /\ b.off \in Nat
  <2>1. b.off \in Nat /\ b.region \in 1 .. MaxRegions
    BY DEF Block
  <2>2. x < b.off => x + c =< b.off
    BY <1>1, <1>2, <1>6, <2>1, MultiplesApart
  <2> QED
    BY <1>1, <2>1, <2>2
<1>7. ASSUME NEW b \in Block, b.class = c, b.region = R, b.off = x
      PROVE  b = new
  BY <1>7 DEF Block, new
<1>8. ASSUME NEW b \in Block, b.class = c, b.off % c = 0, b.off + c =< RegionSize(b.region),
             \/ b.region < R
             \/ b.region = R /\ b.off < x + c
      PROVE  b \in Cut(c) \cup {new}
  <2>1. b.region \in 1 .. MaxRegions /\ b.off \in Nat
    BY DEF Block
  <2>2. RegionSize(b.region) \in Nat
    BY SizesAssumption DEF RegionSize
  <2>3. CASE R = pools[c].region /\ x = pools[c].next
    <3>1. \/ b.region < R
          \/ b.region = R /\ b.off < x
          \/ b.region = R /\ b.off = x
      BY <1>4, <1>6, <1>8, <2>1
    <3> QED
      BY <1>7, <1>8, <2>3, <3>1 DEF Cut
  <2>4. CASE /\ R = pools[c].region + 1 /\ x = 0
             /\ pools[c].next + c > RegionSize(pools[c].region)
    <3>1. \/ b.region < pools[c].region
          \/ b.region = pools[c].region
          \/ b.region = R /\ b.off = x
      <4>1. CASE b.region < R
        <5>1. b.region \in Int /\ pools[c].region \in Int /\ b.region < pools[c].region + 1
          BY <1>1, <1>4, <2>1, <2>4, <4>1
        <5> QED
          BY <5>1
      <4>2. CASE b.region = R /\ b.off < x + c
        <5>1. b.off =< 0
          BY <1>6, <1>8, <2>4, <4>2
        <5> QED
          BY <2>1, <2>4, <4>2, <5>1
      <4> QED
        BY <1>8, <4>1, <4>2
    <3>2. CASE b.region = pools[c].region
      <4>1. b.off < pools[c].next
        BY <1>1, <1>8, <2>1, <2>2, <2>4, <3>2
      <4> QED
        BY <1>8, <3>2, <4>1 DEF Cut
    <3> QED
      BY <1>7, <1>8, <3>1, <3>2 DEF Cut
  <2> QED
    BY <2>3, <2>4
<1>9. ASSUME NEW b \in Cut(c) \cup {new}
      PROVE  /\ b \in Block /\ b.class = c /\ b.off % c = 0 /\ b.off + c =< RegionSize(b.region)
             /\ \/ b.region < R
                \/ b.region = R /\ b.off < x + c
  <2>1. CASE b \in Cut(c)
    <3>1. b.region \in 1 .. MaxRegions /\ b.off \in Nat
      BY <2>1 DEF Block, Cut
    <3> QED
      BY <1>1, <1>4, <2>1, <3>1 DEF Cut
  <2>2. CASE b = new
    BY <1>1, <1>2, <1>3, <2>2
  <2> QED
    BY <2>1, <2>2
<1>10. Cut(c)' = Cut(c) \cup {new}
  BY <1>8, <1>9 DEF Cut
<1> QED
  BY <1>2, <1>3, <1>5, <1>10 DEF new

----------------------------------------------------------------------------
(* The steps. *)

LEMMA InitOK == Init => IInv
<1> SUFFICES ASSUME Init PROVE IInv
  OBVIOUS
<1>1. NewPool \in Pool /\ MaxRegions \in Nat \ {0}
  BY CountsAssumption DEF NewPool, Pool
<1>2. TypeInv
  BY <1>1 DEF Init, TypeInv
<1>3. HeldInPools /\ Safe
  BY DEF Init, HeldInPools, Safe
<1>4. \A c \in Classes : pools[c].free = <<>> /\ pools[c].region = 1 /\ pools[c].next = 0
  BY DEF Init, NewPool
<1>5. \A c \in Classes : FreeOf(c) = {} /\ HeldOf(c) = {}
  BY <1>4 DEF FreeOf, HeldOf, Init
<1>6. OnePlace
  BY <1>4, <1>5 DEF OnePlace, Once, Init
<1>7. Tiled
  <2>1. ASSUME NEW c \in Classes PROVE Cut(c) = {}
    BY <1>4 DEF Cut, Block
  <2>2. ASSUME NEW c \in Classes PROVE pools[c].next % c = 0
    BY <1>4, ClassesType
  <2> QED
    BY <1>4, <1>5, <2>1, <2>2, SizesAssumption DEF Tiled, RegionSize
<1> QED
  BY <1>2, <1>3, <1>6, <1>7 DEF IInv

\* A class whose pool and blocks are not touched is as it was.
LEMMA OtherClass ==
  ASSUME NEW d \in Classes, pools'[d] = pools[d], HeldOf(d)' = HeldOf(d)
  PROVE  FreeOf(d)' = FreeOf(d) /\ Cut(d)' = Cut(d)
BY DEF FreeOf, Cut

\* A block that a client comes to hold: the pool it is from, and what it has left.
LEMMA HoldOne ==
  ASSUME IInv, NEW t \in Types, NEW n \in Counts, <<t, n>> \in Asked,
         NEW c, c = SizeClass(Bytes(t, n)), NEW p \in Pool, NEW b \in Block,
         b.class = c, b \notin HeldOf(c), b \notin Elements(p.free),
         Once(p.free), \A x \in Elements(p.free) : x.class = c,
         HeldOf(c) \cap Elements(p.free) = {},
         p.next % c = 0, p.next =< RegionSize(p.region),
         entry' = [entry EXCEPT ![c] = "pool"], crashed' = FALSE,
         pools' = [pools EXCEPT ![c] = p], live' = live \cup {Held(t, n, b)},
         HeldOf(c) \cup {b} \cup Elements(p.free) = Cut(c)'
  PROVE  IInv'
<1>1. c \in Classes
  BY ClassOf
<1>2. pools'[c] = p /\ \A d \in Classes \ {c} : pools'[d] = pools[d]
  BY <1>1 DEF IInv, TypeInv
<1> DEFINE h == Held(t, n, b)
<1>3. h.block = b /\ h.type = t /\ h.count = n
  BY DEF Held
<1>4. HeldOf(c)' = HeldOf(c) \cup {b} /\ \A d \in Classes \ {c} : HeldOf(d)' = HeldOf(d)
  <2> HIDE DEF h
  <2> QED
    BY <1>3 DEF HeldOf, h
<1>5. FreeOf(c)' = Elements(p.free)
  BY <1>2 DEF FreeOf, Elements
<1>6. TypeInv'
  <2>1. h \in [block : Block, type : Types, count : Counts]
    BY DEF Held
  <2> HIDE DEF h
  <2>2. live' = live \cup {h}
    BY DEF h
  <2> QED
    BY <1>1, <1>3, <2>1, <2>2 DEF IInv, TypeInv
<1>7. HeldInPools'
  <2>1. HomeClass(h) = c
    BY <1>3 DEF HomeClass
  <2> HIDE DEF h
  <2>2. live' = live \cup {h}
    BY DEF h
  <2>3. entry'[c] = "pool" /\ \A d \in Classes : entry[d] = "pool" => entry'[d] = "pool"
    BY <1>1 DEF IInv, TypeInv
  <2>4. \A g \in live : g.block.class \in Classes
    BY DEF IInv, TypeInv, Block
  <2> QED
    BY <1>3, <2>1, <2>2, <2>3, <2>4 DEF IInv, HeldInPools, HomeClass
<1>8. OnePlace'
  <2>1. ASSUME NEW g \in live PROVE g.block # b
    BY <2>1 DEF HeldOf
  <2>2. \A g, g2 \in live' : g.block = g2.block => g = g2
    <3> HIDE DEF h
    <3>1. live' = live \cup {h}
      BY DEF h
    <3> QED
      BY <1>3, <2>1, <3>1 DEF IInv, OnePlace
  <2>3. ASSUME NEW d \in Classes \ {c}
        PROVE  /\ Once(pools'[d].free) /\ \A x \in FreeOf(d)' : x.class = d
               /\ HeldOf(d)' \cap FreeOf(d)' = {}
    <3>1. FreeOf(d)' = FreeOf(d)
      BY <1>2, <1>4, OtherClass
    <3> QED
      BY <1>2, <1>4, <3>1 DEF IInv, OnePlace
  <2>4. /\ Once(pools'[c].free) /\ \A x \in FreeOf(c)' : x.class = c
        /\ HeldOf(c)' \cap FreeOf(c)' = {}
    BY <1>2, <1>4, <1>5
  <2> QED
    BY <2>2, <2>3, <2>4 DEF OnePlace
<1>9. Tiled'
  <2>1. ASSUME NEW d \in Classes \ {c}
        PROVE  /\ pools'[d].next % d = 0 /\ pools'[d].next =< RegionSize(pools'[d].region)
               /\ HeldOf(d)' \cup FreeOf(d)' = Cut(d)'
    <3>1. FreeOf(d)' = FreeOf(d) /\ Cut(d)' = Cut(d)
      BY <1>2, <1>4, OtherClass
    <3> QED
      BY <1>2, <1>4, <3>1 DEF IInv, Tiled
  <2>2. /\ pools'[c].next % c = 0 /\ pools'[c].next =< RegionSize(pools'[c].region)
        /\ HeldOf(c)' \cup FreeOf(c)' = Cut(c)'
    BY <1>2, <1>4, <1>5
  <2> QED
    BY <2>1, <2>2 DEF Tiled
<1> QED
  BY <1>6, <1>7, <1>8, <1>9 DEF IInv, Safe

LEMMA AllocateStep ==
  ASSUME IInv, RegionsHoldABlock, Allocate
  PROVE  IInv'
<1>1. PICK t \in Types, n \in Counts :
        LET c == SizeClass(Bytes(t, n))
        IN  /\ <<t, n>> \in Asked
            /\ entry' = [entry EXCEPT ![c] = "pool"]
            /\ crashed' = (crashed \/ (~MustMake(c) /\ entry[c] # "pool"))
            /\ \E r \in PoolAllocate(pools[c], c, t.align) :
                 /\ pools' = [pools EXCEPT ![c] = r.pool]
                 /\ live' = live \cup {Held(t, n, r.block)}
  BY DEF Allocate
<1> DEFINE c == SizeClass(Bytes(t, n))
           p == pools[c]
<1>2. c \in Classes /\ c \in Nat \ {0} /\ c % t.align = 0 /\ t.align \in Nat \ {0}
  BY <1>1, ClassOf, BytesOfAsked
<1>3. PICK r \in PoolAllocate(pools[c], c, t.align) :
        pools' = [pools EXCEPT ![c] = r.pool] /\ live' = live \cup {Held(t, n, r.block)}
  BY <1>1
<1>4. crashed' = FALSE /\ entry' = [entry EXCEPT ![c] = "pool"] /\ <<t, n>> \in Asked
  BY <1>1 DEF MustMake, IInv, Safe
<1> HIDE DEF c
<1>5. /\ p \in Pool /\ p.free \in Seq(Block) /\ p.next \in Nat /\ p.region \in 1 .. MaxRegions
      /\ p.next % c = 0 /\ p.next =< RegionSize(p.region)
      /\ Once(p.free) /\ FreeOf(c) = Elements(p.free)
      /\ \A b \in Elements(p.free) : b.class = c
      /\ HeldOf(c) \cap Elements(p.free) = {}
      /\ HeldOf(c) \cup Elements(p.free) = Cut(c)
  BY <1>2 DEF IInv, TypeInv, Tiled, OnePlace, FreeOf, Elements, Pool
<1>6. pools'[c] = r.pool
  BY <1>2, <1>3 DEF IInv, TypeInv
<1>7. CASE /\ p.free # <<>> /\ r.block = Head(p.free)
           /\ r.pool = [p EXCEPT !.free = Tail(@)]
  <2>1. /\ Tail(p.free) \in Seq(Block) /\ Once(Tail(p.free))
        /\ r.block \in Elements(p.free)
        /\ Elements(Tail(p.free)) = Elements(p.free) \ {r.block}
    BY <1>5, <1>7, Popped
  <2>2. r.block \in Block
    BY <1>5, <2>1 DEF Elements
  <2>3. /\ r.pool \in Pool /\ r.pool.free = Tail(p.free)
        /\ r.pool.next = p.next /\ r.pool.region = p.region
    BY <1>5, <1>7, <2>1 DEF Pool
  <2>4. Cut(c)' = Cut(c)
    BY <1>6, <2>3 DEF Cut
  <2> HIDE DEF p
  <2>5. /\ r.block \in Block /\ r.block.class = c /\ r.block \notin HeldOf(c)
        /\ r.block \notin Elements(r.pool.free)
        /\ HeldOf(c) \cup {r.block} \cup Elements(r.pool.free) = Cut(c)'
    BY <1>5, <2>1, <2>2, <2>3, <2>4
  <2>6. /\ r.pool \in Pool /\ Once(r.pool.free) /\ HeldOf(c) \cap Elements(r.pool.free) = {}
        /\ \A b \in Elements(r.pool.free) : b.class = c
        /\ r.pool.next % c = 0 /\ r.pool.next =< RegionSize(r.pool.region)
    BY <1>5, <2>1, <2>3
  <2> QED
    BY <1>3, <1>4, <2>5, <2>6, HoldOne DEF c
<1>8. ASSUME NEW R \in 1 .. MaxRegions, NEW x \in Nat, p.free = <<>>, x + c =< RegionSize(R),
             \/ R = p.region /\ x = p.next
             \/ R = p.region + 1 /\ x = 0 /\ p.next + c > RegionSize(p.region),
             r = CutAt(p, c, R, x)
      PROVE  IInv'
  <2> DEFINE new == [class |-> c, region |-> R, off |-> x]
  <2>1. r.block = new /\ r.pool = [p EXCEPT !.region = R, !.next = x + c]
    BY <1>8 DEF CutAt
  <2>2. /\ r.pool \in Pool /\ r.pool.free = <<>>
        /\ r.pool.next = x + c /\ r.pool.region = R
    <3>1. r.pool = [region |-> R, next |-> x + c, free |-> p.free]
      BY <1>5, <2>1 DEF Pool
    <3> QED
      BY <1>2, <1>5, <1>8, <3>1 DEF Pool
  <2>3. new \in Block \ Cut(c) /\ Cut(c)' = Cut(c) \cup {new} /\ (x + c) % c = 0
    BY <1>2, <1>6, <1>8, <2>2, CutOneMore
  <2>4. Elements(r.pool.free) = {} /\ Elements(p.free) = {} /\ Once(r.pool.free)
    BY <1>8, <2>2 DEF Elements, Once
  <2>5. new.class = c
    OBVIOUS
  <2> HIDE DEF new, p
  <2>6. /\ r.block \in Block /\ r.block.class = c /\ r.block \notin HeldOf(c)
        /\ r.block \notin Elements(r.pool.free)
        /\ HeldOf(c) \cup {r.block} \cup Elements(r.pool.free) = Cut(c)'
    BY <1>5, <2>1, <2>3, <2>4, <2>5
  <2>7. /\ r.pool \in Pool /\ Once(r.pool.free) /\ HeldOf(c) \cap Elements(r.pool.free) = {}
        /\ \A b \in Elements(r.pool.free) : b.class = c
        /\ r.pool.next % c = 0 /\ r.pool.next =< RegionSize(r.pool.region)
    BY <1>8, <2>2, <2>3, <2>4
  <2> QED
    BY <1>3, <1>4, <2>6, <2>7, HoldOne DEF c
<1>9. MaxRegions \in Nat
  BY CountsAssumption
<1>10. CASE /\ p.free = <<>> /\ p.next + c =< RegionSize(p.region)
            /\ r = CutAt(p, c, p.region, p.next)
  BY <1>5, <1>8, <1>10
<1>11. CASE /\ p.free = <<>> /\ p.next + c > RegionSize(p.region)
            /\ p.region < MaxRegions /\ c =< RegionSize(p.region + 1)
            /\ r = CutAt(p, c, p.region + 1, 0)
  <2>1. p.region + 1 \in 1 .. MaxRegions
    BY <1>5, <1>9, <1>11
  <2>2. 0 + c =< RegionSize(p.region + 1)
    BY <1>2, <1>11
  <2> HIDE DEF p
  <2> QED
    BY <1>8, <1>11, <2>1, <2>2
<1> QED
  BY <1>2, <1>7, <1>10, <1>11, PoolAllocates

LEMMA SamePools ==
  ASSUME OnePlace, Tiled, Safe, pools' = pools, live' = live, crashed' = crashed
  PROVE  OnePlace' /\ Tiled' /\ Safe'
<1>1. \A c : FreeOf(c)' = FreeOf(c) /\ HeldOf(c)' = HeldOf(c) /\ Cut(c)' = Cut(c)
  BY DEF FreeOf, HeldOf, Cut
<1>2. OnePlace'
  BY <1>1 DEF OnePlace
<1>3. Tiled'
  BY <1>1 DEF Tiled
<1> QED
  BY <1>2, <1>3 DEF Safe

\* Constructing a pool throws: no block of its class can be held.
LEMMA AllocateThrowsMakingStep ==
  ASSUME IInv, AllocateThrowsMaking
  PROVE  IInv'
<1>1. PICK a \in Asked :
        LET c == SizeClass(Bytes(a[1], a[2]))
        IN  /\ MustMake(c)
            /\ entry' = [entry EXCEPT ![c] = "null"]
            /\ UNCHANGED <<pools, live, crashed>>
  BY DEF AllocateThrowsMaking
<1> DEFINE c == SizeClass(Bytes(a[1], a[2]))
<1>2. a[1] \in Types /\ a[2] \in Counts /\ <<a[1], a[2]>> \in Asked
  BY DEF Asked
<1>3. c \in Classes
  BY <1>2, ClassOf
<1> HIDE DEF c
<1>4. /\ entry[c] # "pool" /\ entry' = [entry EXCEPT ![c] = "null"]
      /\ pools' = pools /\ live' = live /\ crashed' = crashed
  BY <1>1 DEF MustMake, c
<1>5. TypeInv'
  BY <1>3, <1>4 DEF IInv, TypeInv
<1>6. HeldInPools'
  <2>1. ASSUME NEW h \in live PROVE h.block.class # c /\ h.block.class \in Classes
    BY <1>4 DEF IInv, HeldInPools, TypeInv, Block
  <2> QED
    BY <1>3, <1>4, <2>1 DEF IInv, HeldInPools, TypeInv, HomeClass
<1>7. OnePlace' /\ Tiled' /\ Safe'
  BY <1>4, SamePools DEF IInv
<1> QED
  BY <1>5, <1>6, <1>7 DEF IInv

LEMMA DeallocateStep ==
  ASSUME IInv, Deallocate
  PROVE  IInv'
<1>1. PICK h \in live :
        LET c     == HomeClass(h)
            state == IF c \in Classes THEN entry[c] ELSE "none"
        IN  /\ live' = live \ {h}
            /\ crashed' = (crashed \/ state = "null")
            /\ pools' = IF state = "pool" THEN [pools EXCEPT ![c].free = <<h.block>> \o @]
                        ELSE pools
            /\ UNCHANGED entry
  BY DEF Deallocate
<1> DEFINE c == h.block.class
           b == h.block
<1>2. HomeClass(h) = c /\ entry[c] = "pool" /\ c \in Classes /\ b \in Block /\ b.class = c
  BY DEF IInv, HeldInPools, TypeInv, Block
<1>3. /\ live' = live \ {h} /\ crashed' = FALSE /\ entry' = entry
      /\ pools' = [pools EXCEPT ![c].free = <<b>> \o @]
  BY <1>1, <1>2 DEF IInv, Safe
<1> HIDE DEF c, b
<1>4. pools[c] \in Pool /\ pools[c].free \in Seq(Block) /\ FreeOf(c) = Elements(pools[c].free)
  BY <1>2 DEF IInv, TypeInv, Pool, FreeOf, Elements
<1>5. Once(pools[c].free) /\ b \in HeldOf(c) /\ b \notin Elements(pools[c].free)
  BY <1>2, <1>4 DEF IInv, OnePlace, HeldOf, b
<1> DEFINE s == <<b>> \o pools[c].free
<1>6. s \in Seq(Block) /\ Once(s) /\ Elements(s) = FreeOf(c) \cup {b}
  BY <1>2, <1>4, <1>5, Pushed
<1> HIDE DEF s
<1>7. /\ pools' = [pools EXCEPT ![c] = [pools[c] EXCEPT !.free = s]]
      /\ pools'[c] = [pools[c] EXCEPT !.free = s]
      /\ \A d \in Classes \ {c} : pools'[d] = pools[d]
  BY <1>2, <1>3 DEF s, IInv, TypeInv
<1>8. /\ pools'[c] \in Pool /\ pools'[c].free = s
      /\ pools'[c].next = pools[c].next /\ pools'[c].region = pools[c].region
  BY <1>4, <1>6, <1>7 DEF Pool
<1>9. HeldOf(c)' = HeldOf(c) \ {b} /\ \A d \in Classes \ {c} : HeldOf(d)' = HeldOf(d)
  <2>1. \A g \in live : g.block = b => g = h
    BY DEF IInv, OnePlace, b
  <2> QED
    BY <1>2, <1>3, <2>1 DEF HeldOf, b
<1>10. FreeOf(c)' = FreeOf(c) \cup {b} /\ Cut(c)' = Cut(c)
  BY <1>6, <1>8 DEF FreeOf, Elements, Cut
<1>11. TypeInv'
  <2>1. pools' \in [Classes -> Pool]
    BY <1>2, <1>7, <1>8 DEF IInv, TypeInv
  <2> QED
    BY <1>3, <2>1 DEF IInv, TypeInv
<1>12. HeldInPools'
  BY <1>3 DEF IInv, HeldInPools, HomeClass
<1>13. ASSUME NEW d \in Classes \ {c}
       PROVE  FreeOf(d)' = FreeOf(d) /\ Cut(d)' = Cut(d)
  BY <1>7, <1>9, OtherClass
<1>14. OnePlace'
  <2>1. \A d \in Classes \ {c} : /\ Once(pools'[d].free) /\ \A x \in FreeOf(d)' : x.class = d
                                  /\ HeldOf(d)' \cap FreeOf(d)' = {}
    BY <1>7, <1>9, <1>13 DEF IInv, OnePlace
  <2>2. /\ Once(pools'[c].free) /\ \A x \in FreeOf(c)' : x.class = c
        /\ HeldOf(c)' \cap FreeOf(c)' = {}
    BY <1>2, <1>6, <1>8, <1>9, <1>10 DEF IInv, OnePlace
  <2> QED
    BY <1>3, <2>1, <2>2 DEF IInv, OnePlace
<1>15. Tiled'
  <2>1. \A d \in Classes \ {c} :
          /\ pools'[d].next % d = 0 /\ pools'[d].next =< RegionSize(pools'[d].region)
          /\ HeldOf(d)' \cup FreeOf(d)' = Cut(d)'
    BY <1>7, <1>9, <1>13 DEF IInv, Tiled
  <2>2. /\ pools'[c].next % c = 0 /\ pools'[c].next =< RegionSize(pools'[c].region)
        /\ HeldOf(c)' \cup FreeOf(c)' = Cut(c)'
    BY <1>2, <1>5, <1>8, <1>9, <1>10 DEF IInv, Tiled
  <2> QED
    BY <2>1, <2>2 DEF Tiled
<1> QED
  BY <1>3, <1>11, <1>12, <1>14, <1>15 DEF IInv, Safe

LEMMA InvariantHolds ==
  ASSUME RegionsHoldABlock
  PROVE  Spec => []IInv
<1>1. IInv /\ [Next]_vars => IInv'
  <2> SUFFICES ASSUME IInv, [Next]_vars PROVE IInv'
    OBVIOUS
  <2>1. CASE UNCHANGED vars
    <3>1. TypeInv' /\ HeldInPools'
      BY <2>1 DEF vars, IInv, TypeInv, HeldInPools, HomeClass
    <3> QED
      BY <2>1, <3>1, SamePools DEF vars, IInv
  <2>2. CASE AllocateThrowsMaking
    BY <2>2, AllocateThrowsMakingStep
  <2>3. CASE Allocate
    BY <2>3, AllocateStep
  <2>4. CASE AllocateThrowsGrowing
    BY <2>1, <2>4 DEF AllocateThrowsGrowing
  <2>5. CASE Deallocate
    BY <2>5, DeallocateStep
  <2> QED
    BY <2>1, <2>2, <2>3, <2>4, <2>5 DEF Next
<1> QED
  BY <1>1, InitOK, PTL DEF Spec

----------------------------------------------------------------------------
(* The results.  They suppose that a region added to a pool holds a block of its class: *)
(* HugePagePool does not check that after it has grown.                                 *)

\* The pools and what is held keep their types, and no pool hands out memory beyond its
\* region.
THEOREM MultiSizeTypeCorrect ==
  ASSUME RegionsHoldABlock
  PROVE  Spec => []TypeOK
<1>1. IInv => TypeOK
  BY DEF IInv, TypeInv, Tiled, Safe, TypeOK
<1> QED
  BY <1>1, InvariantHolds, PTL

\* The pool of a class that has been given out is there when its block comes back
\* (multi_size_hugepage_pool.hpp:126 and :155): a null pointer that a failed construction
\* left in pools_ is made good before it is used.
THEOREM MultiSizeNullPoolUnused ==
  ASSUME RegionsHoldABlock
  PROVE  Spec => []NullPoolUnused
<1>1. IInv => NullPoolUnused
  BY DEF IInv, Safe, NullPoolUnused
<1> QED
  BY <1>1, InvariantHolds, PTL

\* A size class holds the n objects that were asked for, unless n * sizeof(T) wraps.
THEOREM MultiSizeBlocksHold ==
  ASSUME RegionsHoldABlock, NothingWraps
  PROVE  Spec => []BlocksHoldTheirObjects
<1>1. ASSUME IInv PROVE BlocksHoldTheirObjects
  <2>1. ASSUME NEW h \in live PROVE h.count * h.type.size =< h.block.class
    <3>1. /\ h.type \in Types /\ h.count \in Counts /\ <<h.type, h.count>> \in Asked
          /\ h.block.class = SizeClass(Bytes(h.type, h.count))
      BY <1>1 DEF IInv, TypeInv, HeldInPools, HomeClass
    <3>2. h.count * h.type.size < SizeMax /\ h.count * h.type.size \in Nat /\ SizeMax \in Nat \ {0}
      <4>1. h.count \in Nat /\ h.type.size \in Nat /\ SizeMax \in Nat \ {0}
        <5>1. h.type.size \in 1 .. SizeMax - 1 /\ SizeMax \in Nat \ {0}
          BY <3>1, TypesAssumption, SizesAssumption DEF PowerOf2
        <5>2. h.count \in Nat
          BY <3>1, CountsAssumption
        <5>3. h.type.size \in Nat
          BY <5>1
        <5> QED
          BY <5>1, <5>2, <5>3
      <4>2. h.count * h.type.size < SizeMax
        BY <3>1 DEF NothingWraps
      <4> QED
        BY <4>1, <4>2
    <3>3. Bytes(h.type, h.count) = h.count * h.type.size
      BY <3>2 DEF Bytes
    <3> QED
      BY <3>1, <3>3, ClassOf
  <2> QED
    BY <2>1 DEF BlocksHoldTheirObjects
<1> QED
  BY <1>1, InvariantHolds, PTL

\* Every block is aligned for its type, although types of different alignments share a
\* class: each class is a multiple of all of their alignments.
THEOREM MultiSizeBlocksAligned ==
  ASSUME RegionsHoldABlock
  PROVE  Spec => []BlocksAligned
<1>1. ASSUME IInv PROVE BlocksAligned
  <2>1. ASSUME NEW h \in live PROVE h.block.off % h.type.align = 0
    <3> DEFINE c == h.block.class
    <3>1. /\ h.type \in Types /\ h.count \in Counts /\ <<h.type, h.count>> \in Asked
          /\ c = SizeClass(Bytes(h.type, h.count)) /\ h.block.off \in Nat
      BY <1>1 DEF IInv, TypeInv, HeldInPools, HomeClass, Block
    <3>2. c \in Classes /\ c \in Nat \ {0} /\ c % h.type.align = 0 /\ h.type.align \in Nat \ {0}
      BY <3>1, ClassOf, BytesOfAsked
    <3>3. h.block.off % c = 0
      BY <1>1, <3>2 DEF IInv, Tiled, HeldOf, Cut
    <3> QED
      BY <3>1, <3>2, <3>3, DividesTransitive
  <2> QED
    BY <2>1 DEF BlocksAligned
<1> QED
  BY <1>1, InvariantHolds, PTL

\* What a pool has cut is on its own free list, once, or held by a client: deallocate
\* finds the pool a block is from, and drops no block.
THEOREM MultiSizeBlocksComeHome ==
  ASSUME RegionsHoldABlock
  PROVE  Spec => []BlocksComeHome
<1>1. ASSUME IInv PROVE BlocksComeHome
  <2>1. SUFFICES ASSUME NEW c \in Classes
                 PROVE  /\ \A b \in FreeOf(c) : b.class = c
                        /\ Cardinality(FreeOf(c)) = Len(pools[c].free)
                        /\ HeldOf(c) \cap FreeOf(c) = {}
                        /\ \A r \in 1 .. pools[c].region : \A x \in 0 .. RegionSize(r) - c :
                             (r < pools[c].region \/ x < pools[c].next) /\ x % c = 0
                               => [class |-> c, region |-> r, off |-> x]
                                    \in HeldOf(c) \cup FreeOf(c)
    BY DEF BlocksComeHome, HeldOf
  <2>2. pools[c].free \in Seq(Block) /\ pools[c].region \in 1 .. MaxRegions /\ Once(pools[c].free)
    BY <1>1 DEF IInv, TypeInv, OnePlace, Pool
  <2>3. Cardinality(FreeOf(c)) = Len(pools[c].free)
    <3> DEFINE s == pools[c].free
    <3>1. s \in [1 .. Len(s) -> FreeOf(c)] /\ Len(s) \in Nat
      BY <2>2 DEF FreeOf
    <3>2. s \in Bijection(1 .. Len(s), FreeOf(c))
      BY <2>2, <3>1 DEF Bijection, Injection, Surjection, IsInjective, Once, FreeOf
    <3>3. ExistsBijection(1 .. Len(s), FreeOf(c))
      BY <3>2 DEF ExistsBijection
    <3> QED
      BY <3>1, <3>3, FS_CountingElements
  <2>4. ASSUME NEW r \in 1 .. pools[c].region, NEW x \in 0 .. RegionSize(r) - c,
               r < pools[c].region \/ x < pools[c].next, x % c = 0
        PROVE  [class |-> c, region |-> r, off |-> x] \in HeldOf(c) \cup FreeOf(c)
    <3> DEFINE b == [class |-> c, region |-> r, off |-> x]
    <3>1. /\ c \in Nat \ {0} /\ MaxRegions \in Nat /\ RegionSize(r) \in Nat
      BY ClassesType, CountsAssumption, SizesAssumption DEF RegionSize
    <3>2. r \in 1 .. MaxRegions /\ x \in Nat /\ x + c =< RegionSize(r)
      BY <2>2, <3>1
    <3>3. \/ r < pools[c].region
          \/ r = pools[c].region /\ x < pools[c].next
      BY <2>2, <2>4, <3>1
    <3>4. b \in Cut(c)
      BY <2>4, <3>2, <3>3 DEF Cut, Block
    <3> QED
      BY <1>1, <3>4 DEF IInv, Tiled
  <2> QED
    BY <1>1, <2>3, <2>4 DEF IInv, OnePlace
<1> QED
  BY <1>1, InvariantHolds, PTL
=============================================================================
