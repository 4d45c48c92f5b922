-------------------------- MODULE SimdSearchProofs --------------------------
(***************************************************************************)
(* The vector searches of dense_map agree with the linear one for keys of  *)
(* any number of bits, any array and any key.                              *)
(***************************************************************************)
EXTENDS SimdSearch, Induction

Widths == {Wide, Mid, Low64}

TypeOK ==
  /\ mode \in Modes /\ keys \in Seq(Patterns) /\ key \in Patterns
  /\ i \in Nat /\ i =< size
  /\ block \in 1 .. Len(Blocks(mode)) + 1
  /\ done \in BOOLEAN

\* All keys so far are before the searched one.
Prefix == \A n \in 0 .. i - 1 : Comp(mode, KeyAt(n), key)

\* The search stops at a key that is not.
Stopped == done /\ i < size => ~Comp(mode, KeyAt(i), key)

\* As long as registers are loaded, i is a multiple of the widest one for the
\* first two widths, and of the second one for the third.
Aligned ==
  ~done => /\ block =< 2 => (i * mode.bytes) % 32 = 0
           /\ block = 3 /\ Len(Blocks(mode)) = 3 => (i * mode.bytes) % 16 = 0

IInv == TypeOK /\ Prefix /\ Stopped /\ Aligned

----------------------------------------------------------------------------
(* What a lane compares. *)

LEMMA FlipSignType ==
  ASSUME NEW x \in Patterns
  PROVE  FlipSign(x) \in Patterns
BY HalfAssumption DEF Patterns, FlipSign

\* The comparison of two lanes is the comparison of the keys in them.
LEMMA LaneCompares ==
  ASSUME NEW m \in Modes, NEW x \in Patterns, NEW y \in Patterns
  PROVE  LaneTrue(m, x, y) <=> Comp(m, x, y)
<1> USE HalfAssumption
<1> DEFINE s == [m EXCEPT !.kind = "signed"]
<1>1. s.kind = "signed" /\ m.kind \in {"signed", "unsigned", "float"}
  BY DEF Modes
<1>2. \A p \in Patterns : Number(s, p) = IF p < Half THEN p ELSE p - 2 * Half
  BY <1>1, Zenon DEF Number
<1> HIDE DEF s
<1>3. CASE m.kind = "float"
  BY <1>3 DEF LaneTrue
<1>4. CASE m.kind = "signed"
  <2>1. ~IsNaN(m, x) /\ ~IsNaN(m, y)
    BY <1>4 DEF IsNaN
  <2>2. Lane(m, x) = Number(s, x) /\ Lane(m, y) = Number(s, y)
    BY <1>4 DEF Lane, s
  <2>3. \A p \in Patterns : Number(m, p) = IF p < Half THEN p ELSE p - 2 * Half
    BY <1>4 DEF Number
  <2> QED
    BY <1>2, <1>4, <2>1, <2>2, <2>3 DEF LaneTrue, Comp, Patterns
<1>5. CASE m.kind = "unsigned"
  <2>1. ~IsNaN(m, x) /\ ~IsNaN(m, y)
    BY <1>5 DEF IsNaN
  <2>2. Lane(m, x) = Number(s, FlipSign(x)) /\ Lane(m, y) = Number(s, FlipSign(y))
    BY <1>5 DEF Lane, s
  <2>3. Number(m, x) = x /\ Number(m, y) = y
    BY <1>5 DEF Number
  <2>4. \A p \in Patterns : Number(s, FlipSign(p)) = p - Half
    BY <1>2, FlipSignType DEF FlipSign, Patterns
  <2> HIDE DEF s
  <2> QED
    BY <1>5, <2>1, <2>2, <2>3, <2>4 DEF LaneTrue, Comp, Patterns
<1> QED
  BY <1>1, <1>3, <1>4, <1>5

----------------------------------------------------------------------------
(* Widths, lanes and masks. *)

\* The numbers of lanes and of bits for each, as the code writes them out.
LEMMA LanesOf ==
  ASSUME NEW m \in Modes, NEW b \in Widths
  PROVE  /\ Lanes(m, b) \in 1 .. 32
         /\ Lanes(m, b) * m.bytes = b.loaded
         /\ LaneBits(m) \in 1 .. 8
         /\ Lanes(m, b) * LaneBits(m) =< 32
         /\ Lanes(m, b) * LaneBits(m) =< (b.register \div m.bytes) * LaneBits(m)
<1>1. m.bytes \in {1, 2, 4, 8} /\ (m.kind = "float" => m.bytes \in {4, 8})
  BY DEF Modes
<1>2. b \in {[register |-> 32, loaded |-> 32], [register |-> 16, loaded |-> 16],
             [register |-> 16, loaded |-> 8]}
  BY DEF Widths, Wide, Mid, Low64
<1> QED
  BY <1>1, <1>2 DEF Lanes, LaneBits
\* The widest register is the first one, the third one holds 8 bytes.
LEMMA BlocksOf ==
  ASSUME NEW m \in Modes
  PROVE  /\ Len(Blocks(m)) \in {2, 3}
         /\ Blocks(m)[1] = Wide /\ Blocks(m)[2] = Mid
         /\ Len(Blocks(m)) = 3 => Blocks(m)[3] = Low64
         /\ \A n \in 1 .. Len(Blocks(m)) : Blocks(m)[n] \in Widths
<1>1. CASE m.bytes \in {2, 4} /\ m.kind # "float"
  <2>1. Blocks(m) = <<Wide, Mid, Low64>>
    BY <1>1 DEF Blocks
  <2> QED
    BY <2>1 DEF Widths
<1>2. CASE ~ (m.bytes \in {2, 4} /\ m.kind # "float")
  <2>1. Blocks(m) = <<Wide, Mid>>
    BY <1>2 DEF Blocks
  <2> QED
    BY <2>1 DEF Widths
<1> QED
  BY <1>1, <1>2

LEMMA IndexWithin ==
  ASSUME NEW a \in Nat, NEW n \in Nat, NEW len \in Nat, a + n =< len,
         NEW l \in 0 .. n - 1
  PROVE  a + l + 1 \in 1 .. len
OBVIOUS

\* A bit of a loaded lane is 1 when the key in the lane is before the searched one.
LEMMA MaskBit ==
  ASSUME TypeOK, NEW b \in Widths, i + Lanes(mode, b) =< size,
         NEW n \in 0 .. Lanes(mode, b) * LaneBits(mode) - 1
  PROVE  /\ n \div LaneBits(mode) \in 0 .. Lanes(mode, b) - 1
         /\ n \in Mask(mode, b, i) <=> Comp(mode, KeyAt(i + (n \div LaneBits(mode))), key)
<1> DEFINE lane == n \div LaneBits(mode)
<1>1. mode \in Modes /\ key \in Patterns
  BY DEF TypeOK
<1>2. LaneBits(mode) \in {1, 2, 4, 8} /\ Lanes(mode, b) \in 1 .. 32
  BY <1>1, LanesOf DEF LaneBits, Modes
<1>3. lane \in 0 .. Lanes(mode, b) - 1
  BY <1>2
<1>4. n \in MaskBits(mode, b)
  <2>1. Lanes(mode, b) * LaneBits(mode) =< (b.register \div mode.bytes) * LaneBits(mode)
    BY <1>1, LanesOf
  <2>2. (b.register \div mode.bytes) * LaneBits(mode) \in Nat
    BY <1>1, <1>2 DEF Modes, Widths, Wide, Mid, Low64
  <2>3. Lanes(mode, b) * LaneBits(mode) \in Nat
    BY <1>2
  <2> HIDE <1>2
  <2> QED
    BY <2>1, <2>2, <2>3 DEF MaskBits
<1>5. KeyAt(i + lane) \in Patterns
  <2> HIDE DEF lane
  <2>1. i + lane + 1 \in 1 .. Len(keys)
    <3>1. Len(keys) \in Nat /\ i \in Nat /\ i + Lanes(mode, b) =< Len(keys)
      BY DEF TypeOK, size
    <3>2. Lanes(mode, b) \in Nat
      BY <1>2
    <3> QED
      BY <1>3, <3>1, <3>2, IndexWithin
  <2> QED
    BY <2>1 DEF TypeOK, KeyAt
<1>6. LaneTrue(mode, KeyAt(i + lane), key) <=> Comp(mode, KeyAt(i + lane), key)
  BY <1>1, <1>5, LaneCompares
<1>7. n \in Mask(mode, b, i) <=> LaneTrue(mode, KeyAt(i + lane), key)
  <2> HIDE DEF lane
  <2>1. lane < Lanes(mode, b)
    BY <1>2, <1>3
  <2> QED
    BY <1>4, <2>1 DEF Mask, lane
<1> QED
  BY <1>3, <1>6, <1>7

\* countr_one of a mask that is not all ones is the number of its lowest 0.
LEMMA CountrOneIsLowestZero ==
  ASSUME NEW mask, NEW z \in 0 .. 31, z \notin mask
  PROVE  /\ CountrOne(mask) \in 0 .. z /\ CountrOne(mask) \notin mask
         /\ \A c \in 0 .. CountrOne(mask) - 1 : c \in mask
<1> DEFINE zeros == {n \in Nat : n \notin mask}
           P(n) == n \notin mask /\ \A c \in 0 .. n - 1 : c \in mask
<1>1. z \in zeros
  OBVIOUS
<1>2. PICK least \in zeros : \A n \in zeros : least =< n
  BY <1>1, LeastElement
<1>3. least \in 0 .. 32 /\ P(least)
  BY <1>1, <1>2
<1>4. CountrOne(mask) = CHOOSE n \in 0 .. 32 : P(n)
  BY DEF CountrOne
<1>5. CountrOne(mask) \in 0 .. 32 /\ P(CountrOne(mask))
  <2> HIDE DEF P
  <2> QED BY <1>3, <1>4
<1> QED
  BY <1>5

----------------------------------------------------------------------------
(* The steps. *)

LEMMA InitOK == Init => IInv
<1> SUFFICES ASSUME Init PROVE IInv
  OBVIOUS
<1>1. PICK s \in Searches : mode = s.mode /\ keys = s.keys /\ key = s.key
  BY DEF Init
<1>2. mode \in Modes /\ keys \in Seq(Patterns) /\ key \in Patterns
  BY <1>1, SearchesAssumption
<1>3. mode.bytes \in {1, 2, 4, 8}
  BY <1>2 DEF Modes
<1>4. Len(keys) \in Nat /\ Len(Blocks(mode)) \in {2, 3}
  BY <1>2, BlocksOf
<1>5. TypeOK
  <2>1. i = 0 /\ block = 1 /\ done = FALSE
    BY DEF Init
  <2>2. i \in Nat /\ i =< size /\ block \in 1 .. Len(Blocks(mode)) + 1
    BY <1>4, <2>1 DEF size
  <2> QED
    BY <1>2, <2>1, <2>2 DEF TypeOK
<1>6. Prefix /\ Stopped
  BY DEF Init, Prefix, Stopped
<1>7. Aligned
  BY <1>3 DEF Init, Aligned
<1> QED
  BY <1>5, <1>6, <1>7 DEF IInv

\* The state in which a register is compared.
LEMMA AtCompare ==
  ASSUME IInv, InBlocks, Fits
  PROVE  /\ mode \in Modes /\ mode.bytes \in {1, 2, 4, 8}
         /\ block \in 1 .. 3 /\ Blocks(mode)[block] \in Widths
         /\ Lanes(mode, Blocks(mode)[block]) \in 1 .. 32
         /\ i + Lanes(mode, Blocks(mode)[block]) =< size
         /\ Blocks(mode)[block] = Wide <=> block = 1
         /\ (i * mode.bytes) % Blocks(mode)[block].loaded = 0
<1>1. mode \in Modes /\ i \in Nat /\ block \in 1 .. Len(Blocks(mode)) + 1
  BY DEF IInv, TypeOK
<1>2. mode.bytes \in {1, 2, 4, 8}
  BY <1>1 DEF Modes
<1>3. block \in 1 .. Len(Blocks(mode)) /\ Len(Blocks(mode)) \in {2, 3}
  BY <1>1, BlocksOf DEF InBlocks
<1>4. Blocks(mode)[block] \in Widths
  BY <1>1, <1>3, BlocksOf
<1>5. Blocks(mode)[block] = IF block = 1 THEN Wide ELSE IF block = 2 THEN Mid ELSE Low64
  BY <1>1, <1>3, BlocksOf
<1>6. (i * mode.bytes) % Blocks(mode)[block].loaded = 0
  <2>1. /\ block =< 2 => (i * mode.bytes) % 32 = 0
        /\ block = 3 => (i * mode.bytes) % 16 = 0
    <3>1. ~done /\ (block = 3 => Len(Blocks(mode)) = 3)
      BY <1>3 DEF InBlocks
    <3> QED
      BY <3>1, Zenon DEF IInv, Aligned
  <2>2. block \in 1 .. 3 /\ i * mode.bytes \in Nat
    <3>1. block \in 1 .. 3
      <4>1. PICK l \in {2, 3} : block \in 1 .. l
        BY <1>3
      <4> QED
        BY ONLY <4>1
    <3>2. \A b \in {1, 2, 4, 8} : i * b \in Nat
      BY <1>1
    <3> QED
      BY <1>2, <3>1, <3>2
  <2>3. Blocks(mode)[block].loaded = IF block = 1 THEN 32 ELSE IF block = 2 THEN 16 ELSE 8
    BY <1>5, <2>2 DEF Wide, Mid, Low64
  <2> DEFINE x == i * mode.bytes
             loaded == Blocks(mode)[block].loaded
  <2>4. /\ x \in Nat /\ block \in 1 .. 3
        /\ loaded = IF block = 1 THEN 32 ELSE IF block = 2 THEN 16 ELSE 8
        /\ block =< 2 => x % 32 = 0
        /\ block = 3 => x % 16 = 0
    BY <2>1, <2>2, <2>3
  <2> HIDE DEF x, loaded
  <2>5. x % loaded = 0
    <3>1. CASE block = 1
      BY ONLY <2>4, <3>1
    <3>2. CASE block = 2
      BY ONLY <2>4, <3>2
    <3>3. CASE block = 3
      BY ONLY <2>4, <3>3
    <3> QED
      BY <2>4, <3>1, <3>2, <3>3
  <2> QED
    BY <2>5 DEF x, loaded
<1>7. Blocks(mode)[block] = Wide <=> block = 1
  BY <1>3, <1>5 DEF Wide, Mid, Low64
<1> QED
  BY <1>1, <1>2, <1>3, <1>4, <1>6, <1>7, LanesOf DEF Fits

\* All lanes are before the searched key, and the search goes on behind them.
LEMMA AllBefore ==
  ASSUME IInv, InBlocks, Fits,
         AllOnes(mode, Blocks(mode)[block], Mask(mode, Blocks(mode)[block], i))
  PROVE  \A n \in 0 .. i + Lanes(mode, Blocks(mode)[block]) - 1 : Comp(mode, KeyAt(n), key)
<1> DEFINE b == Blocks(mode)[block]
<1>1. /\ mode \in Modes /\ b \in Widths
      /\ Lanes(mode, b) \in 1 .. 32 /\ i + Lanes(mode, b) =< size
      /\ TypeOK /\ i \in Nat
  BY AtCompare DEF IInv, TypeOK
<1> HIDE DEF b
<1>2. LaneBits(mode) \in {1, 2, 4, 8}
  BY <1>1 DEF LaneBits, Modes
<1>3. ASSUME NEW l \in 0 .. Lanes(mode, b) - 1
      PROVE  Comp(mode, KeyAt(i + l), key)
  <2> DEFINE n == l * LaneBits(mode)
  <2>1. n \in 0 .. Lanes(mode, b) * LaneBits(mode) - 1 /\ n \div LaneBits(mode) = l
    BY <1>1, <1>2
  <2> HIDE DEF n
  <2>2. n \in Mask(mode, b, i)
    BY <2>1 DEF AllOnes, b
  <2> QED
    BY <1>1, <2>1, <2>2, MaskBit
<1>4. ASSUME NEW n \in 0 .. i + Lanes(mode, b) - 1
      PROVE  Comp(mode, KeyAt(n), key)
  <2>1. CASE n < i
    BY <1>1, <2>1 DEF IInv, Prefix
  <2>2. CASE ~ (n < i)
    <3>1. n - i \in 0 .. Lanes(mode, b) - 1 /\ i + (n - i) = n
      BY <1>1, <2>2
    <3> QED
      BY <1>3, <3>1
  <2> QED
    BY <2>1, <2>2
<1> QED
  BY <1>4 DEF b

\* Otherwise the lowest 0 of the mask is the first key that is not.
LEMMA FirstNotBefore ==
  ASSUME IInv, InBlocks, Fits,
         ~AllOnes(mode, Blocks(mode)[block], Mask(mode, Blocks(mode)[block], i)),
         NEW j, j = i + CountrOne(Mask(mode, Blocks(mode)[block], i)) \div LaneBits(mode)
  PROVE  /\ j \in Nat /\ j < size
         /\ \A n \in 0 .. j - 1 : Comp(mode, KeyAt(n), key)
         /\ ~Comp(mode, KeyAt(j), key)
<1> DEFINE b    == Blocks(mode)[block]
           mask == Mask(mode, b, i)
           c    == CountrOne(mask)
<1>1. /\ mode \in Modes /\ b \in Widths
      /\ Lanes(mode, b) \in 1 .. 32 /\ i + Lanes(mode, b) =< size
      /\ TypeOK /\ i \in Nat /\ size \in Nat
  BY AtCompare DEF IInv, TypeOK, size
<1> HIDE DEF b
<1>2. LaneBits(mode) \in {1, 2, 4, 8} /\ Lanes(mode, b) * LaneBits(mode) \in 0 .. 32
  BY <1>1, LanesOf DEF LaneBits, Modes
<1>3. PICK z \in 0 .. Lanes(mode, b) * LaneBits(mode) - 1 : z \notin mask
  BY DEF AllOnes, b
<1>4. c \in 0 .. z /\ c \notin mask /\ \A n \in 0 .. c - 1 : n \in mask
  <2>1. z \in 0 .. 31
    BY <1>2, <1>3
  <2> HIDE DEF mask
  <2> QED
    BY <1>3, <2>1, CountrOneIsLowestZero
<1> HIDE DEF c
<1>5. c \in 0 .. Lanes(mode, b) * LaneBits(mode) - 1
  BY <1>2, <1>3, <1>4
<1> DEFINE lane == c \div LaneBits(mode)
<1>6. lane \in 0 .. Lanes(mode, b) - 1 /\ ~Comp(mode, KeyAt(i + lane), key)
  BY <1>1, <1>4, <1>5, MaskBit
<1>7. j = i + lane
  BY DEF c, mask, b
<1>8. ASSUME NEW l \in 0 .. lane - 1
      PROVE  Comp(mode, KeyAt(i + l), key)
  <2> DEFINE n == l * LaneBits(mode)
  <2>1. n \in 0 .. c - 1 /\ n \div LaneBits(mode) = l
    BY <1>2, <1>4, <1>5
  <2> HIDE DEF n
  <2>2. n \in 0 .. Lanes(mode, b) * LaneBits(mode) - 1
    BY <1>2, <1>5, <2>1
  <2>3. n \in Mask(mode, b, i)
    BY <1>4, <2>1
  <2> QED
    BY <1>1, <2>1, <2>2, <2>3, MaskBit
<1>9. ASSUME NEW n \in 0 .. j - 1
      PROVE  Comp(mode, KeyAt(n), key)
  <2>1. CASE n < i
    BY <1>1, <2>1 DEF IInv, Prefix
  <2>2. CASE ~ (n < i)
    <3> HIDE DEF lane
    <3>1. n - i \in 0 .. lane - 1 /\ i + (n - i) = n
      BY <1>1, <1>6, <1>7, <2>2
    <3> QED
      BY <1>8, <3>1
  <2> QED
    BY <2>1, <2>2
<1>10. j \in Nat /\ j < size
  <2> HIDE DEF lane
  <2> QED
    BY <1>1, <1>6, <1>7
<1> QED
  BY <1>6, <1>7, <1>9, <1>10

LEMMA Distributes ==
  ASSUME NEW a \in Nat, NEW l \in Nat, NEW bytes \in {1, 2, 4, 8}
  PROVE  (a + l) * bytes = a * bytes + l * bytes
OBVIOUS

LEMMA CompareStep ==
  ASSUME IInv, Compare
  PROVE  IInv'
<1> DEFINE b    == Blocks(mode)[block]
           mask == Mask(mode, b, i)
           l    == Lanes(mode, b)
<1>1. /\ mode \in Modes /\ mode.bytes \in {1, 2, 4, 8} /\ b \in Widths
      /\ block \in 1 .. 3 /\ block =< Len(Blocks(mode))
      /\ l \in 1 .. 32 /\ i + l =< size
      /\ b = Wide <=> block = 1
      /\ (i * mode.bytes) % b.loaded = 0
      /\ i \in Nat /\ size \in Nat
  BY AtCompare DEF Compare, IInv, TypeOK, size, InBlocks
<1>2. /\ l * mode.bytes = b.loaded
      /\ b.loaded = IF block = 1 THEN 32 ELSE IF block = 2 THEN 16 ELSE 8
  <2>1. l * mode.bytes = b.loaded
    BY <1>1, LanesOf
  <2>2. b = IF block = 1 THEN Wide ELSE IF block = 2 THEN Mid ELSE Low64
    BY <1>1, BlocksOf
  <2> QED
    BY <1>1, <2>1, <2>2 DEF Wide, Mid, Low64
<1>3. InBlocks /\ Fits /\ mode' = mode /\ keys' = keys /\ key' = key
  BY DEF Compare
<1> HIDE DEF b, l
<1>4. CASE AllOnes(mode, b, mask)
  <2>1. i' = i + l /\ done' = done /\ done = FALSE
        /\ block' = IF b = Wide THEN block ELSE block + 1
    BY <1>4 DEF Compare, Advance, b, l, InBlocks
  <2>2. Prefix'
    <3>1. \A n \in 0 .. i + l - 1 : Comp(mode, KeyAt(n), key)
      BY <1>3, <1>4, AllBefore DEF b, l
    <3>2. i' - 1 = i + l - 1
      BY <1>1, <2>1
    <3> QED
      BY <1>3, <3>1, <3>2, Zenon DEF Prefix, KeyAt
  <2>3. TypeOK'
    <3>1. i' \in Nat /\ i' =< size'
      BY <1>1, <1>3, <2>1 DEF size
    <3>2. block' \in 1 .. Len(Blocks(mode)) + 1
      BY <1>1, <2>1, BlocksOf
    <3> QED
      BY <1>3, <2>1, <3>1, <3>2 DEF IInv, TypeOK
  <2>4. Stopped'
    BY <2>1 DEF Stopped
  <2>5. Aligned'
    <3>1. i' * mode.bytes = i * mode.bytes + b.loaded
      BY <1>1, <1>2, <2>1, Distributes
    <3>2. i * mode.bytes \in Nat
      BY <1>1
    <3>3. /\ block' =< 2 => (i' * mode.bytes) % 32 = 0
          /\ block' = 3 => (i' * mode.bytes) % 16 = 0
      <4> DEFINE x == i * mode.bytes
      <4> HIDE DEF x
      <4>1. x \in Nat /\ i' * mode.bytes = x + b.loaded /\ x % b.loaded = 0
        BY <1>1, <3>1, <3>2 DEF x
      <4>2. CASE block = 1
        BY <1>1, <1>2, <2>1, <4>1, <4>2
      <4>3. CASE block = 2
        BY <1>1, <1>2, <2>1, <4>1, <4>3
      <4>4. CASE block = 3
        <5>1. block' = 4
          BY <1>1, <2>1, <4>4
        <5> QED
          BY <5>1
      <4> QED
        BY <1>1, <4>2, <4>3, <4>4
    <3> QED
      BY <1>3, <3>3, Zenon DEF Aligned
  <2> QED
    BY <2>2, <2>3, <2>4, <2>5 DEF IInv
<1>5. CASE ~AllOnes(mode, b, mask)
  <2>1. i' = i + CountrOne(mask) \div LaneBits(mode) /\ done' = TRUE /\ block' = block
    BY <1>5 DEF Compare, b
  <2>2. /\ i' \in Nat /\ i' < size
        /\ \A n \in 0 .. i' - 1 : Comp(mode, KeyAt(n), key)
        /\ ~Comp(mode, KeyAt(i'), key)
    BY <1>3, <1>5, <2>1, FirstNotBefore DEF b
  <2>3. TypeOK'
    BY <1>1, <1>3, <2>1, <2>2 DEF IInv, TypeOK, size
  <2>4. Prefix' /\ Stopped'
    BY <1>3, <2>2 DEF Prefix, Stopped, KeyAt
  <2>5. Aligned'
    BY <2>1 DEF Aligned
  <2> QED
    BY <2>3, <2>4, <2>5 DEF IInv
<1> QED
  BY <1>4, <1>5

LEMMA NarrowStep ==
  ASSUME IInv, Narrow
  PROVE  IInv'
<1>1. /\ ~done /\ block =< Len(Blocks(mode)) /\ block' = block + 1
      /\ mode' = mode /\ keys' = keys /\ key' = key /\ i' = i /\ done' = done
  BY DEF Narrow, InBlocks
<1>2. /\ block \in 1 .. Len(Blocks(mode)) /\ Len(Blocks(mode)) \in {2, 3}
      /\ mode.bytes \in {1, 2, 4, 8} /\ i \in Nat
  BY <1>1, BlocksOf DEF IInv, TypeOK, Modes
<1>3. TypeOK'
  BY <1>1, <1>2 DEF IInv, TypeOK, size
<1>4. Prefix' /\ Stopped'
  BY <1>1 DEF IInv, Prefix, Stopped, KeyAt, size
<1>5. Aligned'
  <2> DEFINE x == i * mode.bytes
  <2>1. x \in Nat
    BY <1>2
  <2>2. /\ block =< 2 => x % 32 = 0
        /\ block = 3 /\ Len(Blocks(mode)) = 3 => x % 16 = 0
    BY <1>1, Zenon DEF IInv, Aligned
  <2> HIDE DEF x
  <2>3. /\ block' =< 2 => x % 32 = 0
        /\ block' = 3 => x % 16 = 0
    BY <1>1, <1>2, <2>1, <2>2
  <2>4. x' = x
    BY <1>1 DEF x
  <2> QED
    BY <1>1, <2>3, <2>4, Zenon DEF Aligned, x
<1> QED
  BY <1>3, <1>4, <1>5 DEF IInv

LEMMA ScalarStep ==
  ASSUME IInv, Scalar
  PROVE  IInv'
<1>1. /\ ~done /\ block > Len(Blocks(mode))
      /\ mode' = mode /\ keys' = keys /\ key' = key /\ block' = block
  BY DEF Scalar
<1>2. /\ i \in Nat /\ size \in Nat /\ i =< size
      /\ block \in 1 .. Len(Blocks(mode)) + 1 /\ Len(Blocks(mode)) \in {2, 3}
  BY BlocksOf DEF IInv, TypeOK, size
<1>3. block > 2 /\ (block = 3 => Len(Blocks(mode)) # 3)
  BY <1>1, <1>2
<1>4. Aligned'
  BY <1>1, <1>2, <1>3 DEF Aligned
<1>5. CASE i < size /\ Comp(mode, KeyAt(i), key)
  <2>1. i' = i + 1 /\ done' = done
    BY <1>5 DEF Scalar
  <2>2. TypeOK'
    <3>1. i' \in Nat /\ i' =< size'
      BY <1>1, <1>2, <1>5, <2>1 DEF size
    <3> QED
      BY <1>1, <2>1, <3>1 DEF IInv, TypeOK
  <2>3. Prefix'
    <3>1. \A n \in 0 .. i : n = i \/ n \in 0 .. i - 1
      BY <1>2
    <3>2. i' - 1 = i
      BY <1>2, <2>1
    <3>3. \A n \in 0 .. i : Comp(mode, KeyAt(n), key)
      BY <1>5, <3>1 DEF IInv, Prefix
    <3> QED
      BY <1>1, <3>2, <3>3, Zenon DEF Prefix, KeyAt
  <2>4. Stopped'
    BY <1>1, <2>1 DEF Stopped
  <2> QED
    BY <1>4, <2>2, <2>3, <2>4 DEF IInv
<1>6. CASE ~ (i < size /\ Comp(mode, KeyAt(i), key))
  <2>1. i' = i /\ done' = TRUE
    BY <1>6 DEF Scalar
  <2>2. TypeOK'
    BY <1>1, <2>1 DEF IInv, TypeOK, size
  <2>3. Prefix' /\ Stopped'
    BY <1>1, <1>6, <2>1 DEF IInv, Prefix, Stopped, KeyAt, size
  <2> QED
    BY <1>4, <2>2, <2>3 DEF IInv
<1> QED
  BY <1>5, <1>6

LEMMA InvariantHolds == Spec => []IInv
<1>1. IInv /\ [Next]_vars => IInv'
  <2> SUFFICES ASSUME IInv, [Next]_vars PROVE IInv'
    OBVIOUS
  <2>1. CASE Compare
    BY <2>1, CompareStep
  <2>2. CASE Narrow
    BY <2>2, NarrowStep
  <2>3. CASE Scalar
    BY <2>3, ScalarStep
  <2>4. CASE UNCHANGED vars
    BY <2>4 DEF vars, IInv, TypeOK, Prefix, Stopped, Aligned, KeyAt, size
  <2> QED
    BY <2>1, <2>2, <2>3, <2>4 DEF Next
<1> QED
  BY <1>1, InitOK, PTL DEF Spec

----------------------------------------------------------------------------
(* The results. *)

\* The vector search returns what the linear one does (simd_lower_bound_* against
\* lower_bound_key), whatever the width of the keys, the array and the key: masks,
\* lanes, sign bits and the steps from one width to the next agree.  The array need
\* not even be sorted.
THEOREM VectorSearchIsLinearSearch == Spec => []SameAsLinear
<1>1. IInv => SameAsLinear
  BY DEF IInv, Prefix, Stopped, SameAsLinear
<1> QED
  BY <1>1, InvariantHolds, PTL

\* _mm256_load_si256 and _mm_load_si128 are given addresses that are multiples of
\* what they load.
THEOREM RegistersAreLoadedAligned == Spec => []LoadsAligned
<1>1. IInv => LoadsAligned
  BY AtCompare, Zenon DEF LoadsAligned
<1> QED
  BY <1>1, InvariantHolds, PTL

=============================================================================
