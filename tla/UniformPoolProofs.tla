-------------------------- MODULE UniformPoolProofs --------------------------
(***************************************************************************)
(* A pool of blocks of one size hands no memory out twice.                 *)
(*                                                                         *)
(* The inductive invariant adds to the properties that the blocks on the   *)
(* free list are apart too, that what is left of the newest region is      *)
(* apart from every block, and that the free list can be laid out as a     *)
(* sequence: without the first two a later step hands out memory in use,   *)
(* without the last a link may lead to a block that is not free.           *)
(***************************************************************************)
EXTENDS UniformPool, FiniteSetTheorems, FunctionTheorems, Induction, TLAPS

Blocks == live \cup freed

OneKind == \A b \in Blocks : \E q \in Requests : b = Handed(b.addr, q)

AllApart ==
  /\ \A b, c \in Blocks : b # c => Apart(b, c)
  /\ live \cap freed = {}

AllMapped ==
  /\ \A r \in regions : r.base + r.size - 1 \in Addr
  /\ \A b \in Blocks : InRegion(b)

AllAligned == \A b \in Blocks : b.addr % b.align = 0

\* What is left of the newest region.
TailFree ==
  /\ \E r \in regions : r.base =< nextFree /\ nextFree + bytesRemaining =< r.base + r.size
  /\ \A b \in Blocks :
       \/ Before(b.addr, b.bytes, nextFree)
       \/ Before(nextFree, bytesRemaining, b.addr)

\* f lists the n freed blocks, the head last.
Layout(n, f) ==
  /\ f \in [1 .. n -> Addr]
  /\ {f[i] : i \in 1 .. n} = {b.addr : b \in freed}
  /\ \A i, j \in 1 .. n : i # j => f[i] # f[j]
  /\ \A i \in 1 .. n : word[f[i]] = IF i = 1 THEN Nil ELSE f[i - 1]
  /\ freeListHead = IF n = 0 THEN Nil ELSE f[n]

Listed == \E n \in Nat : \E f \in [1 .. n -> Addr] : Layout(n, f)

IInv == TypeOK /\ OneKind /\ AllApart /\ AllMapped /\ AllAligned /\ TailFree /\ Listed

----------------------------------------------------------------------------
(* Arithmetic. *)

\* The padding before a block is less than its alignment (aligned - current).
LEMMA PaddingBound ==
  ASSUME NEW x \in Nat, NEW a \in Nat \ {0}
  PROVE  Padding(x, a) \in Nat /\ Padding(x, a) < a
BY SMT DEF Padding

\* A number is its quotient times the divisor, plus the remainder.
LEMMA DivMod ==
  ASSUME NEW x \in Int, NEW a \in Nat \ {0}
  PROVE  x = a * (x \div a) + (x % a)
BY SMT

\* A multiple of the alignment leaves no remainder.
LEMMA MultipleMod ==
  ASSUME NEW x \in Nat, NEW a \in Nat \ {0}, NEW q \in Int, x = a * q
  PROVE  x % a = 0
BY SMT

\* A block that starts after the padding is aligned.
LEMMA PaddingAligns ==
  ASSUME NEW x \in Nat, NEW a \in Nat \ {0}
  PROVE  (x + Padding(x, a)) % a = 0
<1>1. PICK p \in Nat : p = Padding(x, a)
  BY PaddingBound
<1>2. PICK q \in Int : -x = a * q + p
  <2>1. -x \in Int
    OBVIOUS
  <2>2. -x = a * ((-x) \div a) + ((-x) % a)
    BY <2>1, DivMod
  <2>3. (-x) \div a \in Int
    BY SMT
  <2> QED
    BY <1>1, <2>2, <2>3 DEF Padding
<1>3. PICK m \in Int : m = a * q
  BY SMT
<1>4. a * (-q) = -m
  BY <1>3, SMT
<1>5. PICK y \in Nat, r \in Int : y = x + p /\ r = -q /\ y = a * r
  BY <1>2, <1>3, <1>4, SMT
<1>6. y % a = 0
  BY <1>5, MultipleMod
<1> QED
  BY <1>1, <1>5, <1>6

----------------------------------------------------------------------------
(* Cutting a block off m units of memory at start that has room for it. *)

Room(start, avail, q) == avail >= q.bytes + Padding(start, q.align)

\* Nothing wraps, the block ends where the rest begins, and the rest is smaller.
LEMMA CutExact ==
  ASSUME NEW start \in Nat, NEW avail \in Nat, avail =< MaxAddr,
         NEW q \in Requests, Room(start, avail, q), Cut(start, avail, q)
  PROVE  /\ nextFree' = start + Padding(start, q.align) + q.bytes
         /\ bytesRemaining' = avail - (q.bytes + Padding(start, q.align))
         /\ bytesRemaining' \in Nat /\ nextFree' \in Nat
         /\ live' = live \cup {Handed(start + Padding(start, q.align), q)}
<1>1. q.align \in Nat \ {0} /\ q.bytes \in Nat \ {0}
  BY RequestAssumption
<1>2. Padding(start, q.align) \in Nat
  BY <1>1, PaddingBound
<1> QED
  BY <1>1, <1>2, SpaceAssumption, SMT DEF Cut, Room, Wrap

\* A new region has room for a block.
LEMMA RegionHasRoom ==
  ASSUME NEW start \in Nat, NEW avail \in Nat, avail >= GrowthSize, NEW q \in Requests
  PROVE  Room(start, avail, q)
<1>1. q.align \in Nat \ {0} /\ q.bytes \in Nat \ {0}
  BY RequestAssumption
<1>2. Padding(start, q.align) \in Nat /\ Padding(start, q.align) < q.align
  BY <1>1, PaddingBound
<1> QED
  BY <1>1, <1>2, GrowthAssumption, ConfigAssumption, SMT DEF Room

\* The test before growing is exact.
LEMMA HasRoomExact ==
  ASSUME NEW q \in Requests, nextFree \in Nat, bytesRemaining \in Nat, HasRoom(q)
  PROVE  Room(nextFree, bytesRemaining, q)
<1>1. q.align \in Nat \ {0} /\ q.bytes \in Nat \ {0}
  BY RequestAssumption
<1>2. /\ Padding(nextFree, q.align) \in Nat
      /\ Padding(nextFree, q.align) < q.align
  BY <1>1, PaddingBound
<1> QED
  BY <1>1, <1>2, GrowthAssumption, ConfigAssumption, SpaceAssumption, SMT
  DEF HasRoom, Room, Wrap

----------------------------------------------------------------------------
(* The steps. *)

\* A block has a size.
LEMMA BlockType ==
  ASSUME IInv, NEW b \in Blocks
  PROVE  b.addr \in Nat /\ b.bytes \in Nat \ {0} /\ b \in Block
BY DEF IInv, TypeOK, Blocks, Block

\* A block lies in the address space.
LEMMA BlockInSpace ==
  ASSUME IInv, NEW b \in Blocks
  PROVE  b.addr \in Addr
<1>1. PICK r \in regions : r.base =< b.addr /\ b.addr + b.bytes =< r.base + r.size
  BY DEF IInv, AllMapped, InRegion
<1>2. r.base \in Addr /\ r.size \in Nat /\ r.base + r.size - 1 \in Addr
  BY DEF IInv, TypeOK, AllMapped, Region
<1> QED
  BY <1>1, <1>2, BlockType, SpaceAssumption, SMT DEF Addr

\* Two blocks at one address are one block.
LEMMA OneBlockAtAddress ==
  ASSUME IInv, NEW b \in Blocks, NEW c \in Blocks, b.addr = c.addr
  PROVE  b = c
BY BlockType, SMT DEF IInv, AllApart, Apart, Before

\* Blocks change hands: where they lie does not matter to who has them.
LEMMA SameBlocks ==
  ASSUME IInv, Blocks' = Blocks, live' \cap freed' = {}, UNCHANGED cutting
  PROVE  OneKind' /\ AllApart' /\ AllMapped' /\ AllAligned' /\ TailFree'
BY DEF IInv, OneKind, AllApart, AllMapped, AllAligned, TailFree, InRegion, cutting,
       Apart, Handed

\* allocate pops a free block: it changes hands and its link is read, not kept.
LEMMA FromFreeListStep ==
  ASSUME IInv, AllocateFromFreeList
  PROVE  IInv'
<1>1. PICK n \in Nat : \E f \in [1 .. n -> Addr] : Layout(n, f)
  BY DEF IInv, Listed
<1>2. PICK f \in [1 .. n -> Addr] : Layout(n, f)
  BY <1>1
<1>3. n # 0 /\ freeListHead = f[n] /\ n \in 1 .. n
  BY <1>2, SMT DEF Layout, AllocateFromFreeList, Addr, Nil
<1>4. PICK b \in freed : b.addr = freeListHead
  BY <1>2, <1>3 DEF Layout
<1>5. PICK q \in Requests : live' = live \cup {Handed(freeListHead, q)}
  BY DEF AllocateFromFreeList
<1>6. b = Handed(freeListHead, q)
  BY <1>4, UniformAssumption DEF IInv, OneKind, Blocks
<1>7. live' = live \cup {b} /\ freed' = freed \ {b}
  <2>1. \A c \in freed : c.addr = freeListHead => c = b
    BY <1>4, OneBlockAtAddress DEF Blocks
  <2> QED
    BY <1>4, <1>5, <1>6, <2>1 DEF AllocateFromFreeList
<1>8. Blocks' = Blocks /\ live' \cap freed' = {}
  BY <1>4, <1>7 DEF Blocks, IInv, AllApart
<1>9. OneKind' /\ AllApart' /\ AllMapped' /\ AllAligned' /\ TailFree'
  BY <1>8, SameBlocks DEF AllocateFromFreeList
<1>10. Layout(n - 1, [i \in 1 .. n - 1 |-> f[i]])'
  <2> DEFINE g == [i \in 1 .. n - 1 |-> f[i]]
  <2>1. n - 1 \in Nat /\ \A i \in 1 .. n - 1 : i \in 1 .. n /\ i # n /\ g[i] = f[i]
    BY <1>3, SMT
  <2>2. g \in [1 .. n - 1 -> Addr]
    BY <2>1
  <2>3. {g[i] : i \in 1 .. n - 1} = {f[i] : i \in 1 .. n} \ {f[n]}
    <3>1. \A i \in 1 .. n : i # n => i \in 1 .. n - 1
      BY SMT
    <3> QED
      BY <1>2, <1>3, <2>1, <3>1 DEF Layout
  <2>4. {c.addr : c \in freed'} = {c.addr : c \in freed} \ {f[n]}
    BY <1>3, <1>4, <1>7, OneBlockAtAddress DEF Blocks
  <2>5. \A i, j \in 1 .. n - 1 : i # j => g[i] # g[j]
    BY <1>2, <2>1 DEF Layout
  <2>6. word' = word /\ \A i \in 1 .. n - 1 : word[g[i]] = IF i = 1 THEN Nil ELSE g[i - 1]
    <3>1. \A i \in 1 .. n - 1 : i # 1 => g[i - 1] = f[i - 1]
      BY SMT
    <3> QED
      BY <1>2, <2>1, <3>1 DEF Layout, AllocateFromFreeList
  <2>7. freeListHead' = IF n - 1 = 0 THEN Nil ELSE g[n - 1]
    <3>1. freeListHead' = IF n = 1 THEN Nil ELSE f[n - 1]
      BY <1>2, <1>3 DEF Layout, AllocateFromFreeList
    <3> QED
      BY <1>3, <3>1, SMT
  <2> QED
    BY <1>2, <2>2, <2>3, <2>4, <2>5, <2>6, <2>7 DEF Layout
<1>11. Listed'
  <2>1. n - 1 \in Nat /\ [i \in 1 .. n - 1 |-> f[i]] \in [1 .. n - 1 -> Addr]
    BY <1>3, SMT
  <2> QED
    BY <1>10, <2>1 DEF Listed
<1>12. TypeOK'
  <2>1. freeListHead' \in Addr \cup {Nil}
    BY <1>10, <1>3, SMT DEF Layout, Nil
  <2> QED
    BY <1>4, <1>7, <2>1 DEF IInv, TypeOK, AllocateFromFreeList, cutting
<1> QED
  BY <1>9, <1>11, <1>12 DEF IInv

\* deallocate pushes a block: only its own memory gets a link.
LEMMA DeallocateStep ==
  ASSUME IInv, Deallocate
  PROVE  IInv'
<1>1. PICK b \in live :
        /\ b.addr \in Addr
        /\ word' = [word EXCEPT ![b.addr] = freeListHead]
        /\ freeListHead' = b.addr
        /\ live' = live \ {b} /\ freed' = freed \cup {b}
  BY DEF Deallocate
<1>2. PICK n \in Nat : \E f \in [1 .. n -> Addr] : Layout(n, f)
  BY DEF IInv, Listed
<1>3. PICK f \in [1 .. n -> Addr] : Layout(n, f)
  BY <1>2
<1>4. Blocks' = Blocks /\ live' \cap freed' = {}
  BY <1>1 DEF Blocks, IInv, AllApart
<1>5. OneKind' /\ AllApart' /\ AllMapped' /\ AllAligned' /\ TailFree'
  BY <1>4, SameBlocks DEF Deallocate
<1>6. \A i \in 1 .. n : f[i] # b.addr
  <2>1. \A c \in freed : c.addr # b.addr
    BY <1>1, OneBlockAtAddress DEF Blocks, IInv, AllApart
  <2> QED
    BY <1>3, <2>1 DEF Layout
<1>7. PICK g \in [1 .. n + 1 -> Addr] :
         g = [i \in 1 .. n + 1 |-> IF i = n + 1 THEN b.addr ELSE f[i]]
  <2>1. \A i \in 1 .. n + 1 : i # n + 1 => i \in 1 .. n
    BY SMT
  <2> QED
    BY <1>1, <2>1
<1>8. /\ \A i \in 1 .. n + 1 : i # n + 1 => i \in 1 .. n /\ g[i] = f[i]
      /\ g[n + 1] = b.addr
      /\ n + 1 \in 1 .. n + 1 /\ \A i \in 1 .. n : i \in 1 .. n + 1 /\ i # n + 1
  BY <1>7, SMT
<1>9. Layout(n + 1, g)'
  <2>1. g \in [1 .. n + 1 -> Addr]
    OBVIOUS
  <2>2. {g[i] : i \in 1 .. n + 1} = {f[i] : i \in 1 .. n} \cup {b.addr}
    BY <1>8
  <2>3. {c.addr : c \in freed'} = {c.addr : c \in freed} \cup {b.addr}
    BY <1>1
  <2>4. \A i, j \in 1 .. n + 1 : i # j => g[i] # g[j]
    BY <1>3, <1>6, <1>8 DEF Layout
  <2>5. \A i \in 1 .. n + 1 : word'[g[i]] = IF i = 1 THEN Nil ELSE g[i - 1]
    <3>1. \A i \in 1 .. n + 1 : i # 1 => i - 1 \in 1 .. n /\ g[i - 1] = f[i - 1]
      BY <1>7, SMT
    <3>2. \A i \in 1 .. n : word'[f[i]] = word[f[i]]
      BY <1>1, <1>6 DEF IInv, TypeOK
    <3>3. word'[b.addr] = IF n = 0 THEN Nil ELSE f[n]
      BY <1>1, <1>3 DEF IInv, TypeOK, Layout
    <3>4. CASE n = 0
      BY <1>8, <3>3, <3>4, SMT
    <3>5. CASE n # 0
      <4> SUFFICES ASSUME NEW i \in 1 .. n + 1
                   PROVE  word'[g[i]] = IF i = 1 THEN Nil ELSE g[i - 1]
        OBVIOUS
      <4>1. CASE i = n + 1
        BY <1>8, <3>1, <3>3, <3>5, <4>1, SMT
      <4>2. CASE i # n + 1
        BY <1>3, <1>8, <3>1, <3>2, <4>2 DEF Layout
      <4> QED
        BY <4>1, <4>2
    <3> QED
      BY <3>4, <3>5
  <2>6. freeListHead' = IF n + 1 = 0 THEN Nil ELSE g[n + 1]
    BY <1>1, <1>8, SMT
  <2> QED
    BY <1>3, <2>1, <2>2, <2>3, <2>4, <2>5, <2>6 DEF Layout
<1>10. Listed'
  <2>1. n + 1 \in Nat
    BY SMT
  <2> QED
    BY <1>9, <2>1 DEF Listed
<1>11. TypeOK'
  BY <1>1 DEF IInv, TypeOK, Deallocate, cutting
<1> QED
  BY <1>5, <1>10, <1>11 DEF IInv

\* What the client writes stays inside its block, and no link is there.
LEMMA WriteStep ==
  ASSUME IInv, Write
  PROVE  IInv'
<1>1. PICK b \in live :
        word' = [a \in Addr |-> IF a >= b.addr /\ a < b.addr + b.bytes THEN Garbage
                                ELSE word[a]]
  BY DEF Write
<1>2. /\ UNCHANGED <<cutting, usingHugepages, freeListHead, live, freed>>
      /\ Blocks' = Blocks
  BY DEF Write, Blocks
<1>3. OneKind' /\ AllApart' /\ AllMapped' /\ AllAligned' /\ TailFree'
  BY <1>2, SameBlocks DEF IInv, AllApart
<1>4. \A c \in freed : word'[c.addr] = word[c.addr]
  <2> SUFFICES ASSUME NEW c \in freed
               PROVE  word'[c.addr] = word[c.addr]
    OBVIOUS
  <2>1. c.addr \in Addr /\ Apart(b, c)
    BY BlockInSpace DEF IInv, AllApart, Blocks
  <2> QED
    BY <1>1, <2>1, BlockType, SMT DEF Blocks, Apart, Before, Addr
<1>5. PICK n \in Nat : \E f \in [1 .. n -> Addr] : Layout(n, f)
  BY DEF IInv, Listed
<1>6. PICK f \in [1 .. n -> Addr] : Layout(n, f)
  BY <1>5
<1>7. Layout(n, f)'
  <2>1. \A i \in 1 .. n : \E c \in freed : f[i] = c.addr
    <3> SUFFICES ASSUME NEW i \in 1 .. n
                 PROVE  f[i] \in {c.addr : c \in freed}
      OBVIOUS
    <3>1. f[i] \in {f[j] : j \in 1 .. n}
      OBVIOUS
    <3> QED
      BY <1>6, <3>1 DEF Layout
  <2>2. \A i \in 1 .. n : word'[f[i]] = word[f[i]]
    BY <1>4, <2>1
  <2> QED
    BY <1>2, <1>6, <2>2 DEF Layout
<1>8. Listed'
  BY <1>7 DEF Listed
<1>9. TypeOK'
  BY <1>1, <1>2 DEF IInv, TypeOK, cutting
<1> QED
  BY <1>3, <1>8, <1>9 DEF IInv

\* A block is cut from memory that is in a region and apart from every block.
LEMMA CutStep ==
  ASSUME IInv, Allocate,
         NEW q \in Requests, NEW start \in Nat, NEW avail \in Nat,
         Room(start, avail, q), Cut(start, avail, q),
         regions \subseteq regions', regions' \subseteq Region,
         \A r \in regions' : r.base + r.size - 1 \in Addr,
         \E r \in regions' : r.base =< start /\ start + avail =< r.base + r.size,
         \A b \in Blocks : Before(b.addr, b.bytes, start) \/ Before(start, avail, b.addr)
  PROVE  IInv'
<1> DEFINE at == start + Padding(start, q.align)
           new == Handed(at, q)
<1>1. q.align \in Nat \ {0} /\ q.bytes \in Nat \ {0}
  BY RequestAssumption
<1>2. Padding(start, q.align) \in Nat
  BY <1>1, PaddingBound
<1>3. avail =< MaxAddr
  <2>1. PICK r \in regions' : r.base =< start /\ start + avail =< r.base + r.size
    OBVIOUS
  <2> QED
    BY <2>1, SpaceAssumption, SMT DEF Region, Addr
<1>4. /\ nextFree' = at + q.bytes /\ nextFree' \in Nat
      /\ bytesRemaining' = avail - (q.bytes + Padding(start, q.align))
      /\ bytesRemaining' \in Nat
      /\ live' = live \cup {new}
  BY <1>3, CutExact
<1>5. /\ freed' = freed /\ word' = word /\ freeListHead' = freeListHead
      /\ Blocks' = Blocks \cup {new}
  BY <1>4 DEF Allocate, Blocks
<1>6. new.addr = at /\ new.bytes = q.bytes /\ new \in Block /\ at \in Nat
  BY <1>1, <1>2, SMT DEF Handed, Block
<1>7. at + q.bytes =< start + avail /\ start =< at
  BY <1>1, <1>2, SMT DEF Room
<1>8. \A b \in Blocks : Apart(b, new) /\ Apart(new, b) /\ b # new
  <2> SUFFICES ASSUME NEW b \in Blocks
               PROVE  Apart(b, new) /\ Apart(new, b) /\ b # new
    OBVIOUS
  <2>1. Before(b.addr, b.bytes, start) \/ Before(start, avail, b.addr)
    OBVIOUS
  <2> HIDE DEF new, at
  <2> QED
    BY <1>1, <1>6, <1>7, <2>1, BlockType, SMT DEF Apart, Before
<1>9. OneKind'
  BY <1>5, <1>6 DEF IInv, OneKind, Handed
<1>10. AllApart'
  BY <1>4, <1>5, <1>8 DEF IInv, AllApart, Blocks, Apart
<1>11. AllMapped'
  <2>1. InRegion(new)'
    <3>1. PICK r \in regions' : r.base =< start /\ start + avail =< r.base + r.size
      OBVIOUS
    <3>2. r.base \in Nat /\ r.size \in Nat
      BY SpaceAssumption, SMT DEF Region, Addr
    <3> HIDE DEF new, at
    <3> QED
      BY <1>1, <1>6, <1>7, <3>1, <3>2, SMT DEF InRegion
  <2>2. \A b \in Blocks : InRegion(b)'
    BY DEF IInv, AllMapped, InRegion
  <2> QED
    BY <1>5, <2>1, <2>2 DEF AllMapped, InRegion
<1>12. TailFree'
  <2>1. \E r \in regions' : /\ r.base =< nextFree'
                            /\ nextFree' + bytesRemaining' =< r.base + r.size
    <3>1. PICK r \in regions' : r.base =< start /\ start + avail =< r.base + r.size
      OBVIOUS
    <3>2. r.base \in Nat /\ r.size \in Nat
      BY SpaceAssumption, SMT DEF Region, Addr
    <3> QED
      BY <1>1, <1>2, <1>4, <3>1, <3>2, SMT
  <2>2. \A b \in Blocks : \/ Before(b.addr, b.bytes, nextFree')
                          \/ Before(nextFree', bytesRemaining', b.addr)
    BY <1>1, <1>2, <1>4, BlockType, SMT DEF Before
  <2>3. Before(new.addr, new.bytes, nextFree')
    BY <1>1, <1>4, <1>6, SMT DEF Before
  <2> QED
    BY <1>5, <2>1, <2>2, <2>3 DEF TailFree
<1>13. Listed'
  BY <1>5 DEF IInv, Listed, Layout
<1>14. AllAligned'
  <2>1. new.addr % new.align = 0
    BY <1>1, <1>6, PaddingAligns DEF Handed
  <2> QED
    BY <1>5, <2>1 DEF IInv, AllAligned
<1>15. TypeOK'
  BY <1>4, <1>5, <1>6 DEF IInv, TypeOK, Allocate
<1> QED
  BY <1>9, <1>10, <1>11, <1>12, <1>13, <1>14, <1>15 DEF IInv

\* allocate cuts a block from the current region, which has room for it.
LEMMA FromRegionStep ==
  ASSUME IInv, AllocateFromRegion
  PROVE  IInv'
<1>1. PICK q \in Requests : HasRoom(q) /\ Cut(nextFree, bytesRemaining, q)
  BY DEF AllocateFromRegion
<1>2. regions' = regions /\ Allocate
  BY DEF AllocateFromRegion
<1>3. Room(nextFree, bytesRemaining, q)
  BY <1>1, HasRoomExact DEF IInv, TypeOK
<1> QED
  BY <1>1, <1>2, <1>3, CutStep DEF IInv, TypeOK, AllMapped, TailFree

\* A region that mmap may return lies in the address space, is as large as asked
\* for, and apart from the regions there are.
LEMMA NewRegion ==
  ASSUME NEW mapped, NEW size \in Nat \ {0}, NEW huge,
         NEW r \in RegularRegion(mapped, size) \cup
                   (IF huge THEN HugepagesRegion(mapped, size) ELSE {})
  PROVE  /\ r \in Region /\ r.size >= size /\ r.base + r.size - 1 \in Addr
         /\ \A s \in mapped : Before(r.base, r.size, s.base) \/ Before(s.base, s.size, r.base)
<1>1. Padding(size, HugePageSize) \in Nat
  BY SpaceAssumption, PaddingBound
<1>2. PICK m \in Nat \ {0}, page \in Nat : m >= size /\ r \in Mapping(mapped, m, page)
  <2>1. CASE r \in RegularRegion(mapped, size)
    BY <2>1, SpaceAssumption, SMT DEF RegularRegion
  <2>2. CASE huge /\ r \in HugepagesRegion(mapped, size)
    BY <1>1, <2>2, SpaceAssumption, SMT DEF HugepagesRegion
  <2> QED
    BY <2>1, <2>2
<1>3. PICK a \in Addr : /\ r = [base |-> a, size |-> m] /\ a + m - 1 \in Addr
                        /\ \A s \in mapped : Before(a, m, s.base) \/ Before(s.base, s.size, a)
  BY <1>2 DEF Mapping
<1> QED
  BY <1>2, <1>3 DEF Region

\* allocate maps a new region and cuts its first block.
LEMMA GrowingStep ==
  ASSUME IInv, AllocateGrowing
  PROVE  IInv'
<1>1. PICK q \in Requests,
           r \in RegularRegion(regions, GrowthSize) \cup
                 (IF usingHugepages THEN HugepagesRegion(regions, GrowthSize) ELSE {}) :
             regions' = regions \cup {r} /\ Cut(r.base, r.size, q)
  BY DEF AllocateGrowing
<1>2. /\ r \in Region /\ r.size >= GrowthSize /\ r.base + r.size - 1 \in Addr
      /\ \A s \in regions : Before(r.base, r.size, s.base) \/ Before(s.base, s.size, r.base)
  BY ConfigAssumption, NewRegion
<1>3. r.base \in Nat /\ r.size \in Nat
  BY <1>2, SpaceAssumption, SMT DEF Region, Addr
<1>4. Room(r.base, r.size, q)
  BY <1>2, <1>3, RegionHasRoom
<1>5. \A b \in Blocks : \/ Before(b.addr, b.bytes, r.base)
                        \/ Before(r.base, r.size, b.addr)
  <2> SUFFICES ASSUME NEW b \in Blocks
               PROVE  Before(b.addr, b.bytes, r.base) \/ Before(r.base, r.size, b.addr)
    OBVIOUS
  <2>1. PICK s \in regions : s.base =< b.addr /\ b.addr + b.bytes =< s.base + s.size
    BY DEF IInv, AllMapped, InRegion
  <2>2. s.base \in Nat /\ s.size \in Nat
    BY SpaceAssumption, SMT DEF IInv, TypeOK, Region, Addr
  <2>3. Before(r.base, r.size, s.base) \/ Before(s.base, s.size, r.base)
    BY <1>2
  <2> QED
    BY <1>3, <2>1, <2>2, <2>3, BlockType, SMT DEF Before
<1>6. Allocate /\ regions \subseteq regions' /\ regions' \subseteq Region
  BY <1>1, <1>2 DEF IInv, TypeOK, AllocateGrowing
<1>7. \A s \in regions' : s.base + s.size - 1 \in Addr
  BY <1>1, <1>2 DEF IInv, AllMapped
<1>8. \E s \in regions' : s.base =< r.base /\ r.base + r.size =< s.base + s.size
  BY <1>1, <1>3, SMT
<1> QED
  BY <1>1, <1>3, <1>4, <1>5, <1>6, <1>7, <1>8, CutStep

\* The constructor maps the first region; no block is cut.
LEMMA Start ==
  ASSUME Init
  PROVE  IInv
<1>1. PICK r \in RegularRegion({}, InitialSize) \cup
                 (IF usingHugepages THEN HugepagesRegion({}, InitialSize) ELSE {}) :
        regions = {r} /\ nextFree = r.base /\ bytesRemaining = r.size
  BY DEF Init
<1>2. r \in Region /\ r.base + r.size - 1 \in Addr
  BY ConfigAssumption, NewRegion
<1>3. r.base \in Nat /\ r.size \in Nat
  BY <1>2, SpaceAssumption, SMT DEF Region, Addr
<1>4. live = {} /\ freed = {} /\ Blocks = {} /\ freeListHead = Nil
  BY DEF Init, Blocks
<1>5. TypeOK
  BY <1>1, <1>2, <1>3, <1>4, ConfigAssumption DEF Init, TypeOK
<1>6. TailFree
  <2>1. r.base =< nextFree /\ nextFree + bytesRemaining =< r.base + r.size
    BY <1>1, <1>3, SMT
  <2> QED
    BY <1>1, <1>4, <2>1 DEF TailFree
<1>7. Listed
  <2> DEFINE f == [i \in 1 .. 0 |-> 1]
  <2>1. 1 .. 0 = {}
    BY SMT
  <2>2. f \in [1 .. 0 -> Addr] /\ Layout(0, f)
    BY <1>4, <2>1 DEF Layout
  <2> QED
    BY <2>2 DEF Listed
<1> QED
  BY <1>1, <1>2, <1>4, <1>5, <1>6, <1>7 DEF IInv, OneKind, AllApart, AllMapped, AllAligned

\* Each operation of the pool keeps the inductive invariant.
LEMMA Step ==
  ASSUME IInv, [Next]_vars
  PROVE  IInv'
<1>1. CASE AllocateFromFreeList
  BY <1>1, FromFreeListStep
<1>2. CASE AllocateFromRegion
  BY <1>2, FromRegionStep
<1>3. CASE AllocateGrowing
  BY <1>3, GrowingStep
<1>4. CASE Deallocate
  BY <1>4, DeallocateStep
<1>5. CASE Write
  BY <1>5, WriteStep
<1>6. CASE AllocateThrows \/ UNCHANGED vars
  <2>1. UNCHANGED vars
    BY <1>6 DEF AllocateThrows, Allocate, vars, cutting
  <2>2. Blocks' = Blocks
    BY <2>1 DEF vars, Blocks
  <2>3. OneKind' /\ AllApart' /\ AllMapped' /\ AllAligned' /\ TailFree'
    BY <2>1, <2>2, SameBlocks DEF vars, IInv, AllApart
  <2> QED
    BY <2>1, <2>3 DEF IInv, TypeOK, Listed, Layout, vars, cutting
<1> QED
  BY <1>1, <1>2, <1>3, <1>4, <1>5, <1>6 DEF Next

\* The inductive invariant holds in every reachable state.
LEMMA Invariance == Spec => []IInv
<1>1. Init => IInv
  BY Start
<1>2. IInv /\ [Next]_vars => IInv'
  BY Step
<1> QED
  BY <1>1, <1>2, PTL DEF Spec

----------------------------------------------------------------------------
(* The results. *)

\* The head of the free list is never what a client wrote: allocate always pops
\* a block.
THEOREM PoolTypeCorrect == Spec => []TypeOK
<1>1. IInv => TypeOK
  BY DEF IInv
<1> QED
  BY <1>1, Invariance, PTL

\* Whatever sequence of allocate and deallocate, no memory is handed out twice and
\* none that still carries a link of the free list.
THEOREM PoolBlocksApart == Spec => []BlocksApart
<1>1. IInv => BlocksApart
  BY DEF IInv, AllApart, Blocks, BlocksApart
<1> QED
  BY <1>1, Invariance, PTL

\* With growth_size no less than a block and its padding, a block is always inside
\* a region that mmap returned.
THEOREM PoolBlocksMapped == Spec => []BlocksMapped
<1>1. IInv => BlocksMapped
  BY DEF IInv, AllMapped, Blocks, BlocksMapped
<1> QED
  BY <1>1, Invariance, PTL

\* A block is aligned as asked for: blocks of one kind all are, so that any of them
\* on the free list will do.
THEOREM PoolBlocksAligned == Spec => []BlocksAligned
<1>1. IInv => BlocksAligned
  BY DEF IInv, AllAligned, Blocks, BlocksAligned
<1> QED
  BY <1>1, Invariance, PTL

\* grow() is called only when every block that was cut is in use.
THEOREM PoolGrowsOnlyWhenAllInUse == Spec => GrowsOnlyWhenAllInUse
<1>1. IInv /\ freeListHead = Nil => freed = {}
  <2> SUFFICES ASSUME IInv, freeListHead = Nil
               PROVE  freed = {}
    OBVIOUS
  <2>1. PICK n \in Nat : \E f \in [1 .. n -> Addr] : Layout(n, f)
    BY DEF IInv, Listed
  <2>2. PICK f \in [1 .. n -> Addr] : Layout(n, f)
    BY <2>1
  <2>3. n = 0
    BY <2>2, SMT DEF Layout, Addr, Nil
  <2>4. {f[i] : i \in 1 .. n} = {}
    BY <2>3, SMT
  <2>5. {b.addr : b \in freed} = {}
    BY <2>2, <2>4 DEF Layout
  <2>6. \A b \in freed : b.addr \in {c.addr : c \in freed}
    OBVIOUS
  <2> QED
    BY <2>5, <2>6
<1>2. IInv /\ [Next]_vars => [regions' # regions => freed = {}]_vars
  BY <1>1 DEF Next, vars, cutting, AllocateFromFreeList, AllocateFromRegion,
              AllocateGrowing, AllocateThrows, Allocate, Deallocate, Write
<1> QED
  BY <1>2, Invariance, PTL DEF Spec, GrowsOnlyWhenAllInUse
----------------------------------------------------------------------------
(* The links. *)

\* As many blocks are free as the free list has elements.
LEMMA ListLength ==
  ASSUME IInv, NEW n \in Nat, NEW f \in [1 .. n -> Addr], Layout(n, f)
  PROVE  Cardinality(freed) = n
<1> DEFINE g == [i \in 1 .. n |-> CHOOSE b \in freed : b.addr = f[i]]
<1>1. \A i \in 1 .. n : \E b \in freed : b.addr = f[i]
  BY DEF Layout
<1>2. \A i \in 1 .. n : g[i] \in freed /\ g[i].addr = f[i]
  BY <1>1
<1>3. \A b \in freed : \E i \in 1 .. n : f[i] = b.addr
  <2>1. \A b \in freed : b.addr \in {c.addr : c \in freed}
    OBVIOUS
  <2>2. \A b \in freed : b.addr \in {f[i] : i \in 1 .. n}
    BY <2>1, Zenon DEF Layout
  <2> QED
    BY <2>2
<1>4. \A b \in freed : \E i \in 1 .. n : g[i] = b
  BY <1>2, <1>3, OneBlockAtAddress DEF Blocks
<1>5. \A i, j \in 1 .. n : g[i] = g[j] => i = j
  BY <1>2 DEF Layout
<1>6. g \in [1 .. n -> freed]
  BY <1>2
<1> HIDE DEF g
<1>7. g \in Bijection(1 .. n, freed)
  BY <1>4, <1>5, <1>6, Fun_IsBij, Zenon
<1>8. ExistsBijection(1 .. n, freed)
  BY <1>7, Fun_ExistsBij, Zenon
<1>9. IsFiniteSet(1 .. n) /\ Cardinality(1 .. n) = n
  BY FS_Interval
<1> QED
  BY <1>8, <1>9, FS_Bijection, Zenon

\* Following the links from the head goes through the list from its last element
\* to its first, and then to nullptr.
LEMMA LinksFollowed ==
  ASSUME NEW n \in Nat, NEW f \in [1 .. n -> Addr], Layout(n, f),
         NEW hop, hop = [i \in 0 .. n |-> IF i = 0 THEN freeListHead
                                          ELSE IF hop[i - 1] \in Addr THEN word[hop[i - 1]]
                                          ELSE Garbage]
  PROVE  \A i \in 0 .. n : hop[i] = IF i < n THEN f[n - i] ELSE Nil
<1> DEFINE At(i) == IF i < n THEN f[n - i] ELSE Nil
           T == {i \in Nat : i =< n => hop[i] = At(i)}
<1>1. hop[0] = At(0)
  BY DEF Layout
<1>2. ASSUME NEW i \in Nat, i \in T, i + 1 =< n
      PROVE  hop[i + 1] = At(i + 1)
  <2>1. i \in 0 .. n /\ i + 1 \in 0 .. n /\ i < n /\ (i + 1) - 1 = i /\ n - i \in 1 .. n
    BY <1>2
  <2>2. hop[i] = f[n - i] /\ f[n - i] \in Addr
    BY <1>2, <2>1
  <2>3. hop[i + 1] = word[f[n - i]]
    BY <2>1, <2>2
  <2>4. word[f[n - i]] = IF n - i = 1 THEN Nil ELSE f[(n - i) - 1]
    BY <2>1 DEF Layout
  <2> QED
    BY <2>1, <2>3, <2>4
<1>3. \A i \in Nat : i \in T <=> (i =< n => hop[i] = At(i))
  OBVIOUS
<1> HIDE DEF T, At
<1>4. 0 \in T
  BY <1>1, <1>3
<1>5. \A i \in Nat : i \in T => i + 1 \in T
  BY <1>2, <1>3
<1>6. Nat \subseteq T
  BY <1>4, <1>5, SetInduction
<1>7. \A i \in 0 .. n : hop[i] = At(i)
  BY <1>3, <1>6
<1> QED
  BY <1>7 DEF At

\* The blocks given back are exactly those that the links lead to: no block is lost
\* and the client's writes reach no link.
THEOREM PoolFreeListIntact == Spec => []FreeListIntact
<1>1. IInv => FreeListIntact
  <2> SUFFICES ASSUME IInv
               PROVE  FreeListIntact
    OBVIOUS
  <2> DEFINE m == Cardinality(freed)
             hop == CHOOSE hop : hop = [i \in 0 .. m |->
                      IF i = 0 THEN freeListHead
                      ELSE IF hop[i - 1] \in Addr THEN word[hop[i - 1]] ELSE Garbage]
  <2>1. PICK n \in Nat : \E f \in [1 .. n -> Addr] : Layout(n, f)
    BY DEF IInv, Listed
  <2>2. PICK f \in [1 .. n -> Addr] : Layout(n, f)
    BY <2>1
  <2>3. m = n
    BY <2>2, ListLength
  <2> DEFINE h == [i \in 0 .. n |-> IF i < n THEN f[n - i] ELSE Nil]
  <2>4. h = [i \in 0 .. n |-> IF i = 0 THEN freeListHead
                              ELSE IF h[i - 1] \in Addr THEN word[h[i - 1]] ELSE Garbage]
    <3>1. ASSUME NEW i \in 1 .. n
          PROVE  h[i - 1] \in Addr /\ word[h[i - 1]] = h[i]
      <4>1. i - 1 \in 0 .. n /\ i - 1 < n /\ n - (i - 1) \in 1 .. n /\ i \in 0 .. n
        OBVIOUS
      <4>2. h[i - 1] = f[n - (i - 1)]
        BY <4>1
      <4>3. word[f[n - (i - 1)]] = IF n - (i - 1) = 1 THEN Nil ELSE f[(n - (i - 1)) - 1]
        BY <2>2, <4>1 DEF Layout
      <4>4. (n - (i - 1)) - 1 = n - i /\ (n - (i - 1) = 1 <=> ~ (i < n))
        BY <4>1
      <4> QED
        BY <4>1, <4>2, <4>3, <4>4
    <3>2. h[0] = freeListHead
      BY <2>2 DEF Layout
    <3> HIDE DEF h
    <3>3. \A i \in 0 .. n : i = 0 \/ i \in 1 .. n
      OBVIOUS
    <3>4. h = [i \in 0 .. n |-> h[i]]
      BY DEF h
    <3> QED
      BY <3>1, <3>2, <3>3, <3>4
  <2> HIDE DEF h
  <2>5. hop = [i \in 0 .. n |-> IF i = 0 THEN freeListHead
                                ELSE IF hop[i - 1] \in Addr THEN word[hop[i - 1]]
                                ELSE Garbage]
    BY <2>3, <2>4, Zenon
  <2> HIDE DEF hop
  <2>6. \A i \in 0 .. n : hop[i] = IF i < n THEN f[n - i] ELSE Nil
    BY <2>2, <2>5, LinksFollowed
  <2>7. {hop[i] : i \in 0 .. n - 1} = {f[i] : i \in 1 .. n}
    <3>1. \A i \in 0 .. n - 1 : hop[i] = f[n - i] /\ n - i \in 1 .. n
      BY <2>6
    <3>2. \A i \in 1 .. n : n - i \in 0 .. n - 1 /\ n - (n - i) = i
      OBVIOUS
    <3> QED
      BY <3>1, <3>2
  <2>8. hop[m] = Nil
    BY <2>3, <2>6
  <2>9. {f[i] : i \in 1 .. n} = {b.addr : b \in freed}
    BY <2>2, Zenon DEF Layout
  <2>10. {hop[i] : i \in 0 .. m - 1} = {b.addr : b \in freed}
    BY <2>3, <2>7, <2>9, Zenon
  <2> QED
    BY <2>8, <2>10, Zenon DEF FreeListIntact, hop
<1> QED
  BY <1>1, Invariance, PTL
=============================================================================
