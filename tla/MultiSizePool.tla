--------------------------- MODULE MultiSizePool ---------------------------
(***************************************************************************)
(* MultiSizeHugePagePool (multi_size_hugepage_pool.hpp) and the allocators *)
(* that share it (multi_size_hugepage_allocator.hpp): a request is rounded *)
(* up to a size class, and every class has a HugePagePool of its own, made *)
(* when it is first needed.  Here a pool is what HugePagePool promises for *)
(* blocks of one size: a stack of blocks given back and the offset in its  *)
(* newest region where the next one is cut.  Regions start on a page, so a *)
(* block is aligned if its offset is.                                      *)
(***************************************************************************)
EXTENDS Integers, FiniteSets, Sequences

CONSTANTS
  Types,         \* what is allocated: sizeof and alignof
  Counts,        \* n of allocate(n)
  SizeMax,       \* size_type counts modulo SizeMax
  Line, SmallMax,    \* up to SmallMax, sizes are rounded to lines: 64, 512
  Quarter, MediumMax,\* up to MediumMax, to quarters: 256, 2048
  InitialSize, GrowthSize,
  MaxLive,       \* bound on the blocks held at a time
  MaxRegions     \* mmap fails after that many in a pool; it may fail before

\* All divisors of a power of 2 but 1 are even.
PowerOf2(x) == x \in Nat \ {0} /\ \A d \in 2 .. x : x % d = 0 => d % 2 = 0

\* sizeof is a multiple of alignof, and a size_type holds it.
ASSUME TypesAssumption ==
  Types \subseteq {t \in [size : 1 .. SizeMax - 1, align : Nat \ {0}] :
                     PowerOf2(t.align) /\ t.size % t.align = 0}
ASSUME CountsAssumption ==
  Counts \subseteq Nat \ {0} /\ MaxLive \in Nat /\ MaxRegions \in Nat \ {0}
ASSUME SizesAssumption ==
  /\ PowerOf2(SizeMax) /\ PowerOf2(Line) /\ PowerOf2(Quarter)
  /\ {SmallMax, MediumMax, InitialSize, GrowthSize} \subseteq Nat \ {0}

VARIABLES
  entry,  \* pools_: "none", a "null" pointer or a "pool" for each size class
  pools,  \* the pools
  live,   \* what the clients hold
  crashed \* a null pool has been dereferenced

vars == <<entry, pools, live, crashed>>

----------------------------------------------------------------------------
(* Size classes. *)

RoundUp(x, m) == ((x + m - 1) \div m) * m

\* The next power of 2 (bit_ceil).
BitCeil(x) == CHOOSE p \in x .. 2 * x - 1 : PowerOf2(p)

\* Mutant: the last step rounds down.
SizeClass_BitFloor(bytes) ==
  IF bytes =< SmallMax THEN RoundUp(bytes, Line)
  ELSE IF bytes =< MediumMax THEN RoundUp(bytes, Quarter)
  ELSE IF BitCeil(bytes) = bytes THEN bytes ELSE BitCeil(bytes) \div 2

\* Mutant: a multiple of a line is rounded up too.
SizeClass_NextLine(bytes) ==
  IF bytes =< SmallMax THEN (bytes \div Line + 1) * Line
  ELSE IF bytes =< MediumMax THEN RoundUp(bytes, Quarter)
  ELSE BitCeil(bytes)

\* get_size_class of a size that is not 0
SizeClass(bytes) ==
  IF bytes =< SmallMax THEN RoundUp(bytes, Line)
  ELSE IF bytes =< MediumMax THEN RoundUp(bytes, Quarter)
  ELSE BitCeil(bytes)

\* n * sizeof(T), the multiplication of size_type.
Bytes(t, n) == (n * t.size) % SizeMax

\* allocate(0) is nullptr, and deallocate ignores it; a product that wraps to 0 is
\* refused by the allocator.
Asked   == {a \in Types \X Counts : Bytes(a[1], a[2]) # 0}
Classes == {SizeClass(Bytes(a[1], a[2])) : a \in Asked}

----------------------------------------------------------------------------
(* The pool of one class. *)

Block == [class : Classes, region : 1 .. MaxRegions, off : Nat]
Pool  == [region : 1 .. MaxRegions, next : Nat, free : Seq(Block)]

NewPool == [region |-> 1, next |-> 0, free |-> <<>>]

RegionSize(i) == IF i = 1 THEN InitialSize ELSE GrowthSize

Aligned(x, a) == RoundUp(x, a)

\* The block of class c cut from pool p at offset x, and the pool then.
CutAt(p, c, r, x) ==
  [pool |-> [p EXCEPT !.region = r, !.next = x + c],
   block |-> [class |-> c, region |-> r, off |-> x]]

\* Mutant: the block itself is not counted.
Fits_OnlyPadding(p, c, x) == x =< RegionSize(p.region)

Fits(p, c, x) == x + c =< RegionSize(p.region)

\* What allocate(c, align) of pool p may do: nothing if it throws.
PoolAllocate(p, c, align) ==
  IF p.free # <<>>
  THEN {[pool |-> [p EXCEPT !.free = Tail(@)], block |-> Head(p.free)]}
  ELSE LET x == Aligned(p.next, align)
       IN  IF Fits(p, c, x) THEN {CutAt(p, c, p.region, x)}
           ELSE IF p.region < MaxRegions THEN {CutAt(p, c, p.region + 1, 0)}
           ELSE {}

----------------------------------------------------------------------------
(* The clients. *)

Init ==
  /\ entry = [c \in Classes |-> "none"]
  /\ pools = [c \in Classes |-> NewPool]
  /\ live = {}
  /\ crashed = FALSE

Held(t, n, b) == [block |-> b, type |-> t, count |-> n]

\* Mutant: a pool is made only together with its entry.
MustMake_OnlyIfAbsent(c) == entry[c] = "none"

\* pools_[size_class] holds no pool.
MustMake(c) == entry[c] # "pool"

\* Constructing the pool throws, and its entry stays.
AllocateThrowsMaking ==
  \E a \in Asked :
    LET c == SizeClass(Bytes(a[1], a[2]))
    IN  /\ MustMake(c)
        /\ entry' = [entry EXCEPT ![c] = "null"]
        /\ UNCHANGED <<pools, live, crashed>>

\* pool->allocate, on a null pointer if the pool has not been made.
Allocate ==
  \E t \in Types, n \in Counts :
    LET c == SizeClass(Bytes(t, n))
    IN  /\ <<t, n>> \in Asked /\ Cardinality(live) < MaxLive
        /\ entry' = [entry EXCEPT ![c] = "pool"]
        /\ crashed' = (crashed \/ (~MustMake(c) /\ entry[c] # "pool"))
        /\ \E r \in PoolAllocate(pools[c], c, t.align) :
             /\ pools' = [pools EXCEPT ![c] = r.pool]
             /\ live' = live \cup {Held(t, n, r.block)}

\* A pool that is there cannot grow.
AllocateThrowsGrowing ==
  \E a \in Asked :
    LET c == SizeClass(Bytes(a[1], a[2]))
        p == pools[c]
    IN  /\ ~MustMake(c) /\ p.free = <<>>
        /\ ~Fits(p, c, Aligned(p.next, a[1].align)) /\ p.region = MaxRegions
        /\ UNCHANGED vars

\* Mutant: a block goes back to the class of one element.
HomeClass_OfOne(h) == SizeClass(Bytes(h.type, 1))

\* Where deallocate(ptr, n) sends a block.
HomeClass(h) == SizeClass(Bytes(h.type, h.count))

\* A class without an entry: the block is dropped.
Deallocate ==
  \E h \in live :
    LET c     == HomeClass(h)
        state == IF c \in Classes THEN entry[c] ELSE "none"
    IN  /\ live' = live \ {h}
        /\ crashed' = (crashed \/ state = "null")
        /\ pools' = IF state = "pool" THEN [pools EXCEPT ![c].free = <<h.block>> \o @]
                    ELSE pools
        /\ UNCHANGED entry

Next == AllocateThrowsMaking \/ Allocate \/ AllocateThrowsGrowing \/ Deallocate

Spec == Init /\ [][Next]_vars

----------------------------------------------------------------------------
(* Safety. *)

FreeOf(c) == {pools[c].free[i] : i \in DOMAIN pools[c].free}

TypeOK ==
  /\ entry \in [Classes -> {"none", "null", "pool"}]
  /\ DOMAIN pools = Classes
  /\ \A c \in Classes : /\ pools[c] \in Pool
                         /\ pools[c].next =< RegionSize(pools[c].region)
  /\ \A h \in live : h.block \in Block /\ <<h.type, h.count>> \in Asked
  /\ crashed \in BOOLEAN

\* No block is lost, and none is in two places: what a pool has cut from its regions
\* is on its own free list, once, or held by a client.  deallocate derives the pool
\* from the size it is told, and drops a block it has no pool for.
BlocksComeHome ==
  \A c \in Classes :
    LET held == {h.block : h \in {g \in live : g.block.class = c}}
    IN  /\ \A b \in FreeOf(c) : b.class = c
        /\ Cardinality(FreeOf(c)) = Len(pools[c].free)
        /\ held \cap FreeOf(c) = {}
        /\ \A r \in 1 .. pools[c].region : \A x \in 0 .. RegionSize(r) - c :
             (r < pools[c].region \/ x < pools[c].next) /\ x % c = 0
               => [class |-> c, region |-> r, off |-> x] \in held \cup FreeOf(c)

\* A block has room for the n objects it was asked for (multi_size_hugepage_allocator
\* .hpp:86, "Allocate memory for n objects of type T").
BlocksHoldTheirObjects == \A h \in live : h.count * h.type.size =< h.block.class

\* A block is aligned as its type needs, also one that another type of the same class
\* had: "Each pool only handles uniform-sized blocks, so free list works"
\* (multi_size_hugepage_pool.hpp:135), although alignments differ within a class.
BlocksAligned == \A h \in live : h.block.off % h.type.align = 0

\* A null pool that a failed construction left behind is never used.
NullPoolUnused == ~crashed
=============================================================================
