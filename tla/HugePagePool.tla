---------------------------- MODULE HugePagePool ----------------------------
(***************************************************************************)
(* HugePagePool (hugepage_pool.hpp): memory is mapped a region at a time,  *)
(* blocks are cut from the newest region one after another, and a block    *)
(* given back enters a free list whose links are stored in the blocks      *)
(* themselves.  The unit of sizes and addresses is one pointer, the least  *)
(* size of a block; nullptr is address 0.  The client may write anything   *)
(* into a block it holds.  Statistics are left out.                        *)
(***************************************************************************)
EXTENDS Integers, FiniteSets

CONSTANTS
  MaxAddr,       \* the address space; mmap fails when it is full
  SizeMax,       \* size_type counts modulo SizeMax
  PageSize, HugePageSize,
  InitialSize, GrowthSize,
  UseHugepages,  \* whether the pool is asked to try hugepages
  Requests,      \* what is allocated: sizes and alignments
  Garbage        \* any value the client may have written

Nil  == 0
Addr == 1 .. MaxAddr

ASSUME SpaceAssumption ==
  /\ MaxAddr \in Nat /\ SizeMax \in Nat /\ MaxAddr < SizeMax
  /\ PageSize \in Nat \ {0} /\ HugePageSize \in Nat \ {0}
ASSUME ConfigAssumption ==
  /\ InitialSize \in Nat \ {0} /\ InitialSize < SizeMax
  /\ GrowthSize \in Nat \ {0} /\ GrowthSize < SizeMax
  /\ UseHugepages \in BOOLEAN
ASSUME RequestAssumption ==
  \A q \in Requests :
    /\ q = [bytes |-> q.bytes, align |-> q.align]
    /\ q.bytes \in Nat \ {0} /\ q.bytes < SizeMax
    /\ q.align \in Nat \ {0}
ASSUME GarbageAssumption == Garbage \notin Nat

VARIABLES
  regions,        \* regions_
  nextFree,       \* next_free_
  bytesRemaining, \* bytes_remaining_
  usingHugepages, \* using_hugepages_
  freeListHead,   \* free_list_head_
  word,           \* what the memory holds where a link may be
  live,           \* the blocks the client holds
  freed           \* the blocks it has given back, not handed out since

cutting == <<regions, nextFree, bytesRemaining>>
vars == <<cutting, usingHugepages, freeListHead, word, live, freed>>

Region == [base : Addr, size : Nat \ {0}]
Block  == [addr : Nat, bytes : Nat \ {0}, align : Nat \ {0}]

TypeOK ==
  /\ regions \subseteq Region
  /\ nextFree \in Nat /\ bytesRemaining \in Nat
  /\ usingHugepages \in BOOLEAN
  /\ freeListHead \in Addr \cup {Nil}
  /\ word \in [Addr -> Addr \cup {Nil, Garbage}]
  /\ live \subseteq Block /\ freed \subseteq Block

----------------------------------------------------------------------------
(* Arithmetic. *)

\* How far x is from the next multiple of a: aligned - current.
Padding(x, a) == (-x) % a

\* A result of size_type: one addition or subtraction wraps at most once.
Wrap(x) == IF x < 0 THEN x + SizeMax ELSE IF x >= SizeMax THEN x - SizeMax ELSE x

----------------------------------------------------------------------------
(* mmap (the kernel's): a new mapping is page aligned and apart from the others. *)

\* m units from b on end before c.
Before(b, m, c) == b + m =< c

Mapping(mapped, size, page) ==
  {[base |-> b, size |-> size] :
     b \in {a \in Addr :
              /\ a % page = 0
              /\ a + size - 1 \in Addr
              /\ \A r \in mapped : Before(a, size, r.base) \/ Before(r.base, r.size, a)}}

\* allocate_hugepages_region, allocate_regular_region
HugepagesRegion(mapped, size) ==
  Mapping(mapped, size + Padding(size, HugePageSize), HugePageSize)
RegularRegion(mapped, size) == Mapping(mapped, size, PageSize)

----------------------------------------------------------------------------
(* allocate(bytes, alignment) *)

Handed(a, q) == [addr |-> a, bytes |-> q.bytes, align |-> q.align]

\* The head of the free list, whatever was asked for.
AllocateFromFreeList ==
  /\ freeListHead \in Addr
  /\ freeListHead' = word[freeListHead]
  /\ freed' = {b \in freed : b.addr # freeListHead}
  /\ \E q \in Requests : live' = live \cup {Handed(freeListHead, q)}
  /\ UNCHANGED <<cutting, usingHugepages, word>>

\* Mutant: the block is cut where the last one ended.
Cut_Unaligned(start, avail, q) ==
  /\ nextFree' = start + q.bytes
  /\ bytesRemaining' = Wrap(avail - q.bytes)
  /\ live' = live \cup {Handed(start, q)}

\* Mutant: next_free_ is advanced from the unaligned start.
Cut_Short(start, avail, q) ==
  LET padding == Padding(start, q.align)
  IN  /\ nextFree' = start + q.bytes
      /\ bytesRemaining' = Wrap(avail - Wrap(q.bytes + padding))
      /\ live' = live \cup {Handed(start + padding, q)}

\* A block cut from avail bytes at start.
Cut(start, avail, q) ==
  LET padding == Padding(start, q.align)
  IN  /\ nextFree' = start + padding + q.bytes
      /\ bytesRemaining' = Wrap(avail - Wrap(q.bytes + padding))
      /\ live' = live \cup {Handed(start + padding, q)}

\* Mutant: the padding is forgotten.
HasRoom_NoPadding(q) == bytesRemaining >= q.bytes

HasRoom(q) == bytesRemaining >= Wrap(q.bytes + Padding(nextFree, q.align))

Allocate ==
  /\ freeListHead = Nil
  /\ UNCHANGED <<usingHugepages, freeListHead, word, freed>>

AllocateFromRegion ==
  /\ Allocate
  /\ \E q \in Requests :
       /\ HasRoom(q)
       /\ Cut(nextFree, bytesRemaining, q)
  /\ UNCHANGED regions

\* grow(): hugepages are tried only in a pool that has them, and regular pages
\* after them.  What is left of the old region is not used again.  The new
\* region is not checked for room.
AllocateGrowing ==
  /\ Allocate
  /\ \E q \in Requests :
       /\ ~HasRoom(q)
       /\ \E r \in RegularRegion(regions, GrowthSize) \cup
                   (IF usingHugepages THEN HugepagesRegion(regions, GrowthSize)
                    ELSE {}) :
            /\ regions' = regions \cup {r}
            /\ Cut(r.base, r.size, q)

\* Neither mmap succeeds: bad_alloc, and the pool is as it was.
AllocateThrows ==
  /\ Allocate
  /\ \E q \in Requests : ~HasRoom(q)
  /\ UNCHANGED <<cutting, live>>

----------------------------------------------------------------------------

\* Mutant: the link is not written.
Deallocate_NoLink ==
  /\ \E b \in live :
       /\ b.addr \in Addr
       /\ freeListHead' = b.addr
       /\ live' = live \ {b} /\ freed' = freed \cup {b}
  /\ UNCHANGED <<cutting, usingHugepages, word>>

\* deallocate(ptr, bytes): the link is written into the block.
Deallocate ==
  /\ \E b \in live :
       /\ b.addr \in Addr
       /\ word' = [word EXCEPT ![b.addr] = freeListHead]
       /\ freeListHead' = b.addr
       /\ live' = live \ {b} /\ freed' = freed \cup {b}
  /\ UNCHANGED <<cutting, usingHugepages>>

\* The client writes to a block it holds.
Write ==
  /\ \E b \in live :
       word' = [a \in Addr |-> IF a >= b.addr /\ a < b.addr + b.bytes THEN Garbage
                               ELSE word[a]]
  /\ UNCHANGED <<cutting, usingHugepages, freeListHead, live, freed>>

\* The constructor, unless it throws: hugepages if asked for and available.
Init ==
  /\ usingHugepages \in {FALSE, UseHugepages}
  /\ \E r \in IF usingHugepages THEN HugepagesRegion({}, InitialSize)
            ELSE RegularRegion({}, InitialSize) :
       /\ regions = {r} /\ nextFree = r.base /\ bytesRemaining = r.size
  /\ freeListHead = Nil
  /\ word = [a \in Addr |-> Nil]
  /\ live = {} /\ freed = {}

Next ==
  \/ AllocateFromFreeList \/ AllocateFromRegion \/ AllocateGrowing \/ AllocateThrows
  \/ Deallocate \/ Write

Spec == Init /\ [][Next]_vars

----------------------------------------------------------------------------
(* Safety. *)

Apart(b, c) == Before(b.addr, b.bytes, c.addr) \/ Before(c.addr, c.bytes, b.addr)

\* No memory is handed out twice: the blocks the client holds are apart from each
\* other and from those it has given back, in which the list keeps its links.
BlocksApart ==
  \A b \in live :
    /\ \A c \in live : b # c => Apart(b, c)
    /\ \A c \in freed : Apart(b, c)

\* A block lies in one of the mapped regions.
InRegion(b) == \E r \in regions : r.base =< b.addr /\ b.addr + b.bytes =< r.base + r.size
BlocksMapped == \A b \in live : InRegion(b)

\* A block is aligned as it was asked for.
BlocksAligned == \A b \in live : b.addr % b.align = 0

\* Following the links from the head meets every block that was given back, and
\* then nullptr: nothing the client writes breaks the list, no block is lost from
\* it and none that is in use is on it.
FreeListIntact ==
  LET n == Cardinality(freed)
      hop[i \in 0 .. n] == IF i = 0 THEN freeListHead
                           ELSE IF hop[i - 1] \in Addr THEN word[hop[i - 1]]
                           ELSE Garbage
  IN  /\ {hop[i] : i \in 0 .. n - 1} = {b.addr : b \in freed}
      /\ hop[n] = Nil

\* The pool takes more memory only when no block that was given back is left.
GrowsOnlyWhenAllInUse == [][regions' # regions => freed = {}]_vars
=============================================================================
