# fast-containers in TLA+

A formal model of `kressler/fast-containers`: a B+ tree (`btree`) built on
fixed-size ordered arrays (`dense_map`), and the memory pools its nodes come
from (`HugePagePool` and the allocators around it). The library is a set of
C++ headers without threads, so what is hard here is not concurrency. It is long
sequences of legal calls: a separator, a cached pointer or a remembered index that
was right when it was stored and has to stay right through a cascade of splits,
borrows and merges; a link kept inside memory that a client had before; and a
count or a size at its limit.

Paths below are relative to `src/include/fast_containers/`.

## The system

| Component | State it keeps | Operations | What makes it correct |
|---|---|---|---|
| `dense_map` (`dense_map.hpp`, `.ipp`) | two parallel arrays of capacity N, a size | `find`, `lower_bound`, `upper_bound`, `insert`, `insert_hint`, `insert_or_assign`, `erase`, `split_at`, `transfer_prefix_from`, `transfer_suffix_from`, `unsafe_update_key` | sorted, no key twice, a value stays with its key, transfers keep the order of both arrays |
| SIMD search (`dense_map_simd.ipp`) | none | vector `lower_bound`, `upper_bound` for integer and floating keys | same result as the scalar search |
| `btree` (`btree.hpp`, `.ipp`) | root (leaf or internal), `size_`, `leftmost_leaf_`, `rightmost_leaf_`; per node its `dense_map`, its parent, and for leaves the two list links | lookups, inserts, erase of a key, an iterator, a range, `clear` | it is an ordered map; separators are exact; the leaf list is complete and ordered; parent pointers are right; sizes stay in bounds; nothing points at a freed node |
| tree lifecycle (`btree.ipp:13-207`) | the allocators of each tree | construct, copy, move, assign, swap, destroy | a node goes back to the pool it came from, no pool goes before its last node, only calls that throw leak, and they leak what the code says |
| failures (`btree.ipp`) | nothing of its own: what an exception leaves | any call that allocates or copies | the size and the list of leaves stay right, no element is lost to `find` |
| iterators (`btree.hpp:350-632`) | a leaf and an index into it | `++`, `--`, dereference | iteration meets every element once, in order |
| `HugePagePool` (`hugepage_pool.hpp`) | mapped regions, a cursor into the newest, a free list inside the freed blocks | `allocate`, `deallocate`, `grow` | no memory in use twice, blocks mapped and aligned, freed blocks found again |
| `HugePageAllocator` | a shared pool | `allocate(1)`, `deallocate`, rebind to a pool of its own | one size per pool |
| `PolicyBasedHugePageAllocator` | a policy choosing one of two shared pools | the same | one size per pool |
| `MultiSizeHugePagePool` and its allocator | a map from size class to `HugePagePool` | the same, routed by size class | a class holds and aligns what is rounded to it; allocation and deallocation agree on it; no overflow of the size |

The tree calls its maps (every operation above) and its two allocators (one node
at a time); the allocators call a pool; a pool calls `mmap`. The client holds
iterators, which are pointers into leaves. There are no callbacks and no shared
state between threads: neither trees nor pools are thread-safe, and they say so.

The hard behaviours are listed in `PROJECT.json` under `hazards`, each at its
line, with the properties that would catch it going wrong.

## Modules

```
DenseMap            what a dense_map promises: pure operators on ordered maps
  DenseMaps           its calls as an abstract specification: several maps, outcomes
  DenseArray          the arrays of dense_map, shown to implement DenseMaps
    MCDenseArray        instance for TLC
    DenseArrayProofs    theorems
  BTree             the tree: one step per call or loop round of the code
    BTreeRefinement   the tree as an OrderedMap (refinement mapping)
      MCBTreeLoaded       instances for TLC that begin with a loaded tree
    BTreeIterators    ++, --, begin, end and their reverses on the tree
      MCBTree             instance for TLC (with BTreeRefinement)
    BTreeOutOfMemory  the tree when allocations and copies throw
      MCBTreeOutOfMemory
    BTreeShapeProofs  the tree's types and structure: theorems
      BTreeMapProofs    its answers, its iterators and what a failure leaves
                        (with BTreeRefinement, BTreeIterators and
                        BTreeOutOfMemory): theorems
  OrderedMap        what a btree promises its client
SimdSearch          the vector searches of dense_map
  MCSimdSearch
  SimdSearchProofs    theorems
HugePagePool        regions, cutting, free list
  UniformPool         a pool of blocks of one size
    MCUniformPool       instance for TLC
    UniformPoolProofs   theorems
  MCSharedPool        a pool of two sizes
MultiSizePool       size classes over pools of one size
  MCMultiSizePool
  MultiSizePoolProofs theorems
TreeLifecycle       trees, their allocators and the lifetime of pools
  MCTreeLifecycle
  TreeLifecycleProofs theorems
Induction           induction over the numbers, which several proofs need
```

### DenseMap

A map is a function from its keys; the arrays and their shifting are abstracted.
An iterator is the set of the key it points at, empty for `end()`. The
preconditions of the operations that would corrupt an array are operators of
their own (`KeepsOrder` for `unsafe_update_key`, `MayJoin` for the transfers):
the tree's steps have them as guards, so a violation shows up as a call that never
returns.

Integer keys with `std::less` are assumed: `==` and the comparator agree.

### DenseMaps and DenseArray

`DenseArray` has the fields of the class: `keys`, `values` and `size`, one function of
slots per array. `MoveForward` and `MoveBackward` are `std::move` and
`std::move_backward`, slot by slot; what a move leaves is `Gone`, or the old content
if `MoveCopies` (trivially copyable types). Slots beyond `size` are reset to `Gone`
after each call (`Cropped`): the code never reads them, and if it did count one as an
element `ImplementsMaps` would show it. `insert`, `insert_hint` and
`try_emplace` are `InsertNew`: they differ in how they find the position and when they
construct the value. With `ValuesThrow` the copy of a value may throw; the steps of
`insert_impl` are one action with an outcome for that.

`DenseMaps` is the abstract side: maps, and an outcome per call. It also says what a
call that throws leaves (`AddThrows`: the new element, without its value, has taken the
place of the greatest; `CopyThrows`). `ImplementsMaps` says
that the arrays implement it: it is what lets `BTree` use `DenseMap`'s operators.

### SimdSearch

One step per comparison of a register. The width of registers, the number of lanes,
the bits of a mask and the constants it is compared with are the code's; keys are bit
patterns below `2 * Half`, `Half` being the sign bit: 2^7 to 2^63 in the code, any
number in the proofs, 128 in the run, where keys of every size have 8 bits. `block` is
where in the cascade of widths the search is: the widest in a loop, the others at most
once, then `Scalar`. `Number` and `Comp` define what patterns mean, signed, unsigned
and floating point with its zeros and NaN; `Lane` and `LaneTrue` what the instructions
compare.

### BTree

`Node` is a finite set of addresses, more than any tree needs; `kind` says what is allocated at each (`"leaf"`,
`"low"` for an internal node whose children are leaves, `"high"` for one whose
children are internal nodes, `"free"`). The fields of the nodes and of the tree
object keep their names. A running call is a program counter `pc` and the
arguments of the function about to run:

| `pc` | function | steps |
|---|---|---|
| `start` | the public operation | `StartOnEmpty`, `StartSearch`, `ClearLeaf`, `ClearTree` |
| `descend` | `find_leaf_for_key` | `Descend` |
| `leaf` | the operation at the leaf | `Lookup`, `InsertExisting`, `InsertRoom`, `SplitLeaf` |
| `promote` | `insert_into_parent(node, k, sib)` with `split_internal` | `PromoteNewRoot`, `PromoteRoom`, `PromoteSplit` |
| `fix` | `update_parent_key_recursive(node, k)` | `FixSeparator` |
| `leftmost` | the end of `split_leaf_and_insert` | `UpdateLeftmost` |
| `erase` | `erase(it)` | `EraseFromRoot`, `EraseFromLeaf` |
| `underflow` | `handle_underflow(node)` | `BorrowFromLeft`, `BorrowFromRight`, `MergeWithLeft`, `MergeWithRight` |
| `parent` | `handle_parent_after_merge(node)` | `ParentUnderflows`, `CollapseRoot`, `ParentStands` |
| `next` | the end of `erase(it)`: the iterator returned | `NextElement` |
| `range` | the loop of `erase(first, last)` | `RangeErase`, `RangeFindLast`, `RangeEnd` |
| `answer`, `done` | return | `Answer`, `Finish` |

Every recursion of the code is a tail recursion, or returns to a single place,
so `cont` (where to go on) is all of the stack. `it`, `inNext` and `flag` are the
locals `next_index`, `next_in_next_leaf` and the Boolean that is returned. A step
has the code's assertions and its dereferences of iterators as guards: where the
code would fail, the model stops, TLC reports a deadlock, and `EveryCallReturns`
fails.

Iterators returned by a call are reported as the element they point at (`ret`). The
client of a range erase passes a key, whose `lower_bound` is `first`, and an
existing element or `end()` as `last`, not before `first`, as the code requires.

Which address an allocation returns makes no difference (the code compares
addresses only for equality), so one free address is taken.

Failing allocations, values that are references into the tree, iteration and
construction from another tree have modules of their own.

### BTreeIterators

The iterator classes as functions of an iterator and the tree, written without cases
for the iterators they assert not to get. `IterationExact` walks the whole tree with them
between any two calls, there and back.

### BTreeOutOfMemory

Adds to `BTree` a step for each place where an insert or `clear` may throw, and what the
tree is then; nothing catches, so the call is over (`Unwind`). `Faults` says what may
throw. `BTree`'s steps change the tree in one go where the code allocates or copies in
the middle, so `ThrowInSplit` restates what the split had done by then. At most one
call throws, and not while the tree is loaded: a constructor that throws leaves no tree.
Afterwards the client looks elements up (`CallAgain`), or gives up (`Stopped`).
`Orphans` are allocated nodes other than the root without a parent.

### OrderedMap and BTreeRefinement

`OrderedMap` is a map with a single call in progress: it takes effect at one point
(`Apply`; a range erase takes one element at a time, `EraseNext`), and its answer
describes the map it leaves. `BTreeRefinement` maps the tree to it: the map is what
the leaves hold, and a call has taken effect as soon as it has changed its leaf, so
the whole rebalancing above has to be invisible. `ImplementsMap` is the
refinement with liveness, `AnswersAsMap` its safety part.

### HugePagePool and UniformPool

The unit of addresses and sizes is one pointer, the least size of a block; address 0
is `nullptr`. `word` is what the memory holds where a link may be: `deallocate`
writes the link there, and the client may overwrite any block it holds (`Write`).
`live` and `freed` are the client's view: which blocks it holds, which it gave back.
`size_type` arithmetic wraps (`Wrap`). `mmap` is modelled from its use: any page
aligned range apart from the other mappings, or failure. Hugepages may be
unavailable at any time; the fallback to regular pages is the code's.

`UniformPool` adds the two conditions under which the library's own allocators use a
pool: one size and alignment per pool, and a growth size that holds a block. The
first is what `HugePageAllocator` and `MultiSizeHugePagePool` ensure, the second what
their defaults (64 MB) ensure.

### MultiSizePool

Sizes and size classes with the code's three kinds of rounding, whose limits are
constants; `SizeMax` is where `size_type` wraps. Each class has what `UniformPool`
promises: a free list and a cursor in its newest region. An `entry` may be `"null"`,
which is what `pools_[size_class]` leaves if the pool's constructor throws.

### TreeLifecycle

A tree is a record of its two allocators (the pools they refer to), its root, its nodes
and its elements; up to `LeafCapacity` elements are a leaf, more are two leaves and an
internal root. A block remembers the pool it was cut from and for which kind of node; a
pool is mapped as long as an allocator or the client refers to it (`shared_ptr`).
`allocator` is one of the library's three: with `"own"` every rebound allocator
makes a pool, with `"policy"` all share two, with `"multi"` all share one with a free
list per size. What the allocators' copy and move constructors do is `CopiedPools` and
`MovedFromPools`: only `MultiSizeHugePageAllocator` has an implicit move constructor,
which leaves a null pool. `AcrossPools` lets the client move-assign and swap between
trees whose allocators differ, which the run `lifecycle` excludes and `move_assign_pools`
is about. `Operations` says, for each allocator, what the client does with trees it has.

An insert may throw wherever one is made: by a client (`InsertThrows`), in the range and
initializer-list constructors (`ConstructThrows`), in the copy constructor
(`CopyConstructThrows`) and in copy assignment (`CopyAssignThrows`). `Throws` says what it
leaves: the tree as it was, or, if a leaf had been split when the value
(`btree.ipp:881`) or the internal node (`btree.ipp:989`, `1044`) failed, a tree that has
lost the right half. That leaf is below no node; `deallocate_tree` walks
from the root through children (`btree.ipp:790-835`), so no destructor, `clear` or
assignment gives it back. `lost` is a history variable that records such nodes, and those of
a copy constructor that throws: it delegates to no constructor, so no destructor runs.
`stray` are the elements of a lost leaf that the list of leaves still leads to: a copy of
the tree meets them (`Listed`), and `clear` of a root leaf keeps the list. The shape has one
internal level: what a throw loses further up, a subtree that hangs below one orphan, is
`BTreeOutOfMemory`'s matter, which has the trees in detail and no pools.

## Runs

| Run | Instance | What it shows |
|---|---|---|
| `small` | every sequence of calls, 7 keys, nodes of 4, one value | the structural invariants, iteration in both directions there and back, refinement of `OrderedMap`, every call returns |
| `deep` | trees of three levels built in three orders, any two inserts, erases, range erases or clears | rebalancing of internal nodes, separators two levels up, a root that collapses onto an internal node; one call with many erases and merges, in which the iterator `erase` returns is used to go on |
| `batch_borrow` | leaves of 16 and internal nodes of 8, three levels, any one insert, erase or range erase | sizes the library admits: hysteresis of 1 and 2, two elements borrowed at a time |
| `out_of_memory` | trees of three levels with full nodes, two calls, a failure at any level | an insert that throws leaves one orphan at most; size and list stay right; every other element is found; a `clear` that throws has freed every node |
| `array` | two maps of capacity 3, four keys, binary search, values that throw | refinement of `DenseMaps`, keys in order and found after any failure, no write beyond an array |
| `simd` | all searches: keys of 1, 2, 4 and 8 bytes, integers and floating point, both orders | result of the linear search, aligned loads, termination |
| `multi_size` | three types of two classes and more, one or three objects | room, alignment, return to the right pool, null pools |
| `lifecycle` | two trees; pools of their own, two shared pools, one pool of several sizes; inserts that throw anywhere | pools outlive their nodes; blocks go home; only calls that throw leak; roots and flags; leaves and internal nodes apart |
| `pool` | one size (3 units aligned to 2), 23 units of memory, both page kinds | all pool properties |
| `shared_pool` | a pool that the library's documentation allows | disagreement 1 |
| `move_assign_pools` | pools of their own | disagreement 2 |
| `move_multi_size` | one pool of several sizes | disagreement 3 |

### Bounds, and why they are enough

`LeafNodeSize` and `InternalNodeSize` are at least 8 in the library
(`btree.hpp:154-160`); the model admits 4, whose threshold (2) still leaves no empty
node, which is what the library's bound is for. With nodes of 4 all the code's cases
happen with few elements: 7 keys give a second level, every split, borrow and merge
of leaves from both sides, and the collapse of the root. The loaded trees have
enough elements for a third level, so that internal nodes split while they are
loaded and borrow and merge while elements are erased. The node sizes 8 and 16
are checked on single calls: there `KeyStep` limits their keys and the bounds of the
ranges to every sixth key, and the erasures inside a range visit all of them.
`CallOps`, `CallKeys` and `MaxCalls` bound the client of the loaded trees: which
operations it calls, with which keys, and how often (`callsLeft`; after the last call
only `Finished` is left); loading is not counted. The number
of nodes is more than the trees of each instance need, so an allocation never fails.
One value is enough in `small`; in the loaded runs neighbours have
different values, so an element that took its neighbour's is noticed.

In `pool`, the memory holds up to six blocks, an initial region and grown ones,
regular and huge; page sizes that are no powers of two make the base of a region
odd, so that padding is needed at its start as well as inside. TLC explores the
whole state space: there is no bound on the number of calls.

In `array` capacity 3 gives shifts by two slots, with the first and last element treated
differently from the one between; a fourth key finds the array full. The constraint
`UpToFour` leaves out states where both arrays are nearly full: a transfer into an array
that is full, or too full, is within it. The outcome of the last call is left out of
the states TLC tells apart (`VIEW`), and is checked on every step. Nothing bounds the
number of calls.

`simd` searches arrays of up to 39 keys, more than two of the widest registers of
16 lanes, and of up to 67 keys of one byte, more than two registers of 32: every width
begins, is filled and is left. The arrays lie before, across and after the sign bit, and
the key searched for is every rank from just below the array to just above it. A search
has an end, so this run does not check for deadlock.

`out_of_memory` loads trees of which the nodes on the way of an insert are full up to the
root, at the left end and at the right, and then lets the client make two calls: the
second one meets what the failed one left: orphans that are leaves, low or high
nodes, and stale separators. A failed call is followed by `find`,
`lower_bound` or `upper_bound` or by nothing, a failed `clear` by nothing.

`MultiSizePool` counts in half cache lines, with two lines between the limits of the
code scaled by 64: 2, 8, 4, 16 for 64, 512, 256, 2048 bytes. `MaxLive` and `MaxRegions`
bound the blocks held at a time and the regions of a pool. `lifecycle` has seven
blocks, three elements and leaves of two, so that trees of both shapes meet in every
operation on two trees, and a split that throws can leave one element in either half. Two
trees of two leaves each fit in the blocks beside a lost leaf; with fewer blocks left a call
that would need more is not made. `MaxLost` ends the throwing once two nodes are lost (the
theorem holds for any number), and the runs of the disagreements do without it. Trees and elements are symmetric: no definition chooses
among them, and the run checks invariants only. `"own"` runs out of pools after two
constructions, copies and moves share those. With `"multi"`, `lifecycle` leaves out move construction (disagreement 3).

### Fairness

`BTree!Spec` has `WF_vars(Run)`: a call that was made goes on, because it runs to its
end on the caller's thread; nothing obliges the client to call (`Client`, `Load`). That
is what `EveryCallReturns` and the fairness of `OrderedMap` (`WF` of `Serve`, nothing
on `Call`) rest on. `BTreeOutOfMemory` has the same, for a call that throws too, and
`SimdSearch` has it for its loop. Pools, arrays and the lifecycle have no liveness
property: each of their calls is one step.

### Disagreements found

1. **Shared pools** (`shared_pool`, `BlocksApart`). `hugepage_pool.hpp:27-29` offers the
   pool for sharing "across multiple types". `allocate` (`:175`) returns the head of the
   free list whatever its size: a small freed block is handed out for a larger request and
   overlaps its neighbour. `TwoPoolPolicy` shares safely only between trees whose nodes
   have one size.
2. **Move assignment** (`move_assign_pools`, `NodesMapped`). It takes the nodes and keeps
   its allocators (`btree.ipp:123`): with pools of their own, the nodes are unmapped with
   the tree that was moved from.
3. **Move construction** (`move_multi_size`, `NullPoolUnused`). The new root of the tree
   moved from is allocated from an allocator that was moved from too (`btree.ipp:109`);
   a `MultiSizeHugePageAllocator` has no pool by then.

No run is spent on these, which the code shows on reading, or which a passing run has as
part of what it describes:

- `swap` does what move assignment does (`btree.ipp:183`).
- A block from the free list may have the wrong alignment too (`hugepage_pool.hpp:175`).
- After `grow()` the room is not checked again (`hugepage_pool.hpp:196`): with a growth
  size below the block, the block ends outside the region. `UniformPool` assumes otherwise.
- After an insert that threw, `find` misses the elements below the orphan, which iteration
  still meets (`btree.ipp:892`; `FindsAllButOrphans`), and the insert, repeated, may add a
  key a second time.
- A `clear` that throws leaves the tree pointing at freed nodes (`btree.ipp:781`;
  `IntactOrFreed`).
- A copy of a value that throws costs a `dense_map` its greatest element
  (`dense_map.ipp:720`; `AddThrows`), a copy of a key leaves a moved-from one among the
  elements (`dense_map.ipp:717`).
- A value argument that refers into the tree or the map is read after elements have moved
  (`btree.ipp:881`, `dense_map.ipp:720`).
- `n * sizeof(T)` may wrap (`multi_size_hugepage_allocator.hpp:99`).

## Proofs

A theorem holds for every value of the constants that the named assumptions of the
modules allow; TLC evaluates these in the passing runs. Where a theorem needs more, the
hypothesis is in its statement and is named below. Each one follows from an inductive
invariant, `IInv` unless another name is given: the initial states have it, every step
keeps it (one lemma per action), and it implies the property.

### The tree: `BTreeShapeProofs`, `BTreeMapProofs`

For any keys, values, addresses, loads and node sizes from 4:

| Theorem | Property |
|---|---|
| `BTreeTypeCorrect` | `TypeOK` |
| `NothingDangles` | `NoDanglingPointer` |
| `ParentsAndChildren` | `ParentsAgree` |
| `SeparatorsAreExact` | `SeparatorsExact` |
| `LeavesChained` | `LeafChain` |
| `SizeCounts` | `SizeExact` |
| `NodesKeepTheirSizes` | `Occupancy` |
| `LeftmostNeverMoves` | `LeftmostStays`, an action property |
| `TreeAnswersAsMap` | `AnswersAsMap`, the safety part of the refinement of `OrderedMap` |
| `IterationIsExact` | `IterationExact`, of the iterators |
| `FailureLeavesListOrNothing` | `IntactOrFreed`, of `BTreeOutOfMemory` |
| `FailureLosesOneHalf` | `FindsAllButOrphans`, of `BTreeOutOfMemory` |

`TypeOK` alone is not inductive: the arguments of the running function have to be nodes
and keys where its step uses them, which `ArgumentsOK` says for each `pc`.

The others rest on `SInv`. None of them is inductive alone: that a split node's upper
half goes into the list at the right place needs the order of all leaves, that needs
exact separators, these need parents that agree, and these need the caller's arguments
to be where they were. `SInv` is `IInv`, `Counted` (`size_` is the number of elements)
and the existence of a height `h[n]` for each node such that

- `Kinds`, `Top`, `Family`: leaves are at height 0, nodes of kind `"low"` at height 1,
  the root is highest, a child is one below its parent and in one slot of it;
- `Levels`: of two nodes of one height, the keys of one are all before those of the
  other. This, for all heights alike, is what makes a split or a shift of keys between
  neighbours local;
- `Exact`, `StaleOK`: a separator is the smallest key of its child, or can be replaced by
  it without changing the order of any node up the tree;
- `Populated`: every node but a root leaf has two entries or more;
- `Chained`: the leaves' links join neighbours in key order.

Steps in the middle of a call break some of these at one node: the new half of a split
has no parent yet (`Unplaced`), the separator of a node is about to be updated (`Stale`), a
node that lost an entry is about to be rebalanced (`Light`). `Running` says what the
arguments of the running function are then: that the key searched for belongs to the
node reached (`Covers`), that `sib` directly follows `node` (`Promoting`), and so on.
A node keeps its height from its allocation on. For `clear`, `SubtreeOfRoot` shows that
the walk down from the root frees all nodes, as a tree of finitely many nodes is no higher
than their number (`HeightBound`).

`NodesKeepTheirSizes` has a second invariant, `Sized`, on top of `SInv`: every node but
the root has the entries that `UnderflowThreshold` asks for, or one fewer while
`handle_underflow` is about to run. Its hypothesis `SplitsBalance` excludes node sizes of
5, of which half is below the threshold; the library's sizes are 8 and more.

`TreeAnswersAsMap` shows that the initial state is the empty map and that every step of the
tree is a step of `OrderedMap` or leaves the map as it is. What the map is comes from
`SInv`: a key is in one leaf (`OneLeaf`), so `Dict` is a relation that can be followed entry
by entry (`Holds`) when entries move. That the answer is right needs a third invariant,
`AInv`, which says what a running call has found out:

- `SearchKnown`: the key searched for is the call's. With `Covers` the leaf reached is then
  where this key belongs among all elements (`Around`), present or not, so that `lower_bound` in
  the leaf, or else the first element of the next leaf, is the one in the tree (`ResolveMarks`);
- `InsertKnown`: through all promotions `it` points at the new element;
- `EraseKnown`: the element about to go is the call's key, or for a range the first one that is
  left and before `stop`;
- `TrackKnown`: through all borrows and merges the leaf of `it` is where the erased key belonged,
  and `it.idx` is the index of the first element after it, `NoIndex` if the leaf has none. While
  the leaf itself is rebalanced, `inNext` says whether that element is in the next leaf
  (`NextKnown`). A leaf that takes in entries of a neighbour stays around the key
  (`GrowAround`); entries in front shift the index, and entries behind are where the element is
  when the leaf had none (`GrowsInFront`, `GrowsBehind`);
- `RangeKnown`, `AnswerKnown`: `it` is `lower_bound` of the range's key, or the map's answer.

One lemma per action shows that it keeps `AInv` and is a step of the map, from `SInv` before
and after it.

`IterationIsExact` follows from `SInv` alone. An element's place is its leaf and its rank there
(`Spot`). Of two elements one after the other, the second is next in the same leaf, or first in
the leaf that `Chained` puts next, the first one being last in its own (`NextPlace`): no leaf in
between is empty. So each of the four steps leads from place to place (`StepBetween`), and the
cached leaves and null links are right at both ends (`StepAtEnds`). That the walks of the property,
which are recursive functions, are these places one after another is an induction
(`SameSequence`).

The last two theorems are about `OomSpec`, in which an allocation or a copy may throw. Until
then `SInv` holds; `OInv` adds what remains of it afterwards, when only lookups run. Either a
`clear` has freed every node (`ClearDamage`), or the tree is `Standing`: sound but for at most
one node, the half that a split made and that got no parent, and for separators on the way to the
first leaf, where a key smaller than all others may have been put before the exception; entries
are still in order, linked and counted. One lemma per place of an exception shows this
(`EarlyDamage`, `SplitDamage`, `PromotionDamage`). That no other separator is stale is part
of `Promoting`, hence of `SInv`: `insert` refreshes them only when all promotions are done.
The list is then intact as in `LeavesChained`.

That `find` reaches every element not below the orphan is shown from the leaf up: a key that
belongs to a child belongs to its parent (`CoversParent`), and in the parent
`find_leaf_for_key` chooses that child (`ChildFound`), the first child being chosen
whatever its separator is. So either this ascent ends at the root, and the search comes down the
same way (`AscentToRoot`, `LeafIsFound`), or it ends at the orphan, and the leaf is one of
those that the property excepts (`AscentFromBelow`, `PathInSubtree`).

### Arrays and searches: `DenseArrayProofs`, `SimdSearchProofs`

`ArrayTypeCorrect` (`TypeOK`) and `ArrayLookupsExact` (`LookupsExact`) hold for arrays of
any capacities, with moves that copy or empty and copies that throw. The loops that shift
slots are recursive functions; `MovedDown` and `MovedUp` are closed forms of them. That a
loop computes its closed form is proved by induction, and all that is said of
the arrays afterwards is said of the closed forms. The invariant is that the used slots
hold ordered keys (`GoodKeys`).

`ArraysImplementMaps` (`ImplementsMaps`) is the refinement: every call on the arrays is
the call of `DenseMaps`, with the same outcome. `Lists` says that the first `n` slots
hold the entries of a map, and there is only one such map (`SameMap`). What a
call does to the slots is put into one predicate for keys and values alike (`IsRaised`,
`IsLowered`, `IsWritten`, `IsPart`, `IsAppended`), and one lemma says which map
the slots list then (`InsertListed`, `EraseListed`, `AssignListed` and `UpdateListed`,
`RangeListed`, `JoinListed`). A value would part from its key only if the two arrays
were shifted differently. The order of the keys makes them distinct, so that an entry has
one slot (`KeysCounted`), and makes the first and last slots those of the smallest and
greatest keys (`LowestAre`), which split and transfers move. One lemma per call puts
this together (`InsertImplMaps` ... `MoveAssignMaps`); calls that throw are among them.
The map that a theorem about the tree takes for a node's array is thus what the
array holds.

`VectorSearchIsLinearSearch` (`SameAsLinear`) and `RegistersAreLoadedAligned`
(`LoadsAligned`) hold for keys of any number of bits and arrays of any length.
`LaneCompares` shows that flipping the sign bit or swapping the operands makes the
instruction's comparison the one of the key type. The invariant is that all keys before
`i` precede the searched one (`Prefix`), that the key at `i` does not once the search has stopped
(`Stopped`), and that `i` is a multiple of the registers still to be tried (`Aligned`).

### Memory: `UniformPoolProofs`, `MultiSizePoolProofs`, `TreeLifecycleProofs`

`UniformPoolProofs` proves for every memory size, page size, initial and growth size
and every request that `UniformPool` allows that `TypeOK`, `BlocksApart`, `BlocksMapped`,
`BlocksAligned`, `FreeListIntact` and `GrowsOnlyWhenAllInUse` hold.
`BlocksApart` is not inductive: a freed block comes back, and a block is cut from the
rest of the region. The inductive invariant adds that all blocks are of one kind
(`OneKind`), that freed blocks too are apart, mapped and aligned (`AllApart`, `AllMapped`,
`AllAligned`), that the rest of the newest region is inside it and apart from every
block (`TailFree`), and that the free list can be laid out as a sequence of the freed
blocks, each linked to the one before (`Listed`): without it a link might lead
anywhere. `DeallocateStep` extends that sequence, `FromFreeListStep` shortens it,
`WriteStep` uses `AllApart` to show that no link is overwritten, and `CutStep`, used
with and without growth, shows that nothing wraps. That `FreeListIntact`'s walk meets the
nodes of this sequence one after the other is an induction (`LinksFollowed`).

`MultiSizePoolProofs` proves `TypeOK`, `NullPoolUnused`, `BlocksHoldTheirObjects`,
`BlocksAligned` and `BlocksComeHome` for any types, counts, regions and limits of the
rounding. The invariant says that the blocks of a class tile its regions up to the
cursor (`Tiled`), each of them held once or free once (`OnePlace`), in a pool that has been made
(`HeldInPools`). Two hypotheses say what the code does not check: `RegionsHoldABlock`, a class
is no larger than the growth size (64 MB by default), and, for
`BlocksHoldTheirObjects`, `NothingWraps` (`multi_size_hugepage_allocator.hpp:99`).

`TreeLifecycleProofs` proves `NodesMapped`, `BlocksComeHome`, `OnlyThrowsLeak`, `RootsOwned`
and `BlocksOfOneType` for any number of trees, pools, nodes and elements and all three
allocators. The invariant `IInv` says that pools can be divided into those that leaves and
those that internal nodes come from (`Sorted`), that trees have their nodes in the pools of
their own allocators (`SoundTree`), that every block that was cut is a node, lost, or free
in the pool it is from (`SoundMemory`), and that no node is in two trees, or in one and lost
(`NothingShared`). A call that throws is its inserts up to the last (`FillSound`), then the
one that throws (`ThrowsSound`): it takes a block that only `lost` gets. Their hypothesis `EqualPools` is that trees are
move-assigned and swapped between equal pools only: without it they are false
(disagreement 2).

### Induction

The library of proofs states induction for operators, which the installed provers
cannot instantiate. `Induction` derives from the well-foundedness of the order of
the numbers that a set with 0 that is closed under successors has all of them
(`SetInduction`). A recursive function needs one step more, as `CHOOSE` defines it: the
closed form satisfies the recursive equation, so there is a function that does, and by
`SetInduction` there is only one.

### What is only model-checked

- liveness (`EveryCallReturns`, `EverySearchEnds`, and in `ImplementsMap` that every call
  returns; its safety part is `TreeAnswersAsMap`), which is out of the proof system's
  reach;
- the runs that expect a disagreement.

## Not modelled

Statistics counters, NUMA placement and prefetching have no effect on what the
properties say. Benchmarks, stress programs, scripts and build files are clients or
tooling. Comparators coarser than `==`, and NaN among the elements, are excluded: the
code's `==` and its comparator disagree there and no order is promised. Also left out:

- moves that throw, copies of keys that throw, and copies that throw inside a move of
  several elements;
- arguments that are references into the container they are passed to;
- the destructor of a pool beyond the fact that its memory is unmapped, and an allocation
  of the standard library that fails inside a pool (`hugepage_pool.hpp:321`);
- an allocation that fails inside a `noexcept` move, which ends the program; in
  `TreeLifecycle` one that fails in `clear` either, which has just given a leaf to the pool
  it allocates from (with other allocators it may fail: `BTreeOutOfMemory`);
- in `MultiSizePool`, a new pool whose first region has no room for the block it was made
  for, so that it grows, and may throw, in the same call, and alignments above a page:
  neither happens with the sizes of the run;
- iterators used after a change, except those that erase itself keeps;
- more than one failed call, and erases after one.
