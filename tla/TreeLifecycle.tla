--------------------------- MODULE TreeLifecycle ---------------------------
(***************************************************************************)
(* Construction, destruction, copy, move and swap of btrees (btree.ipp)    *)
(* whose nodes come from the pools of their allocators: HugePageAllocator  *)
(* ("own", every rebound allocator makes a pool), PolicyBasedHugePage-     *)
(* Allocator with a TwoPoolPolicy ("policy", all trees share two pools)    *)
(* and MultiSizeHugePageAllocator ("multi", they share one that keeps      *)
(* sizes apart).  A pool lives as long as an allocator refers to it        *)
(* (shared_ptr) and then unmaps its memory.                                *)
(*                                                                         *)
(* What BTree has in detail is here a shape: up to LeafCapacity elements   *)
(* are one leaf, more are two leaves below an internal root.               *)
(*                                                                         *)
(* An insert may throw after it has split a leaf: the right half is then   *)
(* in the list of leaves but below no node of the tree, so that no         *)
(* destructor ever meets it.                                               *)
(***************************************************************************)
EXTENDS Integers, FiniteSets

CONSTANTS
  Tree,          \* btree objects
  Node,          \* blocks of memory
  Pool,          \* pool objects
  Elem,          \* elements
  Null,
  LeafCapacity,
  Operations,    \* for each kind of allocator, what clients do with existing trees
  AcrossPools,   \* whether it moves and swaps between unequal allocators
  MaxLost        \* bound: no call throws once so many nodes have been lost

ASSUME NullAssumption == Null \notin Node \cup Pool
ASSUME ShapeAssumption ==
  /\ IsFiniteSet(Elem) /\ LeafCapacity \in Nat \ {0} /\ Cardinality(Pool) > 1
  /\ DOMAIN Operations \subseteq {"own", "policy", "multi"} /\ AcrossPools \in BOOLEAN
  /\ \A a \in DOMAIN Operations :
       Operations[a] \subseteq {"move", "moveAssign", "swap", "copy", "assign"}

VARIABLES
  allocator, \* which kind of allocator the program uses
  tree,   \* the btree objects
  home,   \* the pool in whose regions a block lies; Null if not cut yet
  type,   \* what a block was cut for: "leaf", "inner"
  free,   \* the free lists of the pools
  made,   \* pools that have been constructed
  held,   \* pools the client's allocator refers to
  lost,   \* history: the nodes that calls which threw have left in no tree
  crashed \* a null pool has been dereferenced

mem  == <<home, type, free>>
vars == <<allocator, tree, mem, made, held, lost, crashed>>

NoTree == [alive |-> FALSE, leafAlloc |-> Null, innerAlloc |-> Null, root |-> Null,
           rootIsLeaf |-> TRUE, leaves |-> {}, inners |-> {},
           elems |-> {},  \* the elements in its leaves
           stray |-> {}]  \* those in lost leaves that its list of leaves still leads to

Alive == {t \in Tree : tree[t].alive}
Dead  == Tree \ Alive
NodesOf(t) == tree[t].leaves \cup tree[t].inners

\* What an iteration from begin() meets; size_ is 0 if the leaves are empty.
Listed(r) == IF r.elems = {} THEN {} ELSE r.elems \cup r.stray

\* Mutant: the allocator of the internal nodes does not keep its pool.
Mapped_LeafOnly == held \cup {tree[t].leafAlloc : t \in Alive}

\* Pools an allocator refers to; the others have unmapped their regions.
Mapped == held \cup UNION {{tree[t].leafAlloc, tree[t].innerAlloc} : t \in Alive}

----------------------------------------------------------------------------
(* The pools' memory: m is a value of mem. *)

Mem == [home |-> home, type |-> type, free |-> free]

\* Mutant: the size of a block does not matter.
Fits_Any(m, b, kind) == TRUE

\* A MultiSizeHugePagePool has a free list for every size.
Fits(m, b, kind) == allocator = "multi" => m.type[b] = kind

\* The block a pool hands out when those in S would do: any, since blocks of one
\* pool differ in nothing the code looks at; none if S is empty.
OneOf(S) == {b \in S : b = CHOOSE c \in S : TRUE}

\* allocate_leaf_node, allocate_internal_node from pool p: a block of the free
\* list if there is one, or one that was never used.
Take(m, p, kind) ==
  LET reuse == {b \in m.free[p] : Fits(m, b, kind)}
      fresh == {b \in Node : m.home[b] = Null}
  IN  IF reuse # {}
      THEN {[mem |-> [m EXCEPT !.free[p] = @ \ {b}], node |-> b] : b \in OneOf(reuse)}
      ELSE {[mem |-> [m EXCEPT !.home[b] = p, !.type[b] = kind], node |-> b] :
              b \in OneOf(fresh)}

\* Mutant: all nodes go back to the pool of the leaves.
Give_ToLeafPool(m, r) == [m EXCEPT !.free[r.leafAlloc] = @ \cup r.leaves \cup r.inners]

\* deallocate_leaf_node, deallocate_internal_node for the nodes of tree r.
Give(m, r) ==
  LET toLeaf  == [m EXCEPT !.free[r.leafAlloc] = @ \cup r.leaves]
  IN  [toLeaf EXCEPT !.free[r.innerAlloc] = @ \cup r.inners]

\* A tree with the allocators of r and up to two leaves.
LeafTree(r, l, E) ==
  [alive |-> TRUE, leafAlloc |-> r.leafAlloc, innerAlloc |-> r.innerAlloc, root |-> l,
   rootIsLeaf |-> TRUE, leaves |-> {l}, inners |-> {}, elems |-> E,
   stray |-> r.stray]
InnerTree(r, l, s, i, E) ==
  [alive |-> TRUE, leafAlloc |-> r.leafAlloc, innerAlloc |-> r.innerAlloc, root |-> i,
   rootIsLeaf |-> FALSE, leaves |-> {l, s}, inners |-> {i}, elems |-> E,
   stray |-> r.stray]

\* Tree r with root leaf l filled with the elements E by inserts.
Fill(m, r, l, E) ==
  IF Cardinality(E) =< LeafCapacity THEN {[mem |-> m, tree |-> LeafTree(r, l, E)]}
  ELSE UNION {{[mem |-> i.mem, tree |-> InnerTree(r, l, s.node, i.node, E)] :
                 i \in Take(s.mem, r.innerAlloc, "inner")} :
               s \in Take(m, r.leafAlloc, "leaf")}

\* An empty root leaf first, then the elements.
Build(m, r, E) ==
  UNION {Fill(l.mem, r, l.node, E) : l \in Take(m, r.leafAlloc, "leaf")}

\* clear(): a root leaf and the list behind it stay, other trees are freed and get a
\* new one.
Clear(m, r) == IF r.rootIsLeaf THEN Fill(m, r, r.root, {})
               ELSE Build(Give(m, r), [r EXCEPT !.stray = {}], {})

\* The elements E of a leaf, or of the tree it is in, when the leaf is split: those
\* that stay in the tree and those in the right half.
Halves(E) == {<<E \ R, R>> : R \in {H \in SUBSET E : /\ H # {} /\ H # E
                                                  /\ Cardinality(H) =< LeafCapacity}}

\* An insert of x into tree r throws, before it has done anything, or when it has
\* split a full leaf and the right half has no parent yet: x is in neither half if it
\* was the value that threw, and in one of them if it was the internal node.
Throws(m, r, x) ==
  {[mem |-> m, tree |-> r, lost |-> {}]} \cup
  {o \in UNION {{[mem |-> s.mem, lost |-> {s.node},
                  tree |-> [r EXCEPT !.elems = h[1], !.stray = @ \cup h[2]]] :
                    h \in Halves(r.elems) \cup Halves(r.elems \cup {x})} :
                  s \in Take(m, r.leafAlloc, "leaf")} :
     Cardinality(r.elems) >= LeafCapacity}

\* Inserts of the elements E into tree r with root leaf l, one of which throws.
FillThrows(m, r, l, E) ==
  UNION {UNION {UNION {Throws(f.mem, f.tree, x) : f \in Fill(m, r, l, K)} : x \in E \ K} :
         K \in SUBSET E}

BuildThrows(m, r, E) ==
  UNION {FillThrows(l.mem, r, l.node, E) : l \in Take(m, r.leafAlloc, "leaf")}

Becomes(m) == home' = m.home /\ type' = m.type /\ free' = m.free

Loses(L, I) == lost' = [leaves |-> lost.leaves \cup L, inners |-> lost.inners \cup I]

----------------------------------------------------------------------------
(* Allocators. *)

WithPools(p, q) == [NoTree EXCEPT !.leafAlloc = p, !.innerAlloc = q]

\* TwoPoolPolicy::get_pool_for_type
PolicyPools(p, q) == WithPools(p, q)

\* Two different pools of S, always the same ones.
TwoOf(S) ==
  {pq \in S \X S : /\ pq[1] # pq[2]
                   /\ pq[1] = CHOOSE x \in S : TRUE
                   /\ pq[2] = CHOOSE x \in S \ {pq[1]} : TRUE}

\* leaf_alloc_(alloc), internal_alloc_(alloc): the rebind constructors.
Rebind(r) ==
  \/ /\ allocator = "own"
     /\ \E pq \in TwoOf(Pool \ made) :
          r = WithPools(pq[1], pq[2]) /\ made' = made \cup {pq[1], pq[2]}
  \/ /\ allocator = "policy" /\ UNCHANGED made
     /\ \E pq \in TwoOf(held) : r = PolicyPools(pq[1], pq[2])
  \/ /\ allocator = "multi" /\ UNCHANGED made
     /\ \E p \in held : r = WithPools(p, p)

\* The trees a client may construct: without pools, or with two of its own.
NewTrees == {WithPools(p, q) : p, q \in Pool}

\* select_on_container_copy_construction: the copy shares the pools.
CopiedPools(r) == WithPools(r.leafAlloc, r.innerAlloc)

\* std::move of the allocators: those that declare a copy constructor are copied.
MovedFromPools(r) ==
  IF allocator = "multi" THEN [r EXCEPT !.leafAlloc = Null, !.innerAlloc = Null] ELSE r

SamePools(r, s) == r.leafAlloc = s.leafAlloc /\ r.innerAlloc = s.innerAlloc

----------------------------------------------------------------------------
(* The client. *)

\* The constructors from an allocator and perhaps a range of elements.
Construct ==
  /\ allocator # "own" => held # {}
  /\ \E r \in NewTrees :
       /\ Rebind(r)
       /\ \E t \in Dead, E \in SUBSET Elem : \E b \in Build(Mem, r, E) :
            Becomes(b.mem) /\ tree' = [tree EXCEPT ![t] = b.tree]
  /\ UNCHANGED <<held, crashed>>

\* An insert of the range constructor throws: it has delegated to another
\* constructor, so the destructor gives back the nodes below the root.
ConstructThrows ==
  /\ allocator # "own" => held # {}
  /\ Dead # {}
  /\ \E r \in NewTrees :
       /\ Rebind(r)
       /\ \E E \in SUBSET Elem : \E o \in BuildThrows(Mem, r, E) :
            Becomes(Give(o.mem, o.tree)) /\ Loses(o.lost, {})
  /\ UNCHANGED <<tree, held, crashed>>

\* ~btree
Destroy ==
  /\ \E t \in Alive :
       /\ Becomes(Give(Mem, tree[t]))
       /\ tree' = [tree EXCEPT ![t] = NoTree]
  /\ UNCHANGED <<made, held, crashed>>

\* The client lets go of its allocator, the trees keep theirs.
DropAllocator == held # {} /\ held' = {} /\ UNCHANGED <<tree, mem, made, crashed>>

Use(op) == op \in Operations[allocator] /\ UNCHANGED <<made, held>>

InsertElement ==
  /\ UNCHANGED <<made, held, crashed>>
  /\ \E t \in Alive : \E x \in Elem \ tree[t].elems :
       LET r == tree[t]
           E == r.elems \cup {x}
       IN  IF r.rootIsLeaf
           THEN \E b \in Fill(Mem, r, r.root, E) :
                  Becomes(b.mem) /\ tree' = [tree EXCEPT ![t] = b.tree]
           ELSE tree' = [tree EXCEPT ![t].elems = E] /\ UNCHANGED mem

\* An insert throws and leaves its tree as it is by then.
InsertThrows ==
  /\ UNCHANGED <<made, held, crashed>>
  /\ \E t \in Alive : \E x \in Elem \ tree[t].elems :
       \E o \in Throws(Mem, tree[t], x) :
         /\ Becomes(o.mem) /\ Loses(o.lost, {})
         /\ tree' = [tree EXCEPT ![t] = o.tree]

ClearTree ==
  /\ UNCHANGED <<made, held, crashed>>
  /\ \E t \in Alive : \E b \in Clear(Mem, tree[t]) :
       Becomes(b.mem) /\ tree' = [tree EXCEPT ![t] = b.tree]

\* btree(const btree& other)
CopyConstruct ==
  /\ Use("copy")
  /\ \E t \in Dead, s \in Alive :
       \E b \in Build(Mem, CopiedPools(tree[s]), Listed(tree[s])) :
         Becomes(b.mem) /\ tree' = [tree EXCEPT ![t] = b.tree]
  /\ UNCHANGED crashed

\* An insert of the copy constructor throws: it has delegated to no constructor, so
\* that there is no object to destroy, and all nodes are lost.
CopyConstructThrows ==
  /\ Use("copy")
  /\ Dead # {}
  /\ \E s \in Alive :
       \E o \in BuildThrows(Mem, CopiedPools(tree[s]), Listed(tree[s])) :
         Becomes(o.mem) /\ Loses(o.tree.leaves \cup o.lost, o.tree.inners)
  /\ UNCHANGED <<tree, crashed>>

\* operator=(const btree& other): clear, then inserts.
CopyAssign ==
  /\ Use("assign")
  /\ \E t, s \in Alive :
       /\ t # s
       /\ \E c \in Clear(Mem, tree[t]) :
            \E b \in Fill(c.mem, c.tree, c.tree.root, Listed(tree[s])) :
              Becomes(b.mem) /\ tree' = [tree EXCEPT ![t] = b.tree]
  /\ UNCHANGED crashed

\* An insert of the copy assignment throws; clear has freed a leaf for its new root.
CopyAssignThrows ==
  /\ Use("assign")
  /\ \E t, s \in Alive :
       /\ t # s
       /\ \E c \in Clear(Mem, tree[t]) :
            \E o \in FillThrows(c.mem, c.tree, c.tree.root, Listed(tree[s])) :
              /\ Becomes(o.mem) /\ Loses(o.lost, {})
              /\ tree' = [tree EXCEPT ![t] = o.tree]
  /\ UNCHANGED crashed

\* What r takes from s: everything but the allocators.
Takes(r, s) == [s EXCEPT !.leafAlloc = r.leafAlloc, !.innerAlloc = r.innerAlloc]

\* The moved-from tree gets a new root leaf.
LeavesEmpty(m, r) == Build(m, [NoTree EXCEPT !.leafAlloc = r.leafAlloc,
                                             !.innerAlloc = r.innerAlloc], {})

\* btree(btree&& other)
MoveConstruct ==
  /\ Use("move")
  /\ \E t \in Dead, s \in Alive :
       LET r == Takes(CopiedPools(tree[s]), tree[s])
           s2 == MovedFromPools(tree[s])
       IN  IF s2.leafAlloc = Null
           THEN crashed' = TRUE /\ UNCHANGED <<tree, mem>>
           ELSE /\ \E b \in LeavesEmpty(Mem, s2) :
                     Becomes(b.mem) /\ tree' = [tree EXCEPT ![t] = r, ![s] = b.tree]
                /\ UNCHANGED crashed

\* Mutant: the old nodes are not given back.
MoveAssign_NoDeallocate ==
  /\ Use("moveAssign")
  /\ \E t, s \in Alive :
       /\ t # s /\ (AcrossPools \/ SamePools(tree[t], tree[s]))
       /\ \E b \in LeavesEmpty(Mem, tree[s]) :
            /\ Becomes(b.mem)
            /\ tree' = [tree EXCEPT ![t] = Takes(tree[t], tree[s]), ![s] = b.tree]
  /\ UNCHANGED crashed

\* operator=(btree&& other): the allocators stay where they are.
MoveAssign ==
  /\ Use("moveAssign")
  /\ \E t, s \in Alive :
       /\ t # s /\ (AcrossPools \/ SamePools(tree[t], tree[s]))
       /\ \E b \in LeavesEmpty(Give(Mem, tree[t]), tree[s]) :
            /\ Becomes(b.mem)
            /\ tree' = [tree EXCEPT ![t] = Takes(tree[t], tree[s]), ![s] = b.tree]
  /\ UNCHANGED crashed

\* Mutant: the cached root_is_leaf_ is not swapped.
Swapped_NoFlag(r, s) == [Takes(r, s) EXCEPT !.rootIsLeaf = r.rootIsLeaf]

Swapped(r, s) == Takes(r, s)

\* swap: everything but the allocators, whichever kinds the roots are.
Swap ==
  /\ Use("swap")
  /\ \E t, s \in Alive :
       /\ t # s /\ (AcrossPools \/ SamePools(tree[t], tree[s]))
       /\ tree' = [tree EXCEPT ![t] = Swapped(tree[t], tree[s]),
                               ![s] = Swapped(tree[s], tree[t])]
  /\ UNCHANGED <<mem, crashed>>

\* A client with its allocator and no tree.
Init ==
  /\ allocator \in DOMAIN Operations
  /\ tree = [t \in Tree |-> NoTree]
  /\ home = [b \in Node |-> Null] /\ type = [b \in Node |-> "none"]
  /\ free = [p \in Pool |-> {}]
  /\ \E p \in TwoOf(Pool) :
       made = CASE allocator = "own" -> {} [] allocator = "policy" -> {p[1], p[2]}
                [] allocator = "multi" -> {p[1]}
  /\ held = made
  /\ lost = [leaves |-> {}, inners |-> {}]
  /\ crashed = FALSE

\* The client is done.
Finished == Alive = {} /\ UNCHANGED vars

Returns ==
  \/ Construct \/ Destroy \/ DropAllocator
  \/ InsertElement \/ ClearTree
  \/ CopyConstruct \/ CopyAssign \/ MoveConstruct \/ MoveAssign \/ Swap
  \/ Finished

Throw ==
  /\ Cardinality(lost.leaves) + Cardinality(lost.inners) < MaxLost
  /\ ConstructThrows \/ InsertThrows \/ CopyConstructThrows \/ CopyAssignThrows

Next ==
  /\ UNCHANGED allocator
  /\ \/ Returns /\ UNCHANGED lost
     \/ Throw

Spec == Init /\ [][Next]_vars

----------------------------------------------------------------------------
(* Safety. *)

\* Every node of a tree lies in memory that is mapped: no pool goes before the
\* last tree with a node in it, whatever was moved, swapped or destroyed between.
NodesMapped == \A t \in Alive : \A b \in NodesOf(t) : home[b] \in Mapped

\* A block goes back to the pool it was cut from, and a pool never hands out what a
\* tree still uses.
BlocksComeHome ==
  \A p \in Mapped \ {Null} : \A b \in free[p] :
    home[b] = p /\ \A t \in Alive : b \notin NodesOf(t)

\* Only calls that throw leak: a block that was cut is a node of exactly one tree, or
\* on exactly one free list, or it is the leaf that was split off by an insert that
\* threw, or a node of a copy constructor that threw.  Those come back to no tree and
\* to no free list; whatever else is copied, moved, swapped, cleared and destroyed,
\* trees that such an insert has left included, leaks nothing and shares nothing.
OnlyThrowsLeak ==
  \A b \in Node : home[b] \in Mapped \ {Null} =>
    Cardinality({t \in Alive : b \in NodesOf(t)})
      + Cardinality({p \in Pool : b \in free[p]})
      + Cardinality({b} \cap (lost.leaves \cup lost.inners)) = 1

\* Every tree, also one that was moved from, has a root of its own, and the flag that
\* says which member of the union holds it is right.
RootsOwned ==
  \A t \in Alive :
    LET r == tree[t]
    IN  /\ r.root \in IF r.rootIsLeaf THEN r.leaves ELSE r.inners
        /\ r.rootIsLeaf => r.inners = {}
        /\ Cardinality(r.elems) > LeafCapacity => ~r.rootIsLeaf

\* A leaf never gets a block that was cut for an internal node, which may be smaller,
\* and the other way round: the pools keep no sizes.
BlocksOfOneType ==
  \A t \in Alive : /\ \A b \in tree[t].leaves : type[b] = "leaf"
                   /\ \A b \in tree[t].inners : type[b] = "inner"

\* The move constructor leaves the other tree valid and empty (btree.hpp:282-283):
\* its allocator still has a pool to take the new root from.
NullPoolUnused == ~crashed
=============================================================================
