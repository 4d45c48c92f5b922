------------------------------- MODULE BTree -------------------------------
(***************************************************************************)
(* btree<Key, Value, LeafNodeSize, InternalNodeSize> (btree.hpp,           *)
(* btree.ipp): a B+ tree whose leaves are doubly linked and whose internal *)
(* nodes hold, for every child, the smallest key of the child's subtree.   *)
(*                                                                         *)
(* Nodes live on a heap: Node is the set of addresses, kind says what is   *)
(* allocated at each.  A call is a sequence of steps, one per call or loop *)
(* iteration of the functions that walk the tree (find_leaf_for_key down,  *)
(* insert_into_parent, update_parent_key_recursive and handle_underflow    *)
(* up); every one of these recursions is a tail recursion, so a program    *)
(* counter and the arguments of the running function are the whole stack.  *)
(* A step is disabled where the code would dereference null or end(), or   *)
(* fail an assertion: such a call never returns.                           *)
(***************************************************************************)
EXTENDS DenseMap, Sequences

CONSTANTS
  Key,              \* keys; std::less on integers
  Value,            \* mapped values
  Node,             \* node addresses: finitely many, more than any tree over Key needs
  Null,             \* nullptr
  None,             \* no key: end(), or an argument the call does not have
  LeafNodeSize,     \* capacity of a leaf
  InternalNodeSize, \* capacity of an internal node
  Loads,            \* ranges [first, last) a tree may be constructed from
  CallOps,          \* the operations the client calls after that
  CallKeys,         \* the keys it calls them with
  MaxCalls          \* bound on its calls; none if negative

ASSUME KeyAssumption   == Key \subseteq Int /\ IsFiniteSet(Key) /\ None \notin Key
ASSUME ValueAssumption == None \notin Value
ASSUME NodeAssumption  == Node # {} /\ IsFiniteSet(Node) /\ Null \notin Node
ASSUME SizeAssumption  == /\ LeafNodeSize \in Nat /\ LeafNodeSize >= 4
                          /\ InternalNodeSize \in Nat /\ InternalNodeSize >= 4
ASSUME LoadAssumption  == Loads \subseteq Seq(Key \X Value)
ASSUME CallAssumption  == CallKeys \subseteq Key /\ MaxCalls \in Int

VARIABLES
  \* the btree object
  root,         \* leaf_root_ or internal_root_
  rootIsLeaf,   \* root_is_leaf_
  size,         \* size_
  leftmostLeaf, \* leftmost_leaf_
  rightmostLeaf,\* rightmost_leaf_
  \* the nodes
  kind,         \* "free", "leaf", "low" (children_are_leaves), "high"
  data,         \* leaf_node::data
  children,     \* internal_node::leaf_children or internal_children
  nextLeaf, prevLeaf, parent,
  \* the running call
  load,         \* elements the range constructor has still to insert
  callsLeft,    \* calls the client may still make
  pc,           \* the function about to run
  call,         \* the operation and its arguments
  node, k,      \* node and key argument of that function
  sib,          \* right_child of insert_into_parent
  cont,         \* where update_parent_key_recursive / insert_into_parent returns
  it,           \* iterator being computed: a leaf and an index
  inNext,       \* next_in_next_leaf
  flag,         \* inserted / found / erased
  ret           \* what the call returned

tree == <<root, rootIsLeaf, size, leftmostLeaf, rightmostLeaf>>
chain == <<nextLeaf, prevLeaf>>
heap == <<kind, data, children, chain, parent>>
client == <<load, callsLeft>>
args == <<node, k, sib, cont>>
vars == <<tree, heap, client, pc, call, args, it, inNext, flag, ret>>

Pointer == Node \cup {Null}
OptKey  == Key \cup {None}

NoIndex == -1
EndIt   == [leaf |-> Null, idx |-> NoIndex]
NoCall  == [op |-> "none", key |-> None, val |-> None, stop |-> None]
NoRet   == [flag |-> FALSE, key |-> None, val |-> None]

Inserts == {"insert", "insert_or_assign"}
Lookups == {"find", "lower_bound", "upper_bound"}
Ops     == Inserts \cup Lookups \cup {"erase", "erase_range", "clear"}
Steps   == {"idle", "start", "descend", "leaf", "promote", "fix", "leftmost",
            "erase", "underflow", "parent", "next", "range", "answer", "done"}
Conts   == {"fixLeft", "leftmost", "underflow", "next", "answer"}

\* f gives every node a map from keys to values in V.
Maps(f, V) ==
  /\ f = [n \in Node |-> f[n]]
  /\ \A n \in Node : IsMap(f[n], Key, V)

TypeOK ==
  /\ root \in Node /\ rootIsLeaf \in BOOLEAN /\ size \in Int
  /\ leftmostLeaf \in Node /\ rightmostLeaf \in Node
  /\ kind \in [Node -> {"free", "leaf", "low", "high"}]
  /\ Maps(data, Value) /\ Maps(children, Node)
  /\ nextLeaf \in [Node -> Pointer] /\ prevLeaf \in [Node -> Pointer]
  /\ parent \in [Node -> Pointer]
  /\ load \in Seq(Key \X Value) /\ callsLeft \in Int
  /\ pc \in Steps
  /\ call \in [op : Ops \cup {"none"}, key : OptKey, val : Value \cup {None},
               stop : OptKey]
  /\ node \in Pointer /\ k \in OptKey /\ sib \in Pointer /\ cont \in Conts
  /\ it \in [leaf : Pointer, idx : Int]
  /\ inNext \in BOOLEAN /\ flag \in BOOLEAN
  /\ ret \in [flag : BOOLEAN, key : OptKey, val : Value \cup {None}]

----------------------------------------------------------------------------
(* Node sizes. *)

IsLeaf(n)   == kind[n] = "leaf"
Capacity(n) == IF IsLeaf(n) THEN LeafNodeSize ELSE InternalNodeSize

\* min_leaf_size, min_internal_size
MinSize(n) == (Capacity(n) + 1) \div 2

\* leaf_hysteresis, internal_hysteresis
Hysteresis(n) == MinSize(n) \div 4

\* Below this size a node is rebalanced.
UnderflowThreshold(n) ==
  IF MinSize(n) > Hysteresis(n) THEN MinSize(n) - Hysteresis(n) ELSE 0

KeysOf(n) == IF IsLeaf(n) THEN DOMAIN data[n] ELSE DOMAIN children[n]
Kids(n)   == {children[n][s] : s \in DOMAIN children[n]}

Free      == {n \in Node : kind[n] = "free"}

\* The address the allocator returns when those in S are free: any will do, since
\* the code compares addresses only for equality; none if S is empty.
OneOf(S) == {n \in S : n = CHOOSE m \in S : TRUE}

\* The elements in the leaves.
Elements == UNION {DOMAIN data[l] : l \in {n \in Node : IsLeaf(n)}}

----------------------------------------------------------------------------
(* The call a client makes. *)

Request(o, x, v, s) == [op |-> o, key |-> x, val |-> v, stop |-> s]

Requests ==
  {Request(o, x, v, None) : o \in Inserts, x \in CallKeys, v \in Value}
  \cup {Request(o, x, None, None) : o \in Lookups \cup {"erase"}, x \in CallKeys}
  \cup {Request("erase_range", x, None, s) :
           x \in CallKeys, s \in (CallKeys \cap Elements) \cup {None}}
  \cup {Request("clear", None, None, None)}

Invoke(c) ==
  /\ pc = "idle"
  /\ pc' = "start"
  /\ call' = c
  /\ UNCHANGED <<tree, heap, args, it, inNext, flag, ret>>

\* The range and initializer-list constructors insert their elements in order.
Load ==
  /\ load # <<>>
  /\ Invoke(Request("insert", Head(load)[1], Head(load)[2], None))
  /\ load' = Tail(load)
  /\ UNCHANGED callsLeft

\* Any public operation.  erase_range erases [lower_bound(key), stop): stop is
\* an iterator, so it points at an element not before the first or is end().
Client ==
  /\ load = <<>> /\ callsLeft # 0
  /\ callsLeft' = IF callsLeft > 0 THEN callsLeft - 1 ELSE callsLeft
  /\ \E c \in Requests :
       /\ c.op \in CallOps
       /\ c.op = "erase_range" /\ c.stop # None => c.key =< c.stop
       /\ Invoke(c)
  /\ UNCHANGED load

Start ==
  /\ pc = "start"
  /\ UNCHANGED <<client, call, ret>>

\* find_leaf_for_key(x), called.
FindLeaf(x) ==
  /\ pc' = IF rootIsLeaf THEN "leaf" ELSE "descend"
  /\ node' = root
  /\ k' = x

\* find, lower_bound, upper_bound and erase return at once on an empty tree.
StartOnEmpty ==
  /\ Start
  /\ call.op \notin Inserts \cup {"clear"}
  /\ size = 0
  /\ pc' = "answer"
  /\ it' = EndIt
  /\ UNCHANGED <<tree, heap, args, inNext, flag>>

StartSearch ==
  /\ Start
  /\ call.op # "clear"
  /\ call.op \in Inserts \/ size # 0
  /\ FindLeaf(call.key)
  /\ UNCHANGED <<tree, heap, sib, cont, it, inNext, flag>>

\* Mutant: a key below every separator stays where it is.
Descend_NoFirstChild ==
  /\ pc = "descend"
  /\ LET S == DOMAIN children[node]
         c == IF k \in S THEN {k} ELSE Floor(S, k)
     IN  IF c = {} THEN UNCHANGED <<node, pc>>
         ELSE /\ \E s \in c : node' = children[node][s]
              /\ pc' = IF kind[node] = "low" THEN "leaf" ELSE "descend"
  /\ UNCHANGED <<tree, heap, client, call, k, sib, cont, it, inNext, flag, ret>>

\* One round of the loop of find_leaf_for_key: the rightmost child whose
\* smallest key does not exceed k, or the first child.
Descend ==
  /\ pc = "descend"
  /\ LET S == DOMAIN children[node]
     IN  \E s \in IF k \in S THEN {k}
                  ELSE IF Floor(S, k) # {} THEN Floor(S, k) ELSE First(S) :
           node' = children[node][s]
  /\ pc' = IF kind[node] = "low" THEN "leaf" ELSE "descend"
  /\ UNCHANGED <<tree, heap, client, call, k, sib, cont, it, inNext, flag, ret>>

----------------------------------------------------------------------------
(* At the leaf found for k. *)

AtLeaf ==
  /\ pc = "leaf"
  /\ UNCHANGED <<client, call, ret>>

\* Mutant: the next leaf is not looked at.
Resolve_InLeafOnly(l, i) ==
  IF At(DOMAIN data[l], i) # {} THEN [leaf |-> l, idx |-> i] ELSE EndIt

\* The element at index i of leaf l, or else the first element of the next
\* leaf, or else end().
Resolve(l, i) ==
  IF At(DOMAIN data[l], i) # {} THEN [leaf |-> l, idx |-> i]
  ELSE IF nextLeaf[l] # Null THEN [leaf |-> nextLeaf[l], idx |-> 0]
  ELSE EndIt

Lookup ==
  /\ AtLeaf
  /\ call.op \in Lookups \cup {"erase", "erase_range"}
  /\ LET S     == DOMAIN data[node]
         exact == IF k \in S THEN [leaf |-> node, idx |-> Rank(S, k)] ELSE EndIt
     IN  \/ /\ call.op = "find"
            /\ it' = exact /\ pc' = "answer" /\ flag' = (k \in S)
         \/ /\ call.op = "lower_bound"
            /\ it' = Resolve(node, Rank(S, k)) /\ pc' = "answer"
            /\ UNCHANGED flag
         \/ /\ call.op = "upper_bound"
            /\ it' = Resolve(node, Rank(S, k) + IF k \in S THEN 1 ELSE 0)
            /\ pc' = "answer"
            /\ UNCHANGED flag
         \/ /\ call.op = "erase"
            /\ it' = exact /\ flag' = (k \in S)
            /\ pc' = IF k \in S THEN "erase" ELSE "answer"
         \/ \* the client's first = lower_bound(key)
            /\ call.op = "erase_range" /\ k # call.stop
            /\ it' = Resolve(node, Rank(S, k)) /\ pc' = "range"
            /\ UNCHANGED flag
         \/ \* the final find(*last_key)
            /\ call.op = "erase_range" /\ k = call.stop
            /\ it' = exact /\ pc' = "answer"
            /\ UNCHANGED flag
  /\ UNCHANGED <<tree, heap, args, inNext>>

\* insert_impl of a key that exists: on_exists.
InsertExisting ==
  /\ AtLeaf
  /\ call.op \in Inserts
  /\ k \in DOMAIN data[node]
  /\ data' = IF call.op = "insert_or_assign"
             THEN [data EXCEPT ![node] = Insert(@, k, call.val)] ELSE data
  /\ it' = [leaf |-> node, idx |-> Rank(DOMAIN data[node], k)]
  /\ pc' = "answer"
  /\ UNCHANGED <<tree, kind, children, chain, parent, args, inNext, flag>>

\* insert_impl into a leaf with room.
InsertRoom ==
  /\ AtLeaf
  /\ call.op \in Inserts
  /\ k \notin DOMAIN data[node]
  /\ Size(data[node]) < LeafNodeSize
  /\ data' = [data EXCEPT ![node] = Insert(@, k, call.val)]
  /\ size' = size + 1
  /\ LET i == Rank(DOMAIN data[node], k)
     IN  /\ it' = [leaf |-> node, idx |-> i]
         /\ pc' = IF i = 0 /\ parent[node] # Null THEN "fix" ELSE "answer"
  /\ cont' = "answer"
  /\ flag' = TRUE
  /\ UNCHANGED <<root, rootIsLeaf, leftmostLeaf, rightmostLeaf, kind, children,
                 chain, parent, node, k, sib, inNext>>

\* f with the entries S of src moved to dst.
Move(f, src, dst, S) ==
  [f EXCEPT ![src] = Without(f[src], S), ![dst] = Join(f[dst], Only(f[src], S))]

\* Mutant: children that move keep their parent.
Reparent_Never(S, m, n) == parent

\* The parent pointers once the children S of m are n's; a leaf has none.
Reparent(S, m, n) ==
  [c \in Node |-> IF \E s \in S \cap DOMAIN children[m] : children[m][s] = c THEN n
                  ELSE parent[c]]

\* Mutant: the old next leaf keeps its prev_leaf.
LinkAfter_NoBackLink(l, new) ==
  /\ nextLeaf' = [nextLeaf EXCEPT ![new] = nextLeaf[l], ![l] = new]
  /\ prevLeaf' = [prevLeaf EXCEPT ![new] = l]
  /\ rightmostLeaf' = IF rightmostLeaf = l THEN new ELSE rightmostLeaf

\* Leaf new enters the list after l.
LinkAfter(l, new) ==
  /\ nextLeaf' = [nextLeaf EXCEPT ![new] = nextLeaf[l], ![l] = new]
  /\ prevLeaf' = [n \in Node |-> IF n = new THEN l
                                 ELSE IF n = nextLeaf[l] THEN new
                                 ELSE prevLeaf[n]]
  /\ rightmostLeaf' = IF rightmostLeaf = l THEN new ELSE rightmostLeaf

\* split_leaf_and_insert, up to its call of insert_into_parent.
SplitLeaf ==
  /\ AtLeaf
  /\ call.op \in Inserts
  /\ k \notin DOMAIN data[node]
  /\ Size(data[node]) >= LeafNodeSize
  /\ LET S  == DOMAIN data[node]
         hi == S \ LowestN(S, (LeafNodeSize + 1) \div 2)
     IN  \E new \in OneOf(Free), promoted \in First(hi) :
           LET target == IF k < promoted THEN node ELSE new
               split  == Move(data, node, new, hi)
           IN  /\ kind' = [kind EXCEPT ![new] = "leaf"]
               /\ data' = [split EXCEPT ![target] = Insert(@, k, call.val)]
               /\ LinkAfter(node, new)
               /\ it' = [leaf |-> target,
                         idx |-> Rank(DOMAIN split[target], k)]
               /\ sib' = new
               /\ k' = promoted
               /\ cont' = IF target = node THEN "fixLeft" ELSE "answer"
  /\ size' = size + 1
  /\ flag' = TRUE
  /\ pc' = "promote"
  /\ UNCHANGED <<root, rootIsLeaf, leftmostLeaf, children, parent, node, inNext>>

----------------------------------------------------------------------------
(* insert_into_parent(left_child = node, key = k, right_child = sib) *)

Promote ==
  /\ pc = "promote"
  /\ UNCHANGED <<size, leftmostLeaf, rightmostLeaf, data, chain, client, call, it,
                 inNext, flag, ret>>

\* Back in split_leaf_and_insert: if the key went to the left leaf, its
\* separator may have to follow.
AfterPromote ==
  \/ /\ cont = "fixLeft"
     /\ pc' = "fix" /\ cont' = "leftmost" /\ node' = it.leaf
     /\ k' \in First(DOMAIN data[it.leaf])
     /\ UNCHANGED sib
  \/ /\ cont = "answer"
     /\ pc' = "answer"
     /\ UNCHANGED args

PromoteNewRoot ==
  /\ Promote
  /\ parent[node] = Null
  /\ \E r \in OneOf(Free), x \in First(KeysOf(node)) :
       /\ x # k
       /\ kind' = [kind EXCEPT ![r] = IF IsLeaf(node) THEN "low" ELSE "high"]
       /\ children' = [children EXCEPT ![r] = Insert(Insert(@, x, node), k, sib)]
       /\ parent' = [parent EXCEPT ![node] = r, ![sib] = r]
       /\ root' = r
  /\ rootIsLeaf' = FALSE
  /\ AfterPromote

PromoteRoom ==
  /\ Promote
  /\ parent[node] # Null
  /\ LET p == parent[node]
     IN  /\ Size(children[p]) < InternalNodeSize
         /\ k \notin DOMAIN children[p]
         /\ parent' = [parent EXCEPT ![sib] = p]
         /\ children' = [children EXCEPT ![p] = Insert(@, k, sib)]
  /\ AfterPromote
  /\ UNCHANGED <<root, rootIsLeaf, kind>>

\* The parent is full: split_internal, then insert_into_parent one level up.
PromoteSplit ==
  /\ Promote
  /\ parent[node] # Null
  /\ LET p  == parent[node]
         S  == DOMAIN children[p]
         hi == S \ LowestN(S, (InternalNodeSize + 1) \div 2)
     IN  /\ Cardinality(S) >= InternalNodeSize
         /\ k \notin S
         /\ \E q \in OneOf(Free), promoted \in First(hi) :
              LET target == IF k < promoted THEN p ELSE q
              IN  /\ kind' = [kind EXCEPT ![q] = kind[p]]
                  /\ children' = [Move(children, p, q, hi)
                                    EXCEPT ![target] = Insert(@, k, sib)]
                  /\ parent' = [Reparent(hi, p, q) EXCEPT ![sib] = target]
                  /\ sib' = q
                  /\ k' = promoted
         /\ node' = p
  /\ UNCHANGED <<root, rootIsLeaf, pc, cont>>

----------------------------------------------------------------------------
(* update_parent_key_recursive(child = node, new_min = k) *)

\* Where parent p's children may have an entry for n, whose smallest key is x:
\* at lower_bound(x) or just before.
SlotsOf(n, x) ==
  LET c == children[parent[n]]
  IN  {s \in Ceil(DOMAIN c, x) \cup Floor(DOMAIN c, x) : c[s] = n}

Fix ==
  /\ pc = "fix"
  /\ UNCHANGED <<tree, kind, data, chain, parent, client, call, k, sib, cont, it,
                 inNext, flag, ret>>

FixReturns ==
  /\ pc' = cont
  /\ node' = it.leaf

\* Mutant: only the parent is updated.
GoesUp_Never(p, slots) == FALSE

\* node is p's first child and p has a separator of its own.
GoesUp(p, slots) == slots \cap First(DOMAIN children[p]) # {} /\ parent[p] # Null

\* The separator of node becomes k; if it is its parent's first, the parent's
\* own separator is updated next.
FixSeparator ==
  /\ Fix
  /\ parent[node] # Null
  /\ LET p     == parent[node]
         slots == SlotsOf(node, k)
     IN  /\ \A s \in slots : KeepsOrder(DOMAIN children[p], s, k)
         /\ children' = IF slots = {} THEN children
                        ELSE [children EXCEPT
                                ![p] = Insert(Without(@, slots), k, node)]
         /\ IF GoesUp(p, slots) THEN node' = p /\ UNCHANGED pc ELSE FixReturns

\* Mutant: the comparison is the other way round.
UpdateLeftmost_Swapped ==
  /\ pc = "leftmost"
  /\ \E x \in First(DOMAIN data[it.leaf]), y \in First(DOMAIN data[leftmostLeaf]) :
       leftmostLeaf' = IF y < x THEN it.leaf ELSE leftmostLeaf
  /\ pc' = "answer"
  /\ UNCHANGED <<root, rootIsLeaf, size, rightmostLeaf, heap, client, call, args,
                 it, inNext, flag, ret>>

\* The end of split_leaf_and_insert.
UpdateLeftmost ==
  /\ pc = "leftmost"
  /\ \E x \in First(DOMAIN data[it.leaf]), y \in First(DOMAIN data[leftmostLeaf]) :
       leftmostLeaf' = IF x < y THEN it.leaf ELSE leftmostLeaf
  /\ pc' = "answer"
  /\ UNCHANGED <<root, rootIsLeaf, size, rightmostLeaf, heap, client, call, args,
                 it, inNext, flag, ret>>

----------------------------------------------------------------------------
(* erase(iterator pos = it) *)

\* Mutant: size_ is not decremented.
Erase_KeepsSize(x) ==
  /\ x \in At(DOMAIN data[it.leaf], it.idx)
  /\ data' = [data EXCEPT ![it.leaf] = Without(@, {x})]
  /\ UNCHANGED <<tree, kind, children, chain, parent, client, call, sib, flag, ret>>

Erase(x) ==
  /\ x \in At(DOMAIN data[it.leaf], it.idx)
  /\ data' = [data EXCEPT ![it.leaf] = Without(@, {x})]
  /\ size' = size - 1
  /\ UNCHANGED <<root, rootIsLeaf, leftmostLeaf, rightmostLeaf, kind, children,
                 chain, parent, client, call, sib, flag, ret>>

\* erase returns: erase_range goes on with the iterator it got.
EraseReturns == pc' = IF call.op = "erase_range" THEN "range" ELSE "answer"

\* The root is a leaf: no rebalancing.
EraseFromRoot ==
  /\ pc = "erase"
  /\ rootIsLeaf /\ it.leaf = root
  /\ \E x \in DOMAIN data[it.leaf] : Erase(x)
  /\ it' = IF it.idx + 1 < Size(data[it.leaf]) THEN it ELSE EndIt
  /\ EraseReturns
  /\ UNCHANGED <<node, k, cont, inNext>>

\* Mutant: the separator is not updated.
ChangesMin_Never(l, left) == FALSE

\* The first element goes, and the leaf has left others and a parent.
ChangesMin(l, left) == it.idx = 0 /\ left > 0 /\ parent[l] # Null

\* What follows the erased element is remembered as an index into the leaf, or
\* (inNext) as the first element of the next leaf; it' says where.
EraseFromLeaf ==
  /\ pc = "erase"
  /\ ~(rootIsLeaf /\ it.leaf = root)
  /\ \E x \in DOMAIN data[it.leaf] :
       /\ Erase(x)
       /\ LET l     == it.leaf
              left  == Size(data[l]) - 1
              rebalance == left = 0 \/ left < UnderflowThreshold(l)
              after == IF rebalance THEN "underflow" ELSE "next"
              newMin == ChangesMin(l, left)
          IN  /\ it' = [leaf |-> l, idx |-> IF it.idx < left THEN it.idx ELSE NoIndex]
              /\ inNext' = (rebalance /\ it.idx >= left /\ nextLeaf[l] # Null)
              /\ node' = l
              /\ k' \in IF newMin THEN First(DOMAIN data[l] \ {x}) ELSE {k}
              /\ pc' = IF newMin THEN "fix" ELSE after
              /\ cont' = after

----------------------------------------------------------------------------
(* handle_underflow(node) *)

\* The entry of n in its parent, if any.
OwnSlot(n) ==
  IF parent[n] = Null THEN {} ELSE UNION {SlotsOf(n, x) : x \in First(KeysOf(n))}

\* The nodes before and after n in its parent, if any.
LeftSibling(n) ==
  LET c == children[parent[n]]
  IN  {c[t] : t \in UNION {Floor(DOMAIN c, s) : s \in OwnSlot(n)}}
RightSibling(n) ==
  LET c == children[parent[n]]
  IN  {c[t] : t \in UNION {Above(DOMAIN c, s) : s \in OwnSlot(n)}}

\* Mutant: the sibling may fall below its minimum.
BorrowCount_NoMinimum(n, m) == IF Hysteresis(n) > 0 THEN Hysteresis(n) ELSE 1

\* How many entries n borrows from sibling m: at least the hysteresis, as far
\* as that leaves m its minimum.
BorrowCount(n, m) ==
  LET target == IF Hysteresis(n) > 0 THEN Hysteresis(n) ELSE 1
      spare  == Cardinality(KeysOf(m)) - MinSize(n)
  IN  IF spare =< 0 THEN 0 ELSE IF target < spare THEN target ELSE spare

CanBorrow(n, siblings) == \E m \in siblings : BorrowCount(n, m) > 0

Underflow ==
  /\ pc = "underflow"
  /\ Cardinality(KeysOf(node)) < UnderflowThreshold(node)
  /\ parent[node] # Null
  /\ UNCHANGED <<size, client, call, sib, inNext, flag, ret>>

\* The entries S of sibling m move to n.
Borrow(m, n, S) ==
  /\ data' = IF IsLeaf(n) THEN Move(data, m, n, S) ELSE data
  /\ children' = IF IsLeaf(n) THEN children ELSE Move(children, m, n, S)
  /\ parent' = Reparent(S, m, n)
  /\ pc' = "fix" /\ cont' = "next"
  /\ UNCHANGED <<tree, kind, chain>>

\* Mutant: internal nodes are tracked too.
Track_AnyNode(l, i) == it' = [leaf |-> l, idx |-> i]

\* Where the element after the erased one is, once it has been found at index i
\* of leaf l; a recursive call on an internal node does not track it.
Track(l, i) == it' = IF IsLeaf(node) THEN [leaf |-> l, idx |-> i] ELSE it

\* Mutant: as if one element had been put in front.
Shifted_ByOne(n) == IF inNext \/ it.idx = NoIndex THEN NoIndex ELSE it.idx + 1

\* The tracked index once n elements have been put in front.
Shifted(n) == IF inNext \/ it.idx = NoIndex THEN NoIndex ELSE it.idx + n

BorrowFromLeft ==
  /\ Underflow
  /\ \E left \in LeftSibling(node) :
       LET n     == BorrowCount(node, left)
           moved == HighestN(KeysOf(left), n)
       IN  /\ n > 0
           /\ MayJoin(moved, KeysOf(node), Capacity(node))
           /\ Borrow(left, node, moved)
           /\ k' \in First(moved)
           /\ Track(node, Shifted(n))
  /\ UNCHANGED node

BorrowFromRight ==
  /\ Underflow
  /\ ~CanBorrow(node, LeftSibling(node))
  /\ \E right \in RightSibling(node) :
       LET n     == BorrowCount(node, right)
           moved == LowestN(KeysOf(right), n)
       IN  /\ n > 0
           /\ MayJoin(KeysOf(node), moved, Capacity(node))
           /\ Borrow(right, node, moved)
           /\ k' \in First(KeysOf(right) \ moved)
           /\ Track(node, IF inNext THEN Cardinality(KeysOf(node)) ELSE it.idx)
           /\ node' = right

\* Mutant: rightmost_leaf_ is not updated.
Unlink_NoRightmost(dst, from) ==
  /\ nextLeaf' = [nextLeaf EXCEPT ![dst] = nextLeaf[from], ![from] = Null]
  /\ prevLeaf' = [c \in Node |-> IF c = from THEN Null
                                 ELSE IF c = nextLeaf[from] THEN dst
                                 ELSE prevLeaf[c]]
  /\ UNCHANGED rightmostLeaf

\* Leaf from, which follows dst, leaves the list.
Unlink(dst, from) ==
  /\ nextLeaf' = [nextLeaf EXCEPT ![dst] = nextLeaf[from], ![from] = Null]
  /\ prevLeaf' = [c \in Node |-> IF c = from THEN Null
                                 ELSE IF c = nextLeaf[from] THEN dst
                                 ELSE prevLeaf[c]]
  /\ rightmostLeaf' = IF rightmostLeaf = from THEN dst ELSE rightmostLeaf

\* The entries of node from join dst, and from is freed and leaves the parent.
Merge(dst, from) ==
  LET p == parent[node]
      S == KeysOf(from)
  IN  \E x \in First(S) :
        /\ x \in DOMAIN children[p] /\ children[p][x] = from
        /\ MayJoin(KeysOf(dst), S, Capacity(dst))
        /\ data' = IF IsLeaf(dst) THEN Move(data, from, dst, S) ELSE data
        /\ children' = [IF IsLeaf(dst) THEN children ELSE Move(children, from, dst, S)
                          EXCEPT ![p] = Without(@, {x})]
        /\ parent' = [Reparent(S, from, dst) EXCEPT ![from] = Null]
        /\ kind' = [kind EXCEPT ![from] = "free"]
        /\ IF IsLeaf(dst) THEN Unlink(dst, from) ELSE UNCHANGED <<chain, rightmostLeaf>>
        /\ node' = p /\ pc' = "parent"
        /\ UNCHANGED <<root, rootIsLeaf, leftmostLeaf, k, cont>>

MustMerge ==
  /\ Underflow
  /\ ~CanBorrow(node, LeftSibling(node))
  /\ ~CanBorrow(node, RightSibling(node))

MergeWithLeft ==
  /\ MustMerge
  /\ \E left \in LeftSibling(node) :
       /\ Merge(left, node)
       /\ Track(left, Shifted(Cardinality(KeysOf(left))))

MergeWithRight ==
  /\ MustMerge
  /\ LeftSibling(node) = {}
  /\ \E right \in RightSibling(node) : Merge(node, right)
  /\ Track(node, IF inNext THEN Cardinality(KeysOf(node)) ELSE it.idx)

----------------------------------------------------------------------------
(* handle_parent_after_merge(parent = node) *)

AfterMerge ==
  /\ pc = "parent"
  /\ UNCHANGED <<size, leftmostLeaf, rightmostLeaf, data, chain, client, call, k,
                 sib, cont, it, inNext, flag, ret>>

ParentIsRoot == node = root /\ ~rootIsLeaf

ParentUnderflows ==
  /\ AfterMerge
  /\ ~ParentIsRoot
  /\ Size(children[node]) < UnderflowThreshold(node)
  /\ pc' = "underflow"
  /\ UNCHANGED <<root, rootIsLeaf, kind, children, parent, node>>

\* Mutant: the new root keeps its parent.
BecomesRoot_NoReset(n) == root' = n /\ UNCHANGED parent

BecomesRoot(n) == root' = n /\ parent' = [parent EXCEPT ![n] = Null]

\* The root has one child left: the child becomes the root.
CollapseRoot ==
  /\ AfterMerge
  /\ ParentIsRoot
  /\ Size(children[node]) = 1
  /\ \E heir \in Kids(node) : BecomesRoot(heir)
  /\ rootIsLeaf' = (kind[node] = "low")
  /\ kind' = [kind EXCEPT ![node] = "free"]
  /\ children' = [children EXCEPT ![node] = Empty]
  /\ pc' = "next" /\ node' = Null

ParentStands ==
  /\ AfterMerge
  /\ IF ParentIsRoot THEN Size(children[node]) # 1
     ELSE Size(children[node]) >= UnderflowThreshold(node)
  /\ pc' = "next"
  /\ UNCHANGED <<root, rootIsLeaf, kind, children, parent, node>>

----------------------------------------------------------------------------
(* Returning. *)

\* The end of erase(iterator): it becomes the iterator after the erased element.
NextElement ==
  /\ pc = "next"
  /\ it.leaf # Null
  /\ it' = Resolve(it.leaf, it.idx)
  /\ EraseReturns
  /\ UNCHANGED <<tree, heap, client, call, args, inNext, flag, ret>>

\* Iterator i points at the element with key x.
PointsAt(i, x) == i.leaf # Null /\ x \in At(DOMAIN data[i.leaf], i.idx)

\* The loop of erase(first, last), with first in it.
EraseRange ==
  /\ pc = "range"
  /\ UNCHANGED <<tree, heap, client, call, inNext, flag, ret>>

\* Mutant: the end of the range is not recognised.
AtStop_EndOnly == it = EndIt

AtStop == it = EndIt \/ PointsAt(it, call.stop)

RangeErase ==
  /\ EraseRange
  /\ ~AtStop
  /\ pc' = "erase"
  /\ UNCHANGED <<args, it>>

\* last is not end(): return find(*last_key).
RangeFindLast ==
  /\ EraseRange
  /\ AtStop
  /\ call.stop # None
  /\ FindLeaf(call.stop)
  /\ UNCHANGED <<sib, cont, it>>

RangeEnd ==
  /\ EraseRange
  /\ AtStop
  /\ call.stop = None
  /\ pc' = "answer"
  /\ it' = EndIt
  /\ UNCHANGED args

----------------------------------------------------------------------------
(* clear() *)

\* Mutant: children of internal nodes are freed without their own children.
Subtree_TwoLevels(n) == {n} \cup Kids(n)

\* The nodes below and including n, a level of the tree at a time.
Subtree(n) ==
  LET level[i \in Nat] == IF i = 0 THEN {n} ELSE UNION {Kids(m) : m \in level[i - 1]}
  IN  {m \in Node : \E i \in 0 .. Cardinality(Node) : m \in level[i]}

Clear ==
  /\ Start
  /\ call.op = "clear"
  /\ pc' = "answer"
  /\ it' = EndIt
  /\ size' = 0
  /\ UNCHANGED <<args, inNext, flag>>

\* Nothing to free: empty, or the root leaf keeps its place.
ClearLeaf ==
  /\ Clear
  /\ size = 0 \/ rootIsLeaf
  /\ data' = IF size = 0 THEN data ELSE [data EXCEPT ![root] = Empty]
  /\ UNCHANGED <<root, rootIsLeaf, leftmostLeaf, rightmostLeaf, kind, children,
                 chain, parent>>

\* Mutant: the list is left as deallocate_tree leaves it.
EmptyLeafRoot_NoList(new) ==
  /\ root' = new /\ leftmostLeaf' = Null /\ rightmostLeaf' = Null
  /\ rootIsLeaf' = TRUE

EmptyLeafRoot(new) ==
  /\ root' = new /\ leftmostLeaf' = new /\ rightmostLeaf' = new
  /\ rootIsLeaf' = TRUE

\* deallocate_internal_subtree(root), then a new empty root leaf.
ClearTree ==
  /\ Clear
  /\ size # 0 /\ ~rootIsLeaf
  /\ LET gone == Subtree(root)
         blank(f, v) == [n \in Node |-> IF n \in gone THEN v ELSE f[n]]
     IN  /\ data' = blank(data, Empty) /\ children' = blank(children, Empty)
         /\ nextLeaf' = blank(nextLeaf, Null) /\ prevLeaf' = blank(prevLeaf, Null)
         /\ parent' = blank(parent, Null)
         /\ \E new \in OneOf(Free \cup gone) :
              /\ kind' = [blank(kind, "free") EXCEPT ![new] = "leaf"]
              /\ EmptyLeafRoot(new)

----------------------------------------------------------------------------
(* The result of the call: an iterator is returned as what it points at. *)

Answer ==
  /\ pc = "answer"
  /\ \/ /\ it = EndIt
        /\ ret' = [flag |-> flag, key |-> None, val |-> None]
     \/ \E x \in Key :
          /\ PointsAt(it, x)
          /\ ret' = [flag |-> flag, key |-> x, val |-> data[it.leaf][x]]
  /\ pc' = "done"
  /\ node' = Null /\ k' = None /\ sib' = Null /\ cont' = "answer"
  /\ it' = EndIt /\ inNext' = FALSE /\ flag' = FALSE
  /\ UNCHANGED <<tree, heap, client, call>>

Finish ==
  /\ pc = "done"
  /\ pc' = "idle"
  /\ call' = NoCall
  /\ ret' = NoRet
  /\ UNCHANGED <<tree, heap, client, args, it, inNext, flag>>

----------------------------------------------------------------------------
(* A tree constructed from one of Loads: an empty root leaf, then inserts. *)

Init ==
  /\ root = CHOOSE n \in Node : TRUE
  /\ rootIsLeaf = TRUE /\ size = 0
  /\ leftmostLeaf = root /\ rightmostLeaf = root
  /\ kind = [n \in Node |-> IF n = root THEN "leaf" ELSE "free"]
  /\ data = [n \in Node |-> Empty] /\ children = [n \in Node |-> Empty]
  /\ nextLeaf = [n \in Node |-> Null] /\ prevLeaf = [n \in Node |-> Null]
  /\ parent = [n \in Node |-> Null]
  /\ load \in Loads /\ callsLeft = MaxCalls
  /\ pc = "idle" /\ call = NoCall
  /\ node = Null /\ k = None /\ sib = Null /\ cont = "answer"
  /\ it = EndIt /\ inNext = FALSE /\ flag = FALSE /\ ret = NoRet

\* One step of the code of the running call.
Run ==
  \/ StartOnEmpty \/ StartSearch \/ ClearLeaf \/ ClearTree
  \/ Descend
  \/ Lookup \/ InsertExisting \/ InsertRoom \/ SplitLeaf
  \/ PromoteNewRoot \/ PromoteRoom \/ PromoteSplit
  \/ FixSeparator \/ UpdateLeftmost
  \/ EraseFromRoot \/ EraseFromLeaf
  \/ BorrowFromLeft \/ BorrowFromRight \/ MergeWithLeft \/ MergeWithRight
  \/ ParentUnderflows \/ CollapseRoot \/ ParentStands
  \/ NextElement \/ RangeErase \/ RangeFindLast \/ RangeEnd
  \/ Answer \/ Finish

\* The client has made its calls.
Finished == pc = "idle" /\ load = <<>> /\ callsLeft = 0 /\ UNCHANGED vars

Next == Load \/ Client \/ Run \/ Finished

\* The client may stop calling; a call that was made keeps running.
Spec == Init /\ [][Next]_vars /\ WF_vars(Run)

----------------------------------------------------------------------------
(* Safety. *)

Allocated == {n \in Node : kind[n] # "free"}
Leaves    == {n \in Node : IsLeaf(n)}
Inner     == Allocated \ Leaves

\* No call is changing the tree.
AtRest == pc \in {"idle", "start", "descend", "leaf", "answer", "done"}

\* Nothing points at a freed node, at any step: no pointer of the tree, of a
\* node, or of the running call (the arrays of the parents are updated before
\* or together with every deallocation).
NoDanglingPointer ==
  /\ {root, leftmostLeaf, rightmostLeaf} \subseteq Allocated
  /\ \A n \in Allocated :
       {nextLeaf[n], prevLeaf[n], parent[n]} \cup Kids(n) \subseteq Allocated \cup {Null}
  /\ {node, sib, it.leaf} \subseteq Allocated \cup {Null}

\* Every node is the child of the node its parent field names, under exactly one
\* key, and the root is the only one without: so nothing leaks, no node has two
\* parents, and the cached root_is_leaf_ and children_are_leaves are right.
ParentsAgree ==
  AtRest =>
    /\ rootIsLeaf = IsLeaf(root) /\ parent[root] = Null
    /\ \A n \in Allocated \ {root} :
         /\ parent[n] \in Inner
         /\ Cardinality({s \in DOMAIN children[parent[n]] :
                           children[parent[n]][s] = n}) = 1
    /\ \A p \in Inner : \A n \in Kids(p) :
         parent[n] = p /\ (kind[p] = "low" <=> IsLeaf(n))

\* The separator of a child is its smallest key and the child's keys end before
\* the next separator: find_leaf_for_key leads to the only leaf a key can be in.
SeparatorsExact ==
  AtRest =>
    \A p \in Inner : \A s \in DOMAIN children[p] :
      LET keys == KeysOf(children[p][s])
      IN  /\ s \in First(keys)
          /\ \A t \in Above(DOMAIN children[p], s), x \in keys : x < t

\* Nodes keep to their sizes between calls: no array is overfull, no node but
\* the root is left below the threshold that hysteresis sets, and a root with a
\* single child has been collapsed.
Occupancy ==
  AtRest =>
    /\ \A n \in Allocated : Cardinality(KeysOf(n)) =< Capacity(n)
    /\ \A n \in Allocated \ {root} :
         Cardinality(KeysOf(n)) >= UnderflowThreshold(n)
    /\ root \in Inner => Size(children[root]) >= 2

\* At every step, also between the split of a leaf and its promotion, the leaves
\* form one list in key order from leftmost_leaf_ to rightmost_leaf_, the same
\* in both directions: iteration meets every element once, in order.
LeafChain ==
  /\ \A l \in Leaves : prevLeaf[l] = Null <=> l = leftmostLeaf
  /\ \A l \in Leaves : nextLeaf[l] = Null <=> l = rightmostLeaf
  /\ \A l \in Leaves :
       nextLeaf[l] # Null =>
         /\ nextLeaf[l] \in Leaves
         /\ prevLeaf[nextLeaf[l]] = l
         /\ \A x \in DOMAIN data[l], y \in DOMAIN data[nextLeaf[l]] : x < y

\* size_ is the number of elements in the leaves, at every step of a call.
SizeExact == size = Cardinality(Elements)

\* leftmost_leaf_ is changed by clear() alone: a split keeps the left half where
\* it was and a merge frees the right one, so the cached begin() needs no other
\* update (the one at the end of split_leaf_and_insert never finds a new leaf).
LeftmostStays == [][leftmostLeaf' # leftmostLeaf => call.op = "clear"]_vars

----------------------------------------------------------------------------
(* Liveness. *)

\* Every call returns: no walk up or down the tree fails to end, and no step
\* fails an assertion or dereferences a null or end iterator.
EveryCallReturns == pc # "idle" ~> pc = "idle"
=============================================================================
