-------------------------- MODULE BTreeShapeProofs --------------------------
(***************************************************************************)
(* The tree keeps its types, and its shape: pointers, separators, sizes    *)
(* and the list of leaves, at every step of every call.                    *)
(***************************************************************************)
EXTENDS BTree, FiniteSetTheorems, TLAPS, Induction

(***************************************************************************)
(* The types.  TypeOK is not inductive: a function uses its arguments as   *)
(* nodes and keys, which they are only while pc is at that function.       *)
(* ArgumentsOK says when.                                                  *)
(***************************************************************************)

\* The running function has the arguments it uses.
ArgumentsOK ==
  /\ pc = "start" => call.op \in Ops
  /\ call.op \in Ops \ {"clear"} => call.key \in Key
  /\ call.op \in Inserts => call.val \in Value
  /\ pc \in {"descend", "leaf", "promote", "fix", "underflow", "parent"} => node \in Node
  /\ pc \in {"descend", "leaf", "promote", "fix"} => k \in Key
  /\ pc = "promote" => sib \in Node /\ cont \in {"fixLeft", "answer"}
  /\ pc = "fix" => cont # "fixLeft"
  /\ pc \in {"promote", "fix", "leftmost", "erase", "underflow", "parent", "next"} =>
       it.leaf \in Node
  /\ pc = "range" => it = EndIt \/ it.leaf \in Node

IInv == TypeOK /\ ArgumentsOK

\* TypeOK in three parts: the tree object, the nodes, the call.
TreeOK ==
  /\ root \in Node /\ rootIsLeaf \in BOOLEAN /\ size \in Int
  /\ leftmostLeaf \in Node /\ rightmostLeaf \in Node

HeapOK ==
  /\ kind \in [Node -> {"free", "leaf", "low", "high"}]
  /\ Maps(data, Value) /\ Maps(children, Node)
  /\ nextLeaf \in [Node -> Pointer] /\ prevLeaf \in [Node -> Pointer]
  /\ parent \in [Node -> Pointer]

CallOK ==
  /\ load \in Seq(Key \X Value) /\ callsLeft \in Int
  /\ pc \in Steps
  /\ call \in [op : Ops \cup {"none"}, key : OptKey, val : Value \cup {None},
               stop : OptKey]
  /\ node \in Pointer /\ k \in OptKey /\ sib \in Pointer /\ cont \in Conts
  /\ it \in [leaf : Pointer, idx : Int]
  /\ inNext \in BOOLEAN /\ flag \in BOOLEAN
  /\ ret \in [flag : BOOLEAN, key : OptKey, val : Value \cup {None}]

\* The parts make TypeOK.
LEMMA Parts == TypeOK <=> TreeOK /\ HeapOK /\ CallOK
BY DEF TypeOK, TreeOK, HeapOK, CallOK

\* The same of the next state.
LEMMA PartsNext == TypeOK' <=> TreeOK' /\ HeapOK' /\ CallOK'
BY DEF TypeOK, TreeOK, HeapOK, CallOK

----------------------------------------------------------------------------
(* Maps. *)

\* The default-constructed dense_map.
LEMMA EmptyIsMap == ASSUME NEW V PROVE IsMap(Empty, Key, V)
BY DEF IsMap, Empty

\* insert of a key and a value.
LEMMA InsertIsMap ==
  ASSUME NEW V, NEW m, IsMap(m, Key, V), NEW x \in Key, NEW v \in V
  PROVE  IsMap(Insert(m, x, v), Key, V)
BY DEF IsMap, Insert

\* erase, and what a split takes.
LEMMA RestrictIsMap ==
  ASSUME NEW V, NEW m, IsMap(m, Key, V), NEW S
  PROVE  IsMap(Without(m, S), Key, V) /\ IsMap(Only(m, S), Key, V)
BY DEF IsMap, Without, Only, Restrict

\* The destination of a transfer.
LEMMA JoinIsMap ==
  ASSUME NEW V, NEW m1, NEW m2, IsMap(m1, Key, V), IsMap(m2, Key, V)
  PROVE  IsMap(Join(m1, m2), Key, V)
BY DEF IsMap, Join

\* One node's map is replaced.
LEMMA ReplaceMaps ==
  ASSUME NEW V, NEW f, Maps(f, V), NEW n \in Node, NEW m, IsMap(m, Key, V)
  PROVE  Maps([f EXCEPT ![n] = m], V)
BY DEF Maps

\* Entries move from one node to another.
LEMMA MoveMaps ==
  ASSUME NEW V, NEW f, Maps(f, V), NEW src \in Node, NEW dst \in Node, NEW S
  PROVE  Maps(Move(f, src, dst, S), V)
<1>1. IsMap(f[src], Key, V) /\ IsMap(f[dst], Key, V)
  BY DEF Maps
<1>2. IsMap(Without(f[src], S), Key, V) /\ IsMap(Join(f[dst], Only(f[src], S)), Key, V)
  BY <1>1, RestrictIsMap, JoinIsMap
<1> QED
  BY <1>2 DEF Maps, Move

\* The keys of a node are finitely many.
LEMMA KeysFinite ==
  ASSUME HeapOK, NEW n \in Node
  PROVE  /\ KeysOf(n) \subseteq Key
         /\ Cardinality(KeysOf(n)) \in Nat
         /\ DOMAIN data[n] \subseteq Key /\ DOMAIN children[n] \subseteq Key
<1>1. DOMAIN data[n] \subseteq Key /\ DOMAIN children[n] \subseteq Key
  BY DEF HeapOK, Maps, IsMap
<1> QED
  BY <1>1, KeyAssumption, FS_Subset, FS_CardinalityType DEF KeysOf

\* An index is a number.
LEMMA RankNat ==
  ASSUME NEW S \in SUBSET Key, NEW x
  PROVE  Rank(S, x) \in Nat
<1>1. {t \in S : t < x} \in SUBSET Key
  OBVIOUS
<1> QED
  BY <1>1, KeyAssumption, FS_Subset, FS_CardinalityType DEF Rank

\* nullptr is no address; end() is an iterator.
LEMMA Addresses ==
  /\ Pointer = Node \cup {Null} /\ Null \notin Node
  /\ EndIt \in [leaf : Pointer, idx : Int]
BY NodeAssumption DEF Pointer, EndIt, NoIndex

----------------------------------------------------------------------------
(* The client. *)

\* A call is made with arguments it can use.
LEMMA InvokeStep ==
  ASSUME IInv, NEW c, Invoke(c), load' \in Seq(Key \X Value), callsLeft' \in Int,
         c \in [op : Ops, key : OptKey, val : Value \cup {None}, stop : OptKey],
         c.op # "clear" => c.key \in Key,
         c.op \in Inserts => c.val \in Value
  PROVE  IInv'
<1> USE Parts, PartsNext, Addresses
<1>1. TreeOK' /\ HeapOK'
  BY DEF IInv, TreeOK, HeapOK, Invoke, tree, heap, chain
<1>2. CallOK' /\ ArgumentsOK'
  BY DEF IInv, CallOK, ArgumentsOK, Invoke, Steps, args, Inserts, Ops
<1> QED
  BY <1>1, <1>2 DEF IInv

\* The range constructor inserts pairs of keys and values.
LEMMA LoadStep == ASSUME IInv, Load PROVE IInv'
<1>1. load \in Seq(Key \X Value) /\ load # <<>> /\ callsLeft \in Int
  BY DEF IInv, TypeOK, Load
<1>2. Head(load)[1] \in Key /\ Head(load)[2] \in Value /\ Tail(load) \in Seq(Key \X Value)
  BY <1>1
<1> QED
  BY <1>1, <1>2, InvokeStep DEF Load, Request, Ops, Inserts, OptKey

\* The client calls with keys, values and elements of the tree.
LEMMA ClientStep == ASSUME IInv, Client PROVE IInv'
<1>1. PICK c \in Requests : Invoke(c)
  BY DEF Client
<1>2. Elements \subseteq Key
  BY Parts, KeysFinite DEF IInv, Elements
<1>3. /\ c \in [op : Ops, key : OptKey, val : Value \cup {None}, stop : OptKey]
      /\ c.op # "clear" => c.key \in Key
      /\ c.op \in Inserts => c.val \in Value
  BY <1>2, CallAssumption DEF Requests, Request, Ops, Inserts, Lookups, OptKey
<1>4. load' \in Seq(Key \X Value) /\ callsLeft' \in Int
  BY DEF IInv, TypeOK, Client
<1> QED
  BY <1>1, <1>3, <1>4, InvokeStep

----------------------------------------------------------------------------
(* The start of a call and its way to a leaf. *)

\* A lookup on the empty tree answers end().
LEMMA StartOnEmptyStep == ASSUME IInv, StartOnEmpty PROVE IInv'
<1> USE Parts, PartsNext, Addresses
<1>1. TreeOK' /\ HeapOK'
  BY DEF IInv, TreeOK, HeapOK, StartOnEmpty, Start, tree, heap, chain
<1>2. CallOK' /\ ArgumentsOK'
  BY DEF IInv, CallOK, ArgumentsOK, StartOnEmpty, Start, Steps, args, client
<1> QED
  BY <1>1, <1>2 DEF IInv

\* The search starts at the root.
LEMMA StartSearchStep == ASSUME IInv, StartSearch PROVE IInv'
<1> USE Parts, PartsNext, Addresses
<1>1. TreeOK' /\ HeapOK'
  BY DEF IInv, TreeOK, HeapOK, StartSearch, Start, FindLeaf, tree, heap, chain
<1>2. CallOK' /\ ArgumentsOK'
  BY DEF IInv, CallOK, ArgumentsOK, StartSearch, Start, FindLeaf, TreeOK, Steps,
         Inserts, Ops, client
<1> QED
  BY <1>1, <1>2 DEF IInv

\* clear of a tree that is one leaf.
LEMMA ClearLeafStep == ASSUME IInv, ClearLeaf PROVE IInv'
<1> USE Parts, PartsNext, Addresses
<1>1. Maps(data', Value)
  BY EmptyIsMap, ReplaceMaps DEF IInv, TreeOK, HeapOK, ClearLeaf
<1>2. TreeOK' /\ HeapOK'
  BY <1>1 DEF IInv, TreeOK, HeapOK, ClearLeaf, Clear, chain
<1>3. CallOK' /\ ArgumentsOK'
  BY DEF IInv, CallOK, ArgumentsOK, ClearLeaf, Clear, Start, Steps, args, client
<1> QED
  BY <1>2, <1>3 DEF IInv

\* clear frees the tree and allocates a leaf.
LEMMA ClearTreeStep == ASSUME IInv, ClearTree PROVE IInv'
<1> USE Parts, PartsNext, Addresses
<1> DEFINE gone == Subtree(root)
           blank(f, v) == [n \in Node |-> IF n \in gone THEN v ELSE f[n]]
<1>1. PICK new \in OneOf(Free \cup gone) :
        /\ kind' = [blank(kind, "free") EXCEPT ![new] = "leaf"]
        /\ EmptyLeafRoot(new)
  BY DEF ClearTree
<1>2. new \in Node
  BY DEF OneOf, Free, Subtree
<1>3. /\ data' = blank(data, Empty) /\ children' = blank(children, Empty)
      /\ nextLeaf' = blank(nextLeaf, Null) /\ prevLeaf' = blank(prevLeaf, Null)
      /\ parent' = blank(parent, Null)
  BY DEF ClearTree
<1> HIDE DEF gone
<1>4. HeapOK'
  <2>1. Maps(data', Value)
    BY <1>3, EmptyIsMap DEF IInv, HeapOK, Maps
  <2>2. Maps(children', Node)
    BY <1>3, EmptyIsMap DEF IInv, HeapOK, Maps
  <2> QED
    BY <2>1, <2>2, <1>1, <1>2, <1>3 DEF IInv, HeapOK
<1>5. TreeOK'
  BY <1>1, <1>2 DEF TreeOK, EmptyLeafRoot, ClearTree, Clear
<1>6. CallOK' /\ ArgumentsOK'
  BY DEF IInv, CallOK, ArgumentsOK, ClearTree, Clear, Start, Steps, args, client
<1> QED
  BY <1>4, <1>5, <1>6 DEF IInv

\* A child of an internal node is a node.
LEMMA DescendStep == ASSUME IInv, Descend PROVE IInv'
<1> USE Parts, PartsNext, Addresses
<1>1. node \in Node
  BY DEF IInv, ArgumentsOK, Descend
<1>2. node' \in Node
  BY <1>1 DEF IInv, HeapOK, Maps, IsMap, Descend, Floor, First
<1>3. TreeOK' /\ HeapOK'
  BY DEF IInv, TreeOK, HeapOK, Descend, tree, heap, chain
<1>4. CallOK' /\ ArgumentsOK'
  BY <1>2 DEF IInv, CallOK, ArgumentsOK, Descend, Steps, client
<1> QED
  BY <1>3, <1>4 DEF IInv

----------------------------------------------------------------------------
(* At the leaf. *)

\* A lookup ends at an index of this leaf, at the next leaf or at end().
LEMMA LookupStep == ASSUME IInv, Lookup PROVE IInv'
<1> USE Parts, PartsNext, Addresses
<1>0. node \in Node /\ k \in Key
  BY DEF IInv, ArgumentsOK, Lookup, AtLeaf
<1>1. DOMAIN data[node] \subseteq Key
  BY <1>0, KeysFinite DEF IInv
<1>2. Rank(DOMAIN data[node], k) \in Int
  BY <1>1, RankNat
<1>3. ASSUME NEW i \in Int
      PROVE  Resolve(node, i) = EndIt \/ Resolve(node, i) \in [leaf : Node, idx : Int]
  BY <1>0 DEF Resolve, IInv, HeapOK
<1>4. TreeOK' /\ HeapOK'
  BY DEF IInv, TreeOK, HeapOK, Lookup, tree, heap, chain
<1>5. /\ it' = EndIt \/ it' \in [leaf : Node, idx : Int]
      /\ pc' \in {"answer", "erase", "range"}
      /\ pc' = "erase" => it'.leaf \in Node
  <2>1. Rank(DOMAIN data[node], k) + (IF k \in DOMAIN data[node] THEN 1 ELSE 0) \in Int
    BY <1>2
  <2> DEFINE i == Rank(DOMAIN data[node], k)
             j == Rank(DOMAIN data[node], k) + (IF k \in DOMAIN data[node] THEN 1 ELSE 0)
  <2>2. /\ Resolve(node, i) = EndIt \/ Resolve(node, i) \in [leaf : Node, idx : Int]
        /\ Resolve(node, j) = EndIt \/ Resolve(node, j) \in [leaf : Node, idx : Int]
    BY <1>2, <1>3, <2>1
  <2>3. \/ /\ it' = (IF k \in DOMAIN data[node] THEN [leaf |-> node, idx |-> i] ELSE EndIt)
           /\ pc' \in {"answer", "erase"} /\ (pc' = "erase" => k \in DOMAIN data[node])
        \/ it' \in {Resolve(node, i), Resolve(node, j)} /\ pc' \in {"answer", "range"}
    BY DEF Lookup
  <2> HIDE DEF j
  <2> QED
    BY <1>0, <1>2, <2>2, <2>3
<1>6. flag' \in BOOLEAN
  <2>1. flag' = flag \/ flag' = (k \in DOMAIN data[node])
    BY Zenon DEF Lookup
  <2>2. (k \in DOMAIN data[node]) \in BOOLEAN
    BY SMT
  <2>3. CASE flag' = (k \in DOMAIN data[node])
    BY <2>2, <2>3, SMT
  <2>4. CASE flag' = flag
    BY <2>4 DEF IInv, CallOK
  <2> QED
    BY <2>1, <2>3, <2>4, Zenon
<1>7. CallOK' /\ ArgumentsOK'
  BY <1>5, <1>6 DEF IInv, CallOK, ArgumentsOK, Lookup, AtLeaf, Steps, args, client
<1> QED
  BY <1>4, <1>7 DEF IInv

\* A value may be assigned.
LEMMA InsertExistingStep == ASSUME IInv, InsertExisting PROVE IInv'
<1> USE Parts, PartsNext, Addresses
<1>1. node \in Node /\ k \in Key /\ call.val \in Value
  BY DEF IInv, ArgumentsOK, InsertExisting, AtLeaf
<1>2. IsMap(Insert(data[node], k, call.val), Key, Value)
  BY <1>1, InsertIsMap DEF IInv, HeapOK, Maps
<1>3. Maps(data', Value)
  BY <1>1, <1>2, ReplaceMaps DEF IInv, HeapOK, InsertExisting
<1>4. TreeOK' /\ HeapOK'
  BY <1>3 DEF IInv, TreeOK, HeapOK, InsertExisting, tree, chain
<1>5. Rank(DOMAIN data[node], k) \in Int
  BY <1>1, KeysFinite, RankNat DEF IInv
<1>6. CallOK' /\ ArgumentsOK'
  BY <1>1, <1>5 DEF IInv, CallOK, ArgumentsOK, InsertExisting, AtLeaf, Steps, Conts, args, client
<1> QED
  BY <1>4, <1>6 DEF IInv

\* An element is added to a leaf.
LEMMA InsertRoomStep == ASSUME IInv, InsertRoom PROVE IInv'
<1> USE Parts, PartsNext, Addresses
<1>1. node \in Node /\ k \in Key /\ call.val \in Value
  BY DEF IInv, ArgumentsOK, InsertRoom, AtLeaf
<1>2. IsMap(Insert(data[node], k, call.val), Key, Value)
  BY <1>1, InsertIsMap DEF IInv, HeapOK, Maps
<1>3. Maps(data', Value)
  BY <1>1, <1>2, ReplaceMaps DEF IInv, HeapOK, InsertRoom
<1>4. TreeOK' /\ HeapOK'
  BY <1>3 DEF IInv, TreeOK, HeapOK, InsertRoom, tree, chain
<1>5. Rank(DOMAIN data[node], k) \in Int
  BY <1>1, KeysFinite, RankNat DEF IInv
<1>6. CallOK' /\ ArgumentsOK'
  BY <1>1, <1>5 DEF IInv, CallOK, ArgumentsOK, InsertRoom, AtLeaf, Steps, Conts, args, client
<1> QED
  BY <1>4, <1>6 DEF IInv

\* A leaf splits and takes the new element.
LEMMA SplitLeafStep == ASSUME IInv, SplitLeaf PROVE IInv'
<1> USE Parts, PartsNext, Addresses
<1>0. node \in Node /\ k \in Key /\ call.val \in Value
  BY DEF IInv, ArgumentsOK, SplitLeaf, AtLeaf
<1> DEFINE S  == DOMAIN data[node]
           hi == S \ LowestN(S, (LeafNodeSize + 1) \div 2)
<1>1. PICK new \in OneOf(Free), promoted \in First(hi) :
        LET target == IF k < promoted THEN node ELSE new
            split  == Move(data, node, new, hi)
        IN  /\ kind' = [kind EXCEPT ![new] = "leaf"]
            /\ data' = [split EXCEPT ![target] = Insert(split[target], k, call.val)]
            /\ LinkAfter(node, new)
            /\ it' = [leaf |-> target, idx |-> Rank(DOMAIN split[target], k)]
            /\ sib' = new
            /\ k' = promoted
            /\ cont' = IF target = node THEN "fixLeft" ELSE "answer"
  BY DEF SplitLeaf
<1>2. new \in Node /\ promoted \in Key
  BY <1>0, <1>1, KeysFinite DEF OneOf, Free, First, IInv
<1> DEFINE target == IF k < promoted THEN node ELSE new
           split  == Move(data, node, new, hi)
<1>3. Maps(split, Value) /\ target \in Node
  BY <1>0, <1>2, MoveMaps DEF IInv, HeapOK
<1>4. IsMap(Insert(split[target], k, call.val), Key, Value)
  BY <1>0, <1>3, InsertIsMap DEF Maps
<1>5. DOMAIN split[target] \in SUBSET Key
  BY <1>3 DEF Maps, IsMap
<1>6. /\ kind' = [kind EXCEPT ![new] = "leaf"]
      /\ data' = [split EXCEPT ![target] = Insert(split[target], k, call.val)]
      /\ LinkAfter(node, new)
      /\ it' = [leaf |-> target, idx |-> Rank(DOMAIN split[target], k)]
      /\ sib' = new /\ k' = promoted /\ cont' \in {"fixLeft", "answer"}
  BY <1>1
<1> HIDE DEF split, target
<1>7. Rank(DOMAIN split[target], k) \in Int
  BY <1>5, RankNat
<1>8. HeapOK'
  <2>1. Maps(data', Value)
    BY <1>3, <1>4, <1>6, ReplaceMaps
  <2> QED
    BY <2>1, <1>0, <1>2, <1>6 DEF IInv, HeapOK, SplitLeaf, AtLeaf, LinkAfter
<1>9. TreeOK'
  BY <1>2, <1>6 DEF IInv, TreeOK, SplitLeaf, LinkAfter
<1>10. CallOK' /\ ArgumentsOK'
  BY <1>0, <1>2, <1>3, <1>6, <1>7
     DEF IInv, CallOK, ArgumentsOK, SplitLeaf, AtLeaf, Steps, Conts, OptKey, client
<1> QED
  BY <1>8, <1>9, <1>10 DEF IInv

----------------------------------------------------------------------------
(* insert_into_parent, update_parent_key_recursive. *)

\* Where insert_into_parent returns to.
LEMMA AfterPromoteStep ==
  ASSUME IInv, Promote, AfterPromote
  PROVE  CallOK' /\ ArgumentsOK'
<1> USE Parts, Addresses
<1>1. it.leaf \in Node /\ DOMAIN data[it.leaf] \subseteq Key
  BY KeysFinite DEF IInv, ArgumentsOK, Promote
<1>2. CASE cont = "fixLeft"
  BY <1>1, <1>2 DEF IInv, CallOK, ArgumentsOK, Promote, AfterPromote, First, Steps, Conts,
                    OptKey, client
<1>3. CASE cont = "answer"
  BY <1>3 DEF IInv, CallOK, ArgumentsOK, Promote, AfterPromote, Steps, args, client
<1> QED
  BY <1>2, <1>3 DEF AfterPromote

\* Moved children get a node as their parent.
LEMMA ReparentType ==
  ASSUME HeapOK, NEW S, NEW m \in Node, NEW n \in Node
  PROVE  Reparent(S, m, n) \in [Node -> Pointer]
BY Addresses DEF HeapOK, Reparent

\* The tree grows by a level.
LEMMA PromoteNewRootStep == ASSUME IInv, PromoteNewRoot PROVE IInv'
<1> USE Parts, PartsNext, Addresses
<1>0. node \in Node /\ k \in Key /\ sib \in Node
  BY DEF IInv, ArgumentsOK, PromoteNewRoot, Promote
<1>1. PICK r \in OneOf(Free), x \in First(KeysOf(node)) :
        /\ kind' = [kind EXCEPT ![r] = IF IsLeaf(node) THEN "low" ELSE "high"]
        /\ children' = [children EXCEPT ![r] = Insert(Insert(children[r], x, node), k, sib)]
        /\ parent' = [parent EXCEPT ![node] = r, ![sib] = r]
        /\ root' = r
  BY DEF PromoteNewRoot
<1>2. r \in Node /\ x \in Key
  BY <1>0, KeysFinite DEF IInv, OneOf, Free, First
<1>3. IsMap(Insert(children[r], x, node), Key, Node)
  BY <1>0, <1>2, InsertIsMap DEF IInv, HeapOK, Maps
<1>4. IsMap(Insert(Insert(children[r], x, node), k, sib), Key, Node)
  BY <1>0, <1>3, InsertIsMap
<1>5. Maps(children', Node)
  BY <1>1, <1>2, <1>4, ReplaceMaps DEF IInv, HeapOK
<1>6. HeapOK'
  BY <1>0, <1>1, <1>2, <1>5 DEF IInv, HeapOK, PromoteNewRoot, Promote, chain
<1>7. TreeOK'
  BY <1>1, <1>2 DEF IInv, TreeOK, PromoteNewRoot, Promote
<1> QED
  BY <1>6, <1>7, AfterPromoteStep DEF IInv, PromoteNewRoot

\* The parent has room for the new child.
LEMMA PromoteRoomStep == ASSUME IInv, PromoteRoom PROVE IInv'
<1> USE Parts, PartsNext, Addresses
<1> DEFINE p == parent[node]
<1>0. node \in Node /\ k \in Key /\ sib \in Node /\ p \in Node
  BY DEF IInv, ArgumentsOK, PromoteRoom, Promote, HeapOK
<1>1. /\ children' = [children EXCEPT ![p] = Insert(children[p], k, sib)]
      /\ parent' = [parent EXCEPT ![sib] = p]
  BY DEF PromoteRoom
<1>2. IsMap(Insert(children[p], k, sib), Key, Node)
  BY <1>0, InsertIsMap DEF IInv, HeapOK, Maps
<1>3. Maps(children', Node)
  BY <1>0, <1>1, <1>2, ReplaceMaps DEF IInv, HeapOK
<1>4. HeapOK'
  BY <1>0, <1>1, <1>3 DEF IInv, HeapOK, PromoteRoom, Promote, chain
<1>5. TreeOK'
  BY DEF IInv, TreeOK, PromoteRoom, Promote
<1> QED
  BY <1>4, <1>5, AfterPromoteStep DEF IInv, PromoteRoom

\* The parent splits, and the call goes on one level up.
LEMMA PromoteSplitStep == ASSUME IInv, PromoteSplit PROVE IInv'
<1> USE Parts, PartsNext, Addresses
<1> DEFINE p  == parent[node]
           S  == DOMAIN children[p]
           hi == S \ LowestN(S, (InternalNodeSize + 1) \div 2)
<1>0. node \in Node /\ k \in Key /\ sib \in Node /\ p \in Node
  BY DEF IInv, ArgumentsOK, PromoteSplit, Promote, HeapOK
<1>1. PICK q \in OneOf(Free), promoted \in First(hi) :
        LET target == IF k < promoted THEN p ELSE q
            split  == Move(children, p, q, hi)
        IN  /\ kind' = [kind EXCEPT ![q] = kind[p]]
            /\ children' = [split EXCEPT ![target] = Insert(split[target], k, sib)]
            /\ parent' = [Reparent(hi, p, q) EXCEPT ![sib] = target]
            /\ sib' = q
            /\ k' = promoted
  BY DEF PromoteSplit
<1>2. q \in Node /\ promoted \in Key
  BY <1>0, KeysFinite DEF OneOf, Free, First, IInv
<1> DEFINE target == IF k < promoted THEN p ELSE q
           split  == Move(children, p, q, hi)
<1>3. Maps(split, Node) /\ target \in Node /\ Reparent(hi, p, q) \in [Node -> Pointer]
  BY <1>0, <1>2, MoveMaps, ReparentType DEF IInv, HeapOK
<1>4. IsMap(Insert(split[target], k, sib), Key, Node)
  BY <1>0, <1>3, InsertIsMap DEF Maps
<1>5. /\ children' = [split EXCEPT ![target] = Insert(split[target], k, sib)]
      /\ parent' = [Reparent(hi, p, q) EXCEPT ![sib] = target]
      /\ kind' = [kind EXCEPT ![q] = kind[p]]
      /\ sib' = q /\ k' = promoted /\ node' = p
  BY <1>1 DEF PromoteSplit
<1> HIDE DEF split, target, hi
<1>6. Maps(children', Node)
  BY <1>3, <1>4, <1>5, ReplaceMaps
<1>7. HeapOK'
  BY <1>0, <1>2, <1>3, <1>5, <1>6 DEF IInv, HeapOK, PromoteSplit, Promote, chain
<1>8. TreeOK'
  BY DEF IInv, TreeOK, PromoteSplit, Promote
<1>9. CallOK' /\ ArgumentsOK'
  BY <1>0, <1>2, <1>5 DEF IInv, CallOK, ArgumentsOK, PromoteSplit, Promote, Steps, OptKey,
                          client
<1> QED
  BY <1>7, <1>8, <1>9 DEF IInv

\* A separator is replaced, and the call goes up or returns to the leaf.
LEMMA FixSeparatorStep == ASSUME IInv, FixSeparator PROVE IInv'
<1> USE Parts, PartsNext, Addresses
<1> DEFINE p     == parent[node]
           slots == SlotsOf(node, k)
<1>0. node \in Node /\ k \in Key /\ it.leaf \in Node /\ p \in Node /\ cont # "fixLeft"
  BY DEF IInv, ArgumentsOK, FixSeparator, Fix, HeapOK
<1>1. children' = IF slots = {} THEN children
                  ELSE [children EXCEPT ![p] = Insert(Without(children[p], slots), k, node)]
  BY DEF FixSeparator
<1> HIDE DEF slots
<1>2. IsMap(Insert(Without(children[p], slots), k, node), Key, Node)
  BY <1>0, RestrictIsMap, InsertIsMap DEF IInv, HeapOK, Maps
<1>3. Maps(children', Node)
  BY <1>0, <1>1, <1>2, ReplaceMaps DEF IInv, HeapOK
<1>4. HeapOK'
  BY <1>3 DEF IInv, HeapOK, FixSeparator, Fix, chain
<1>5. TreeOK'
  BY DEF IInv, TreeOK, FixSeparator, Fix, tree
<1>6. \/ node' = p /\ pc' = "fix"
      \/ node' = it.leaf /\ pc' = cont
  BY DEF FixSeparator, Fix, FixReturns
<1>7. CallOK' /\ ArgumentsOK'
  BY <1>0, <1>6 DEF IInv, CallOK, ArgumentsOK, FixSeparator, Fix, Steps, Conts, client
<1> QED
  BY <1>4, <1>5, <1>7 DEF IInv

\* leftmost_leaf_ can become the leaf of the new element.
LEMMA UpdateLeftmostStep == ASSUME IInv, UpdateLeftmost PROVE IInv'
<1> USE Parts, PartsNext, Addresses
<1>1. TreeOK' /\ HeapOK'
  BY DEF IInv, TreeOK, HeapOK, UpdateLeftmost, ArgumentsOK, heap, chain
<1>2. CallOK' /\ ArgumentsOK'
  BY DEF IInv, CallOK, ArgumentsOK, UpdateLeftmost, Steps, args, client
<1> QED
  BY <1>1, <1>2 DEF IInv

----------------------------------------------------------------------------
(* erase. *)

\* erase takes an element out of a leaf.
LEMMA EraseTypes ==
  ASSUME IInv, NEW x, Erase(x), it.leaf \in Node
  PROVE  HeapOK' /\ TreeOK'
<1>1. IsMap(Without(data[it.leaf], {x}), Key, Value)
  BY Parts, RestrictIsMap DEF IInv, HeapOK, Maps
<1>2. Maps(data', Value)
  BY <1>1, Parts, ReplaceMaps DEF IInv, HeapOK, Erase
<1> QED
  BY <1>2, Parts DEF IInv, HeapOK, TreeOK, Erase, chain

\* erase from a root leaf.
LEMMA EraseFromRootStep == ASSUME IInv, EraseFromRoot PROVE IInv'
<1> USE Parts, PartsNext, Addresses
<1>1. it.leaf \in Node
  BY DEF IInv, ArgumentsOK, EraseFromRoot
<1>2. PICK x : Erase(x)
  BY DEF EraseFromRoot
<1>3. CallOK' /\ ArgumentsOK'
  BY <1>1, <1>2 DEF IInv, CallOK, ArgumentsOK, EraseFromRoot, Erase, EraseReturns, Steps, client
<1> QED
  BY <1>1, <1>2, <1>3, EraseTypes DEF IInv

\* erase from another leaf, which remembers where the next element is.
LEMMA EraseFromLeafStep == ASSUME IInv, EraseFromLeaf PROVE IInv'
<1> USE Parts, PartsNext, Addresses
<1> DEFINE l == it.leaf
<1>1. l \in Node /\ DOMAIN data[l] \subseteq Key
  BY KeysFinite DEF IInv, ArgumentsOK, EraseFromLeaf
<1>2. PICK x \in DOMAIN data[l], after \in {"underflow", "next"}, newMin \in BOOLEAN,
           rebalance \in BOOLEAN :
        /\ Erase(x)
        /\ it' = [leaf |-> l, idx |-> IF it.idx < Size(data[l]) - 1 THEN it.idx ELSE NoIndex]
        /\ inNext' = (rebalance /\ it.idx >= Size(data[l]) - 1 /\ nextLeaf[l] # Null)
        /\ node' = l
        /\ k' \in IF newMin THEN First(DOMAIN data[l] \ {x}) ELSE {k}
        /\ pc' = IF newMin THEN "fix" ELSE after
        /\ cont' = after
  BY DEF EraseFromLeaf, ChangesMin
<1>3. CallOK' /\ ArgumentsOK'
  BY <1>1, <1>2 DEF IInv, CallOK, ArgumentsOK, Erase, First, Steps, Conts, OptKey, NoIndex,
                    client
<1> QED
  BY <1>1, <1>2, <1>3, EraseTypes DEF IInv

----------------------------------------------------------------------------
(* handle_underflow. *)

\* The siblings that find_left_sibling and find_right_sibling return are nodes.
LEMMA SiblingTypes ==
  ASSUME HeapOK, NEW n \in Node, parent[n] # Null
  PROVE  LeftSibling(n) \subseteq Node /\ RightSibling(n) \subseteq Node
<1> DEFINE c == children[parent[n]]
<1>1. parent[n] \in Node
  BY Addresses DEF HeapOK
<1>2. \A t \in DOMAIN c : c[t] \in Node
  BY <1>1 DEF HeapOK, Maps, IsMap
<1>3. ASSUME NEW s
      PROVE  Floor(DOMAIN c, s) \subseteq DOMAIN c /\ Above(DOMAIN c, s) \subseteq DOMAIN c
  BY DEF Floor, Above
<1> QED
  BY <1>2, <1>3 DEF LeftSibling, RightSibling

\* Entries move between siblings.
LEMMA BorrowTypes ==
  ASSUME IInv, NEW m \in Node, NEW n \in Node, NEW S, Borrow(m, n, S)
  PROVE  HeapOK' /\ TreeOK'
<1> USE Parts, PartsNext, Addresses
<1>1. HeapOK /\ TreeOK
  BY DEF IInv
<1>2. Maps(data', Value) /\ Maps(children', Node)
  BY <1>1, MoveMaps DEF Borrow, HeapOK
<1>3. parent' \in [Node -> Pointer]
  BY <1>1, ReparentType DEF Borrow
<1> QED
  BY <1>1, <1>2, <1>3 DEF HeapOK, TreeOK, Borrow, tree, chain

\* The index of the element after the erased one stays a number.
LEMMA IndexTypes ==
  ASSUME IInv, NEW n \in Node
  PROVE  /\ \A i \in Int : Shifted(i) \in Int
         /\ (IF inNext THEN Cardinality(KeysOf(n)) ELSE it.idx) \in Int
<1>1. it.idx \in Int /\ Cardinality(KeysOf(n)) \in Int
  BY Parts, KeysFinite DEF IInv, CallOK
<1> QED
  BY <1>1 DEF Shifted, NoIndex

\* The number of entries to borrow is a number.
LEMMA CountType ==
  ASSUME HeapOK, NEW n \in Node, NEW m \in Node
  PROVE  BorrowCount(n, m) \in Int
<1>1. Cardinality(KeysOf(m)) \in Int
  BY KeysFinite
<1>2. MinSize(n) \in Int /\ Hysteresis(n) \in Int
  BY SizeAssumption DEF MinSize, Hysteresis, Capacity
<1> QED
  BY <1>1, <1>2 DEF BorrowCount

\* handle_underflow, first choice.
LEMMA BorrowFromLeftStep == ASSUME IInv, BorrowFromLeft PROVE IInv'
<1> USE Parts, PartsNext, Addresses
<1>0. node \in Node /\ it.leaf \in Node /\ parent[node] # Null
  BY DEF IInv, ArgumentsOK, BorrowFromLeft, Underflow
<1>1. PICK left \in LeftSibling(node) :
        LET n     == BorrowCount(node, left)
            moved == HighestN(KeysOf(left), n)
        IN  /\ Borrow(left, node, moved)
            /\ k' \in First(moved)
            /\ Track(node, Shifted(n))
  BY DEF BorrowFromLeft
<1>2. left \in Node
  BY <1>0, SiblingTypes DEF IInv
<1>3. BorrowCount(node, left) \in Int /\ KeysOf(left) \subseteq Key
  BY <1>0, <1>2, CountType, KeysFinite DEF IInv
<1>4. it' \in [leaf : Node, idx : Int]
  BY <1>0, <1>1, <1>3, IndexTypes DEF Track, IInv, CallOK
<1>5. k' \in Key
  BY <1>1, <1>3 DEF First, HighestN
<1>6. HeapOK' /\ TreeOK'
  BY <1>0, <1>1, <1>2, BorrowTypes
<1>7. pc' = "fix" /\ cont' = "next" /\ UNCHANGED node
  BY <1>1 DEF Borrow, BorrowFromLeft
<1>8. CallOK' /\ ArgumentsOK'
  BY <1>0, <1>4, <1>5, <1>7
     DEF IInv, CallOK, ArgumentsOK, BorrowFromLeft, Underflow, Steps, Conts, OptKey, client
<1> QED
  BY <1>6, <1>8 DEF IInv

\* handle_underflow, second choice.
LEMMA BorrowFromRightStep == ASSUME IInv, BorrowFromRight PROVE IInv'
<1> USE Parts, PartsNext, Addresses
<1>0. node \in Node /\ it.leaf \in Node /\ parent[node] # Null
  BY DEF IInv, ArgumentsOK, BorrowFromRight, Underflow
<1>1. PICK right \in RightSibling(node) :
        LET moved == LowestN(KeysOf(right), BorrowCount(node, right))
        IN  /\ Borrow(right, node, moved)
            /\ k' \in First(KeysOf(right) \ moved)
            /\ Track(node, IF inNext THEN Cardinality(KeysOf(node)) ELSE it.idx)
            /\ node' = right
  BY DEF BorrowFromRight
<1>2. right \in Node
  BY <1>0, SiblingTypes DEF IInv
<1>3. KeysOf(right) \subseteq Key
  BY <1>2, KeysFinite DEF IInv
<1>4. it' \in [leaf : Node, idx : Int]
  BY <1>0, <1>1, IndexTypes DEF Track, IInv, CallOK
<1>5. k' \in Key
  BY <1>1, <1>3 DEF First
<1>6. HeapOK' /\ TreeOK'
  BY <1>0, <1>1, <1>2, BorrowTypes
<1>7. pc' = "fix" /\ cont' = "next" /\ node' = right
  BY <1>1 DEF Borrow
<1>8. CallOK' /\ ArgumentsOK'
  BY <1>0, <1>2, <1>4, <1>5, <1>7
     DEF IInv, CallOK, ArgumentsOK, BorrowFromRight, Underflow, Steps, Conts, OptKey, client
<1> QED
  BY <1>6, <1>8 DEF IInv

\* A merge moves all entries and frees a node.
LEMMA MergeTypes ==
  ASSUME IInv, NEW dst \in Node, NEW from \in Node, node \in Node, parent[node] # Null,
         Merge(dst, from), UNCHANGED size
  PROVE  /\ HeapOK' /\ TreeOK'
         /\ node' \in Node /\ pc' = "parent" /\ UNCHANGED <<k, cont>>
<1> USE Parts, PartsNext, Addresses
<1> DEFINE p == parent[node]
           S == KeysOf(from)
<1>1. HeapOK /\ TreeOK /\ p \in Node
  BY DEF IInv, HeapOK
<1>2. PICK x \in First(S) :
        /\ data' = IF IsLeaf(dst) THEN Move(data, from, dst, S) ELSE data
        /\ children' = [IF IsLeaf(dst) THEN children ELSE Move(children, from, dst, S)
                          EXCEPT ![p] = Without(@, {x})]
        /\ parent' = [Reparent(S, from, dst) EXCEPT ![from] = Null]
        /\ kind' = [kind EXCEPT ![from] = "free"]
        /\ IF IsLeaf(dst) THEN Unlink(dst, from) ELSE UNCHANGED <<chain, rightmostLeaf>>
        /\ node' = p /\ pc' = "parent"
        /\ UNCHANGED <<root, rootIsLeaf, leftmostLeaf, k, cont>>
  BY DEF Merge
<1>3. Maps(data', Value)
  BY <1>1, <1>2, MoveMaps DEF HeapOK
<1>4. Maps(children', Node)
  <2> DEFINE g == IF IsLeaf(dst) THEN children ELSE Move(children, from, dst, S)
  <2>1. Maps(g, Node)
    BY <1>1, MoveMaps DEF HeapOK
  <2>2. IsMap(Without(g[p], {x}), Key, Node)
    BY <1>1, <2>1, RestrictIsMap DEF Maps
  <2>3. children' = [g EXCEPT ![p] = Without(g[p], {x})]
    BY <1>2
  <2> HIDE DEF g
  <2> QED
    BY <1>1, <2>1, <2>2, <2>3, ReplaceMaps
<1>5. parent' \in [Node -> Pointer]
  BY <1>1, <1>2, ReparentType
<1>6. nextLeaf' \in [Node -> Pointer] /\ prevLeaf' \in [Node -> Pointer] /\ rightmostLeaf' \in Node
  BY <1>1, <1>2 DEF HeapOK, TreeOK, Unlink, chain
<1>7. HeapOK'
  BY <1>1, <1>2, <1>3, <1>4, <1>5, <1>6 DEF HeapOK
<1>8. TreeOK'
  BY <1>1, <1>2, <1>6 DEF TreeOK
<1> QED
  BY <1>1, <1>2, <1>7, <1>8

\* handle_underflow, third choice.
LEMMA MergeWithLeftStep == ASSUME IInv, MergeWithLeft PROVE IInv'
<1> USE Parts, PartsNext, Addresses
<1>0. node \in Node /\ it.leaf \in Node /\ parent[node] # Null /\ UNCHANGED size
  BY DEF IInv, ArgumentsOK, MergeWithLeft, MustMerge, Underflow
<1>1. PICK left \in LeftSibling(node) :
        /\ Merge(left, node)
        /\ Track(left, Shifted(Cardinality(KeysOf(left))))
  BY DEF MergeWithLeft
<1>2. left \in Node
  BY <1>0, SiblingTypes DEF IInv
<1>3. Cardinality(KeysOf(left)) \in Int
  BY <1>2, KeysFinite DEF IInv
<1>4. it' \in [leaf : Node, idx : Int]
  BY <1>0, <1>1, <1>2, <1>3, IndexTypes DEF Track, IInv, CallOK
<1>5. /\ HeapOK' /\ TreeOK'
      /\ node' \in Node /\ pc' = "parent" /\ UNCHANGED <<k, cont>>
  BY <1>0, <1>1, <1>2, MergeTypes
<1>6. CallOK' /\ ArgumentsOK'
  BY <1>4, <1>5
     DEF IInv, CallOK, ArgumentsOK, MergeWithLeft, MustMerge, Underflow, Steps, client
<1> QED
  BY <1>5, <1>6 DEF IInv

\* handle_underflow, last choice.
LEMMA MergeWithRightStep == ASSUME IInv, MergeWithRight PROVE IInv'
<1> USE Parts, PartsNext, Addresses
<1>0. node \in Node /\ it.leaf \in Node /\ parent[node] # Null /\ UNCHANGED size
  BY DEF IInv, ArgumentsOK, MergeWithRight, MustMerge, Underflow
<1>1. PICK right \in RightSibling(node) : Merge(node, right)
  BY DEF MergeWithRight
<1>2. right \in Node
  BY <1>0, SiblingTypes DEF IInv
<1>4. it' \in [leaf : Node, idx : Int]
  BY <1>0, IndexTypes DEF MergeWithRight, Track, IInv, CallOK
<1>5. /\ HeapOK' /\ TreeOK'
      /\ node' \in Node /\ pc' = "parent" /\ UNCHANGED <<k, cont>>
  BY <1>0, <1>1, <1>2, MergeTypes
<1>6. CallOK' /\ ArgumentsOK'
  BY <1>4, <1>5
     DEF IInv, CallOK, ArgumentsOK, MergeWithRight, MustMerge, Underflow, Steps, client
<1> QED
  BY <1>5, <1>6 DEF IInv

----------------------------------------------------------------------------
(* handle_parent_after_merge. *)

\* The parent has too few children left.
LEMMA ParentUnderflowsStep == ASSUME IInv, ParentUnderflows PROVE IInv'
<1> USE Parts, PartsNext, Addresses
<1>1. TreeOK' /\ HeapOK'
  BY DEF IInv, TreeOK, HeapOK, ParentUnderflows, AfterMerge, chain
<1>2. CallOK' /\ ArgumentsOK'
  BY DEF IInv, CallOK, ArgumentsOK, ParentUnderflows, AfterMerge, Steps, client
<1> QED
  BY <1>1, <1>2 DEF IInv

\* The root's only child becomes the root.
LEMMA CollapseRootStep == ASSUME IInv, CollapseRoot PROVE IInv'
<1> USE Parts, PartsNext, Addresses
<1>0. node \in Node
  BY DEF IInv, ArgumentsOK, CollapseRoot, AfterMerge
<1>1. PICK heir \in Kids(node) : BecomesRoot(heir)
  BY DEF CollapseRoot
<1>2. heir \in Node
  BY <1>0 DEF IInv, HeapOK, Maps, IsMap, Kids
<1>3. Maps(children', Node)
  BY <1>0, EmptyIsMap, ReplaceMaps DEF IInv, HeapOK, CollapseRoot
<1>4. HeapOK'
  BY <1>0, <1>1, <1>2, <1>3 DEF IInv, HeapOK, CollapseRoot, AfterMerge, BecomesRoot, chain
<1>5. rootIsLeaf' \in BOOLEAN
  BY SMT DEF CollapseRoot
<1>6. TreeOK'
  BY <1>1, <1>2, <1>5 DEF IInv, TreeOK, CollapseRoot, AfterMerge, BecomesRoot
<1>7. CallOK' /\ ArgumentsOK'
  BY DEF IInv, CallOK, ArgumentsOK, CollapseRoot, AfterMerge, Steps, client
<1> QED
  BY <1>4, <1>6, <1>7 DEF IInv

\* The parent has children enough.
LEMMA ParentStandsStep == ASSUME IInv, ParentStands PROVE IInv'
<1> USE Parts, PartsNext, Addresses
<1>1. TreeOK' /\ HeapOK'
  BY DEF IInv, TreeOK, HeapOK, ParentStands, AfterMerge, chain
<1>2. CallOK' /\ ArgumentsOK'
  BY DEF IInv, CallOK, ArgumentsOK, ParentStands, AfterMerge, Steps, client
<1> QED
  BY <1>1, <1>2 DEF IInv

----------------------------------------------------------------------------
(* Returning. *)

\* erase returns the next element.
LEMMA NextElementStep == ASSUME IInv, NextElement PROVE IInv'
<1> USE Parts, PartsNext, Addresses
<1>1. TreeOK' /\ HeapOK'
  BY DEF IInv, TreeOK, HeapOK, NextElement, EraseReturns, tree, heap, chain
<1>2. CallOK' /\ ArgumentsOK'
  BY DEF IInv, CallOK, ArgumentsOK, NextElement, EraseReturns, Resolve, HeapOK,
         Steps, args, client
<1> QED
  BY <1>1, <1>2 DEF IInv

\* The loop of a range erase goes on with an element.
LEMMA RangeEraseStep == ASSUME IInv, RangeErase PROVE IInv'
<1> USE Parts, PartsNext, Addresses
<1>1. TreeOK' /\ HeapOK'
  BY DEF IInv, TreeOK, HeapOK, RangeErase, EraseRange, tree, heap, chain
<1>2. CallOK' /\ ArgumentsOK'
  BY DEF IInv, CallOK, ArgumentsOK, RangeErase, EraseRange, AtStop, Steps, args,
         client
<1> QED
  BY <1>1, <1>2 DEF IInv

\* A range erase looks up its end, which has a key.
LEMMA RangeFindLastStep == ASSUME IInv, RangeFindLast PROVE IInv'
<1> USE Parts, PartsNext, Addresses
<1>1. TreeOK' /\ HeapOK'
  BY DEF IInv, TreeOK, HeapOK, RangeFindLast, EraseRange, FindLeaf, tree, heap,
         chain
<1>2. CallOK' /\ ArgumentsOK'
  BY DEF IInv, CallOK, ArgumentsOK, RangeFindLast, EraseRange, FindLeaf, TreeOK,
         Steps, OptKey, client
<1> QED
  BY <1>1, <1>2 DEF IInv

\* A range erase up to end() answers end().
LEMMA RangeEndStep == ASSUME IInv, RangeEnd PROVE IInv'
<1> USE Parts, PartsNext, Addresses
<1>1. TreeOK' /\ HeapOK'
  BY DEF IInv, TreeOK, HeapOK, RangeEnd, EraseRange, tree, heap, chain
<1>2. CallOK' /\ ArgumentsOK'
  BY DEF IInv, CallOK, ArgumentsOK, RangeEnd, EraseRange, Steps, args, client
<1> QED
  BY <1>1, <1>2 DEF IInv

\* An answer holds a key and a value of the tree, or neither.
LEMMA AnswerStep == ASSUME IInv, Answer PROVE IInv'
<1> USE Parts, PartsNext, Addresses
<1>1. TreeOK' /\ HeapOK'
  BY DEF IInv, TreeOK, HeapOK, Answer, tree, heap, chain
<1>2. ret' \in [flag : BOOLEAN, key : OptKey, val : Value \cup {None}]
  <2>1. CASE it = EndIt /\ ret' = [flag |-> flag, key |-> None, val |-> None]
    BY <2>1 DEF IInv, CallOK, OptKey
  <2>2. CASE \E x \in Key : /\ PointsAt(it, x)
                            /\ ret' = [flag |-> flag, key |-> x, val |-> data[it.leaf][x]]
    <3>1. PICK x \in Key : /\ PointsAt(it, x)
                           /\ ret' = [flag |-> flag, key |-> x, val |-> data[it.leaf][x]]
      BY <2>2
    <3>2. it.leaf \in Node /\ x \in DOMAIN data[it.leaf]
      BY <3>1 DEF IInv, CallOK, PointsAt, At
    <3>3. data[it.leaf][x] \in Value
      BY <3>2 DEF IInv, HeapOK, Maps, IsMap
    <3> QED
      BY <3>1, <3>3 DEF IInv, CallOK, OptKey
  <2> QED
    BY <2>1, <2>2 DEF Answer
<1>3. CallOK' /\ ArgumentsOK'
  BY <1>2 DEF IInv, CallOK, ArgumentsOK, Answer, Steps, Conts, OptKey, client
<1> QED
  BY <1>1, <1>3 DEF IInv

\* The call is over.
LEMMA FinishStep == ASSUME IInv, Finish PROVE IInv'
<1> USE Parts, PartsNext, Addresses
<1>1. TreeOK' /\ HeapOK'
  BY DEF IInv, TreeOK, HeapOK, Finish, NoCall, NoRet, tree, heap, chain
<1>2. CallOK' /\ ArgumentsOK'
  BY DEF IInv, CallOK, ArgumentsOK, Finish, NoCall, NoRet, Steps, OptKey, Ops,
         Inserts, Lookups, args, client
<1> QED
  BY <1>1, <1>2 DEF IInv

----------------------------------------------------------------------------
(* The theorem. *)

\* The empty tree has its types.
LEMMA InitTypes == Init => IInv
<1> SUFFICES ASSUME Init PROVE IInv
  OBVIOUS
<1> USE Parts, Addresses DEF Init
<1>1. root \in Node
  BY NodeAssumption
<1>2. Maps(data, Value) /\ Maps(children, Node)
  BY EmptyIsMap DEF Maps
<1>3. HeapOK
  BY <1>1, <1>2 DEF HeapOK
<1>4. TreeOK
  BY <1>1 DEF TreeOK
<1>5. CallOK
  BY LoadAssumption, CallAssumption DEF CallOK, Steps, Conts, NoCall, NoRet, OptKey
<1>6. ArgumentsOK
  BY DEF ArgumentsOK, NoCall, Ops, Inserts, Lookups
<1> QED
  BY <1>3, <1>4, <1>5, <1>6 DEF IInv

\* Every step of the code keeps the types.
LEMMA RunTypes == ASSUME IInv, Run PROVE IInv'
BY StartOnEmptyStep, StartSearchStep, ClearLeafStep, ClearTreeStep,
   DescendStep, LookupStep, InsertExistingStep, InsertRoomStep,
   SplitLeafStep, PromoteNewRootStep, PromoteRoomStep, PromoteSplitStep,
   FixSeparatorStep, UpdateLeftmostStep, EraseFromRootStep,
   EraseFromLeafStep, BorrowFromLeftStep, BorrowFromRightStep,
   MergeWithLeftStep, MergeWithRightStep, ParentUnderflowsStep,
   CollapseRootStep, ParentStandsStep, NextElementStep, RangeEraseStep,
   RangeFindLastStep, RangeEndStep, AnswerStep, FinishStep
   DEF Run

\* A step that changes nothing keeps them.
LEMMA StutterTypes == ASSUME IInv, UNCHANGED vars PROVE IInv'
<1> USE Parts, PartsNext
<1>1. TreeOK' /\ HeapOK'
  BY DEF IInv, TreeOK, HeapOK, vars, tree, heap, chain
<1>2. CallOK' /\ ArgumentsOK'
  BY DEF IInv, CallOK, ArgumentsOK, vars, args, client
<1> QED
  BY <1>1, <1>2 DEF IInv

\* Whatever the keys, values, node sizes and calls: no step of any operation puts
\* nullptr, a missing key or a missing value where the tree or a function expects a
\* node, a key or a value.
THEOREM BTreeTypeCorrect == Spec => []TypeOK
<1>1. Init => IInv
  BY InitTypes
<1>2. IInv /\ [Next]_vars => IInv'
  BY LoadStep, ClientStep, RunTypes, StutterTypes DEF Next, Finished
<1>3. IInv => TypeOK
  BY DEF IInv
<1> QED
  BY <1>1, <1>2, <1>3, PTL DEF Spec

(***************************************************************************)
(* The shape.                                                              *)
(***************************************************************************)

\* The keys each node holds.
Held == [n \in Node |-> KeysOf(n)]

\* Where K says what each node holds: every key of m is before every key of n.
Precedes(K, m, n) == \A x \in K[m], y \in K[n] : x < y

\* m and n are nodes of S, m before n, and no other node of S is between them.
Neighbours(S, K, m, n) ==
  /\ m \in S /\ n \in S /\ m # n
  /\ Precedes(K, m, n)
  /\ \A j \in S \ {m, n} : Precedes(K, j, m) \/ Precedes(K, n, j)

\* The nodes A of one height, as h gives it, are before one another.
Layered(A, h, K) ==
  \A m, n \in A : m # n /\ h[m] = h[n] => Precedes(K, m, n) \/ Precedes(K, n, m)

\* The nodes at the height of n.
Level(h, n) == {m \in Allocated : h[m] = h[n]}

----------------------------------------------------------------------------
(* The parts of the shape.  h gives the heights; O are the nodes that have *)
(* no place in the tree yet, Z those whose separator may be stale, L those *)
(* that may be left with a single entry.                                   *)

Kinds(h) ==
  /\ h \in [Node -> Nat]
  /\ \A n \in Allocated : (IsLeaf(n) <=> h[n] = 0) /\ (kind[n] = "low" <=> h[n] = 1)
  /\ \A n \in Node : IsLeaf(n) \/ DOMAIN data[n] = {}
  /\ \A n \in Node : n \in Inner \/ DOMAIN children[n] = {}
  /\ \A n \in Node \ Allocated : parent[n] = Null
  /\ \A n \in Node \ Leaves : nextLeaf[n] = Null /\ prevLeaf[n] = Null

Top(h) ==
  /\ root \in Allocated /\ parent[root] = Null
  /\ rootIsLeaf = IsLeaf(root)
  /\ \A n \in Allocated : h[n] =< h[root]

Family(h, O) ==
  /\ \A p \in Inner : \A s \in DOMAIN children[p] :
       /\ children[p][s] \in Allocated
       /\ parent[children[p][s]] = p
       /\ h[p] = h[children[p][s]] + 1
  /\ \A p \in Inner : \A s, t \in DOMAIN children[p] :
       children[p][s] = children[p][t] => s = t
  /\ \A n \in Allocated :
       \/ n = root \/ n \in O
       \/ parent[n] \in Inner /\ \E s \in DOMAIN children[parent[n]] : children[parent[n]][s] = n
  /\ \A n \in O : n \in Allocated /\ n # root /\ parent[n] = Null

Exact(Z) ==
  \A p \in Inner : \A s \in DOMAIN children[p] :
    children[p][s] \in Z \/ s \in First(Held[children[p][s]])

Levels(h) == Layered(Allocated, h, Held)

Populated(L) ==
  \A n \in Allocated :
    n # root \/ n \in Inner =>
      /\ Held[n] # {}
      /\ n \in L \/ \E x, y \in Held[n] : x # y

\* The leaves S, which hold the keys K, are linked in key order.
Linked(S, K, nxt, prv, first, last) ==
  /\ first \in S /\ last \in S
  /\ \A l \in S :
       \/ nxt[l] = Null /\ l = last /\ \A j \in S \ {l} : Precedes(K, j, l)
       \/ nxt[l] # Null /\ l # last /\ Neighbours(S, K, l, nxt[l])
  /\ \A l \in S :
       \/ prv[l] = Null /\ l = first /\ \A j \in S \ {l} : Precedes(K, l, j)
       \/ prv[l] # Null /\ l # first /\ Neighbours(S, K, prv[l], l)

Chained == Linked(Leaves, Held, nextLeaf, prevLeaf, leftmostLeaf, rightmostLeaf)

\* The separator s of a node in Z can be replaced by the node's smallest key: in its
\* parent, and if it is the parent's first, in every node above.
StaleOK(h, Z) ==
  \A p \in Inner : \A s \in DOMAIN children[p] :
    children[p][s] \in Z =>
      \A x \in First(Held[children[p][s]]) : \A q \in Inner : \A t \in DOMAIN children[q] :
        t # s /\ (h[q] = h[p] \/ (h[q] > h[p] /\ s \in First(DOMAIN children[p])))
          => t # x /\ (t < s <=> t < x)

Sound(h, O, Z, L) ==
  /\ Kinds(h) /\ Top(h) /\ Family(h, O) /\ Exact(Z)
  /\ Levels(h) /\ Populated(L) /\ Chained /\ StaleOK(h, Z)

----------------------------------------------------------------------------
(* What a running call knows of its arguments. *)

Unplaced == IF pc = "promote" THEN {sib} ELSE {}
Stale   == IF pc = "fix" THEN {node}
           ELSE IF pc = "promote" /\ cont = "fixLeft" THEN {it.leaf} ELSE {}
Light   == IF pc \in {"underflow", "parent"} THEN {node}
           ELSE IF pc = "fix" /\ cont = "underflow" THEN {it.leaf} ELSE {}

\* At its height, x belongs to node n.
Covers(h, n, x) ==
  \A m \in Level(h, n) \ {n} :
    /\ Precedes(Held, n, m) => \A y \in Held[m] : x < y
    /\ Precedes(Held, m, n) => \E y \in Held[n] : y =< x

Searching(h) ==
  pc \in {"descend", "leaf"} =>
    /\ node \in Allocated /\ (pc = "leaf" <=> IsLeaf(node))
    /\ Covers(h, node, k)
    /\ sib = Null

\* Separators are keys of their nodes, the stale one too.
SlotsHeld == \A p \in Inner : \A s \in Held[p] : s \in Held[children[p][s]]

\* sib comes after node, with k its first key, and nothing is between them.  A key below
\* all those of its leaf was put into the first leaf, or else no separator is stale.
Promoting(h) ==
  pc = "promote" =>
    /\ node \in Allocated /\ sib \in Allocated /\ it.leaf \in Leaves
    /\ h[sib] = h[node]
    /\ Neighbours(Level(h, node), Held, node, sib)
    /\ k \in First(Held[sib])
    /\ \E x, y \in Held[node] : x # y
    /\ cont = "fixLeft" /\ IsLeaf(node) => it.leaf = node
    /\ cont = "fixLeft" /\ it.leaf # leftmostLeaf => Exact({})
    /\ SlotsHeld

Fixing ==
  pc = "fix" =>
    /\ node \in Allocated /\ it.leaf \in Leaves /\ k \in First(Held[node])
    /\ cont = "underflow" => it.leaf # root
    /\ cont \in {"underflow", "next"} => sib = Null

Erasing ==
  /\ pc \in {"erase", "underflow", "parent", "next", "range"} => sib = Null
  /\ pc \in {"erase", "underflow", "parent", "next", "leftmost"} => it.leaf \in Leaves
  /\ pc = "range" => it = EndIt \/ it.leaf \in Leaves
  /\ pc \in {"underflow", "parent"} => node \in Allocated
  /\ pc = "parent" => node \in Inner

Resting == pc \in {"idle", "start", "done"} => node = Null /\ sib = Null /\ it = EndIt

Known == {node, sib, it.leaf} \subseteq Allocated \cup {Null}

Running(h) ==
  Searching(h) /\ Promoting(h) /\ Fixing /\ Erasing /\ Resting /\ Known

Counted == size = Cardinality(Elements)

Shape(h) == Sound(h, Unplaced, Stale, Light) /\ Running(h)

SInv == IInv /\ Counted /\ \E h \in [Node -> Nat] : Shape(h)

\* No node is overfull, and none but the root is below its threshold, or by one while
\* it is about to be rebalanced.
WellFilled(n) ==
  /\ Cardinality(Held[n]) =< Capacity(n)
  /\ \/ n = root
     \/ Cardinality(Held[n]) >= UnderflowThreshold(n)
     \/ n \in Light /\ Cardinality(Held[n]) + 1 >= UnderflowThreshold(n)

\* A node that was split may get a parent, and is not the root then.
Sized ==
  /\ \A n \in Allocated : WellFilled(n)
  /\ pc = "promote" => Cardinality(Held[node]) >= UnderflowThreshold(node)

\* Half of a full node is enough for a node (the library's sizes are 8 and more).
SplitsBalance == LeafNodeSize # 5 /\ InternalNodeSize # 5

KeepsSizes == SplitsBalance /\ Sized => Sized'

----------------------------------------------------------------------------
(* Order.  A are nodes, h their heights, K what they hold. *)

Filled(A, K) == \A n \in A : K[n] # {} /\ K[n] \subseteq Int

\* Nodes with keys are not before each other both.
LEMMA OneOrder ==
  ASSUME NEW K, NEW m, NEW n, K[m] # {}, K[n] # {}, K[m] \subseteq Int, K[n] \subseteq Int,
         Precedes(K, m, n)
  PROVE  ~Precedes(K, n, m)
<1>1. PICK x \in K[m], y \in K[n] : TRUE
  OBVIOUS
<1>2. x \in Int /\ y \in Int /\ x < y
  BY <1>1 DEF Precedes
<1> QED
  BY <1>2 DEF Precedes

\* Order is transitive through a node with keys.
LEMMA OrderTransitive ==
  ASSUME NEW K, NEW l, NEW m, NEW n, K[l] \subseteq Int, K[m] \subseteq Int, K[n] \subseteq Int,
         K[m] # {}, Precedes(K, l, m), Precedes(K, m, n)
  PROVE  Precedes(K, l, n)
<1>1. PICK y \in K[m] : TRUE
  OBVIOUS
<1> QED
  BY <1>1 DEF Precedes

\* As long as no pair of nodes changes order, the layers and the links stay.
LEMMA OrderKept ==
  ASSUME NEW A, NEW h, NEW K, NEW K1, Layered(A, h, K),
         \A m, n \in A : m # n /\ h[m] = h[n] /\ Precedes(K, m, n) => Precedes(K1, m, n)
  PROVE  Layered(A, h, K1)
BY DEF Layered

LEMMA LinksKept ==
  ASSUME NEW S, NEW K, NEW K1, NEW nxt, NEW prv, NEW first, NEW last,
         Linked(S, K, nxt, prv, first, last),
         \A m, n \in S : m # n /\ Precedes(K, m, n) => Precedes(K1, m, n)
  PROVE  Linked(S, K1, nxt, prv, first, last)
<1>1. ASSUME NEW m, NEW n, Neighbours(S, K, m, n)
      PROVE  Neighbours(S, K1, m, n)
  BY <1>1 DEF Neighbours
<1>2. first \in S /\ last \in S
  BY DEF Linked
<1>3. ASSUME NEW l \in S
      PROVE  \/ nxt[l] = Null /\ l = last /\ \A j \in S \ {l} : Precedes(K1, j, l)
             \/ nxt[l] # Null /\ l # last /\ Neighbours(S, K1, l, nxt[l])
  <2>1. \/ nxt[l] = Null /\ l = last /\ \A j \in S \ {l} : Precedes(K, j, l)
        \/ nxt[l] # Null /\ l # last /\ Neighbours(S, K, l, nxt[l])
    BY DEF Linked
  <2> QED
    BY <1>1, <2>1
<1>4. ASSUME NEW l \in S
      PROVE  \/ prv[l] = Null /\ l = first /\ \A j \in S \ {l} : Precedes(K1, l, j)
             \/ prv[l] # Null /\ l # first /\ Neighbours(S, K1, prv[l], l)
  <2>1. \/ prv[l] = Null /\ l = first /\ \A j \in S \ {l} : Precedes(K, l, j)
        \/ prv[l] # Null /\ l # first /\ Neighbours(S, K, prv[l], l)
    BY DEF Linked
  <2> QED
    BY <1>1, <2>1
<1> QED
  BY <1>2, <1>3, <1>4 DEF Linked

\* Order among nodes with keys.
LEMMA OrderFacts ==
  ASSUME NEW S, NEW K, Filled(S, K)
  PROVE  /\ \A m, n \in S : Precedes(K, m, n) => ~Precedes(K, n, m)
         /\ \A l, m, n \in S : Precedes(K, l, m) /\ Precedes(K, m, n) => Precedes(K, l, n)
<1>1. \A m, n \in S : Precedes(K, m, n) => ~Precedes(K, n, m)
  BY OneOrder DEF Filled
<1>2. \A l, m, n \in S : Precedes(K, l, m) /\ Precedes(K, m, n) => Precedes(K, l, n)
  BY OrderTransitive DEF Filled
<1> QED
  BY <1>1, <1>2

\* A node has one node before it and one after.
LEMMA OneNeighbour ==
  ASSUME NEW S, NEW K, Filled(S, K), NEW l, NEW m, NEW n
  PROVE  /\ Neighbours(S, K, l, m) /\ Neighbours(S, K, l, n) => m = n
         /\ Neighbours(S, K, m, l) /\ Neighbours(S, K, n, l) => m = n
BY OrderFacts DEF Neighbours

\* A key is added to a node.
LEMMA GrowOrder ==
  ASSUME NEW A, NEW h, NEW K, NEW K1, NEW p \in A, NEW x,
         K1[p] = K[p] \cup {x}, \A n \in A \ {p} : K1[n] = K[n],
         \A m \in A \ {p} : h[m] = h[p] =>
           /\ Precedes(K, p, m) => \A y \in K[m] : x < y
           /\ Precedes(K, m, p) => \A y \in K[m] : y < x
  PROVE  \A m, n \in A : m # n /\ h[m] = h[n] /\ Precedes(K, m, n) => Precedes(K1, m, n)
BY DEF Precedes

\* The keys of p are split between p and q.
SplitKeys(A, K, K1, p, q, lo, hi) ==
  /\ K[p] = lo \cup hi /\ lo # {} /\ hi # {}
  /\ \A x \in lo, y \in hi : x < y
  /\ K1[p] = lo /\ K1[q] = hi
  /\ \A n \in A \ {p} : K1[n] = K[n]

\* What the split does to the order.
LEMMA SplitOrder ==
  ASSUME NEW A, NEW K, NEW K1, NEW p \in A, NEW q, q \notin A, NEW lo, NEW hi,
         SplitKeys(A, K, K1, p, q, lo, hi)
  PROVE  /\ \A m, n \in A : m # n /\ Precedes(K, m, n) => Precedes(K1, m, n)
         /\ \A m \in A \ {p} : Precedes(K, m, p) => Precedes(K1, m, q)
         /\ \A m \in A \ {p} : Precedes(K, p, m) => Precedes(K1, q, m)
         /\ Precedes(K1, p, q)
BY DEF SplitKeys, Precedes

LEMMA SplitLayers ==
  ASSUME NEW A, NEW h, NEW h1, NEW K, NEW K1, NEW p \in A, NEW q, q \notin A, NEW lo, NEW hi,
         SplitKeys(A, K, K1, p, q, lo, hi), Layered(A, h, K),
         h1[q] = h[p], \A n \in A : h1[n] = h[n],
         NEW B, \A n : n \in B <=> n \in A \/ n = q,
         NEW T, \A n : n \in T <=> n \in B /\ h1[n] = h1[p]
  PROVE  Layered(B, h1, K1) /\ Neighbours(T, K1, p, q)
<1>1. /\ \A m, n \in A : m # n /\ Precedes(K, m, n) => Precedes(K1, m, n)
      /\ \A m \in A \ {p} : Precedes(K, m, p) => Precedes(K1, m, q)
      /\ \A m \in A \ {p} : Precedes(K, p, m) => Precedes(K1, q, m)
      /\ Precedes(K1, p, q)
  BY SplitOrder
<1>2. \A m \in A \ {p} : h[m] = h[p] => Precedes(K, m, p) \/ Precedes(K, p, m)
  BY DEF Layered
<1>3. Layered(B, h1, K1)
  BY <1>1, <1>2 DEF Layered
<1>4. \A j \in A \ {p} : h1[j] = h1[p] => Precedes(K1, j, p) \/ Precedes(K1, q, j)
  BY <1>1, <1>2
<1> QED
  BY <1>1, <1>3, <1>4 DEF Neighbours

\* q joins the leaves S after p.
LinkedIn(S, T, p, q, nxt, prv, last, nxt1, prv1, last1) ==
  /\ \A n : n \in T <=> n \in S \/ n = q
  /\ \A n \in T :
       /\ nxt1[n] = IF n = p THEN q ELSE IF n = q THEN nxt[p] ELSE nxt[n]
       /\ prv1[n] = IF n = q THEN p ELSE IF n = nxt[p] THEN q ELSE prv[n]
  /\ last1 = IF last = p THEN q ELSE last

\* A leaf is split and its upper half linked after it.
LEMMA SplitLinks ==
  ASSUME NEW S, NEW K, NEW K1, NEW p \in S, NEW q, q \notin S, NEW lo, NEW hi,
         SplitKeys(S, K, K1, p, q, lo, hi), Filled(S, K), Null \notin S, q # Null,
         NEW nxt, NEW prv, NEW first, NEW last, Linked(S, K, nxt, prv, first, last),
         NEW T, NEW nxt1, NEW prv1, NEW last1,
         LinkedIn(S, T, p, q, nxt, prv, last, nxt1, prv1, last1)
  PROVE  Linked(T, K1, nxt1, prv1, first, last1)
<1> DEFINE P(m, n) == Precedes(K, m, n)
           Q(m, n) == Precedes(K1, m, n)
<1> USE DEF LinkedIn
<1>1. /\ \A m, n \in S : m # n /\ P(m, n) => Q(m, n)
      /\ \A m \in S \ {p} : P(m, p) => Q(m, q)
      /\ \A m \in S \ {p} : P(p, m) => Q(q, m)
      /\ Q(p, q)
  BY SplitOrder, Zenon
<1>2. /\ \A m, n \in S : P(m, n) => ~P(n, m)
      /\ \A l, m, n \in S : P(l, m) /\ P(m, n) => P(l, n)
  BY OrderFacts, Zenon
<1>3. /\ first \in S /\ last \in S
      /\ \A l \in S :
           \/ nxt[l] = Null /\ l = last /\ \A j \in S \ {l} : P(j, l)
           \/ /\ nxt[l] # Null /\ l # last /\ nxt[l] \in S /\ l # nxt[l] /\ P(l, nxt[l])
              /\ \A j \in S \ {l, nxt[l]} : P(j, l) \/ P(nxt[l], j)
      /\ \A l \in S :
           \/ prv[l] = Null /\ l = first /\ \A j \in S \ {l} : P(l, j)
           \/ /\ prv[l] # Null /\ l # first /\ prv[l] \in S /\ l # prv[l] /\ P(prv[l], l)
              /\ \A j \in S \ {l, prv[l]} : P(j, prv[l]) \/ P(l, j)
  BY DEF Linked, Neighbours
<1> HIDE DEF P, Q
<1>4. Q(p, q) /\ \A j \in S \ {p} : Q(j, p) \/ Q(q, j)
  BY <1>1, <1>2, <1>3
<1>5. \A l \in T :
        \/ nxt1[l] = Null /\ l = last1 /\ \A j \in T \ {l} : Q(j, l)
        \/ /\ nxt1[l] # Null /\ l # last1 /\ nxt1[l] \in T /\ l # nxt1[l] /\ Q(l, nxt1[l])
           /\ \A j \in T \ {l, nxt1[l]} : Q(j, l) \/ Q(nxt1[l], j)
  <2>1. CASE nxt[p] = Null
    BY <1>1, <1>2, <1>3, <1>4, <2>1
  <2>2. CASE nxt[p] # Null
    BY <1>1, <1>2, <1>3, <1>4, <2>2
  <2> QED
    BY <2>1, <2>2
<1>6. \A l \in T :
        \/ prv1[l] = Null /\ l = first /\ \A j \in T \ {l} : Q(l, j)
        \/ /\ prv1[l] # Null /\ l # first /\ prv1[l] \in T /\ l # prv1[l] /\ Q(prv1[l], l)
           /\ \A j \in T \ {l, prv1[l]} : Q(j, prv1[l]) \/ Q(l, j)
  <2> SUFFICES ASSUME NEW l \in T
               PROVE  \/ prv1[l] = Null /\ l = first /\ \A j \in T \ {l} : Q(l, j)
                      \/ /\ prv1[l] # Null /\ l # first /\ prv1[l] \in T /\ l # prv1[l]
                         /\ Q(prv1[l], l)
                         /\ \A j \in T \ {l, prv1[l]} : Q(j, prv1[l]) \/ Q(l, j)
    OBVIOUS
  <2>1. CASE l = q
    BY <1>1, <1>2, <1>3, <1>4, <2>1
  <2>2. CASE l = nxt[p] /\ l # q
    BY <1>1, <1>2, <1>3, <1>4, <2>2
  <2>3. CASE l # nxt[p] /\ l # q
    <3>1. prv[l] # p
      BY <1>1, <1>2, <1>3, <2>3
    <3> QED
      BY <1>1, <1>2, <1>3, <1>4, <2>3, <3>1
  <2> QED
    BY <2>1, <2>2, <2>3
<1>7. first \in T /\ last1 \in T
  BY <1>3
<1> QED
  BY <1>5, <1>6, <1>7 DEF P, Q, Linked, Neighbours

\* The keys of q join those of p, its neighbour before it, and q goes; others lose keys
\* at most.
JoinKeys(A, K, K1, p, q) ==
  /\ K1[p] = K[p] \cup K[q]
  /\ \A n \in A \ {p, q} : K1[n] \subseteq K[n]

\* What the merge does to the order.
LEMMA MergeOrder ==
  ASSUME NEW A, NEW h, NEW K, NEW K1, NEW p, NEW q, Filled(A, K),
         NEW T, \A j : j \in T <=> j \in A /\ h[j] = h[p], Neighbours(T, K, p, q),
         JoinKeys(A, K, K1, p, q)
  PROVE  \A m, n \in A \ {q} :
           m # n /\ h[m] = h[n] /\ Precedes(K, m, n) => Precedes(K1, m, n)
<1>1. /\ p \in A /\ q \in A /\ h[q] = h[p] /\ p # q /\ Precedes(K, p, q)
      /\ \A j \in A \ {p, q} : h[j] = h[p] => Precedes(K, j, p) \/ Precedes(K, q, j)
  BY DEF Neighbours
<1>2. \A m, n \in A : Precedes(K, m, n) => ~Precedes(K, n, m)
  BY OrderFacts
<1>3. \A l, m, n \in A : Precedes(K, l, m) /\ Precedes(K, m, n) => Precedes(K, l, n)
  BY OrderFacts
<1>4. ASSUME NEW m \in A \ {p, q}, h[m] = h[p], Precedes(K, m, p)
      PROVE  Precedes(K1, m, p)
  <2>1. Precedes(K, m, q)
    BY <1>1, <1>3, <1>4
  <2> QED
    BY <1>4, <2>1 DEF Precedes, JoinKeys
<1>5. ASSUME NEW m \in A \ {p, q}, h[m] = h[p], Precedes(K, p, m)
      PROVE  Precedes(K1, p, m)
  <2>1. Precedes(K, q, m)
    BY <1>1, <1>2, <1>5
  <2> QED
    BY <1>5, <2>1 DEF Precedes, JoinKeys
<1>6. \A m, n \in A \ {p, q} : Precedes(K, m, n) => Precedes(K1, m, n)
  BY DEF Precedes, JoinKeys
<1> QED
  BY <1>4, <1>5, <1>6

\* q leaves the leaves S, from after p.
LinkedOut(S, R, p, q, nxt, prv, last, nxt1, prv1, last1) ==
  /\ \A n : n \in R <=> n \in S /\ n # q
  /\ \A n \in R :
       /\ nxt1[n] = IF n = p THEN nxt[q] ELSE nxt[n]
       /\ prv1[n] = IF n = nxt[q] THEN p ELSE prv[n]
  /\ last1 = IF last = q THEN p ELSE last

\* A leaf is merged into the one before it and unlinked.
LEMMA MergeLinks ==
  ASSUME NEW S, NEW K, NEW K1, NEW p, NEW q, Filled(S, K), Null \notin S,
         Neighbours(S, K, p, q), JoinKeys(S, K, K1, p, q),
         NEW nxt, NEW prv, NEW first, NEW last, Linked(S, K, nxt, prv, first, last),
         NEW nxt1, NEW prv1, NEW R, NEW final,
         LinkedOut(S, R, p, q, nxt, prv, last, nxt1, prv1, final)
  PROVE  Linked(R, K1, nxt1, prv1, first, final) /\ first # q
<1> DEFINE P(m, n) == Precedes(K, m, n)
           Q(m, n) == Precedes(K1, m, n)
           T == S \ {q}
           last1 == IF last = q THEN p ELSE last
           h == [n \in S |-> 0]
<1>0. /\ R = T /\ final = last1
      /\ \A n \in T :
           /\ nxt1[n] = IF n = p THEN nxt[q] ELSE nxt[n]
           /\ prv1[n] = IF n = nxt[q] THEN p ELSE prv[n]
  BY DEF LinkedOut
<1>1. \A m, n \in T : m # n /\ P(m, n) => Q(m, n)
  <2>1. \A m \in S : h[m] = 0
    OBVIOUS
  <2>2. \A j : j \in S <=> j \in S /\ h[j] = h[p]
    BY <2>1 DEF Neighbours
  <2> HIDE DEF h
  <2>4. \A m, n \in S \ {q} : m # n /\ h[m] = h[n] /\ Precedes(K, m, n) => Precedes(K1, m, n)
    BY <2>2, MergeOrder
  <2> QED
    BY <2>1, <2>4
<1>2. /\ \A m, n \in S : P(m, n) => ~P(n, m)
      /\ \A l, m, n \in S : P(l, m) /\ P(m, n) => P(l, n)
  BY OrderFacts, Zenon
<1>3. /\ first \in S /\ last \in S
      /\ \A l \in S :
           \/ nxt[l] = Null /\ l = last /\ \A j \in S \ {l} : P(j, l)
           \/ /\ nxt[l] # Null /\ l # last /\ nxt[l] \in S /\ l # nxt[l] /\ P(l, nxt[l])
              /\ \A j \in S \ {l, nxt[l]} : P(j, l) \/ P(nxt[l], j)
      /\ \A l \in S :
           \/ prv[l] = Null /\ l = first /\ \A j \in S \ {l} : P(l, j)
           \/ /\ prv[l] # Null /\ l # first /\ prv[l] \in S /\ l # prv[l] /\ P(prv[l], l)
              /\ \A j \in S \ {l, prv[l]} : P(j, prv[l]) \/ P(l, j)
  BY DEF Linked, Neighbours
<1>4. /\ p \in S /\ q \in S /\ p # q /\ P(p, q)
      /\ \A j \in S \ {p, q} : P(j, p) \/ P(q, j)
  BY DEF Neighbours
<1> HIDE DEF P, Q, h
<1>5. nxt[p] = q /\ prv[q] = p
  BY <1>2, <1>3, <1>4
<1>6. \A l \in T :
        \/ nxt1[l] = Null /\ l = last1 /\ \A j \in T \ {l} : Q(j, l)
        \/ /\ nxt1[l] # Null /\ l # last1 /\ nxt1[l] \in T /\ l # nxt1[l] /\ Q(l, nxt1[l])
           /\ \A j \in T \ {l, nxt1[l]} : Q(j, l) \/ Q(nxt1[l], j)
  <2> SUFFICES ASSUME NEW l \in T
               PROVE  \/ nxt1[l] = Null /\ l = last1 /\ \A j \in T \ {l} : Q(j, l)
                      \/ /\ nxt1[l] # Null /\ l # last1 /\ nxt1[l] \in T /\ l # nxt1[l]
                         /\ Q(l, nxt1[l])
                         /\ \A j \in T \ {l, nxt1[l]} : Q(j, l) \/ Q(nxt1[l], j)
    OBVIOUS
  <2>1. CASE l = p
    BY <1>0, <1>1, <1>2, <1>3, <1>4, <1>5, <2>1
  <2>2. CASE l # p
    <3>1. nxt[l] # q
      BY <1>2, <1>3, <1>4, <1>5, <2>2
    <3> QED
      BY <1>0, <1>1, <1>2, <1>3, <1>4, <1>5, <2>2, <3>1
  <2> QED
    BY <2>1, <2>2
<1>7. \A l \in T :
        \/ prv1[l] = Null /\ l = first /\ \A j \in T \ {l} : Q(l, j)
        \/ /\ prv1[l] # Null /\ l # first /\ prv1[l] \in T /\ l # prv1[l] /\ Q(prv1[l], l)
           /\ \A j \in T \ {l, prv1[l]} : Q(j, prv1[l]) \/ Q(l, j)
  <2> SUFFICES ASSUME NEW l \in T
               PROVE  \/ prv1[l] = Null /\ l = first /\ \A j \in T \ {l} : Q(l, j)
                      \/ /\ prv1[l] # Null /\ l # first /\ prv1[l] \in T /\ l # prv1[l]
                         /\ Q(prv1[l], l)
                         /\ \A j \in T \ {l, prv1[l]} : Q(j, prv1[l]) \/ Q(l, j)
    OBVIOUS
  <2>1. CASE l = nxt[q]
    <3>1. P(q, l) /\ P(p, l) /\ \A j \in S \ {q, l} : P(j, q) \/ P(l, j)
      BY <1>2, <1>3, <1>4, <2>1
    <3>2. prv1[l] = p /\ p \in T /\ l # p /\ p # Null /\ Q(p, l)
      BY <1>0, <1>1, <1>2, <1>4, <2>1, <3>1
    <3>3. l # first
      <4>1. l \in S /\ q \in S /\ l # q
        BY <1>2, <1>4, <3>1
      <4>2. l = first => P(l, q)
        BY <1>3, <4>1
      <4> QED
        BY <1>2, <3>1, <4>1, <4>2
    <3>4. ASSUME NEW j \in T \ {l, p} PROVE Q(j, p) \/ Q(l, j)
      <4>1. P(j, p) \/ P(l, j)
        BY <1>2, <1>4, <3>1, <3>4
      <4> QED
        BY <1>1, <1>4, <3>2, <4>1
    <3> QED
      BY <3>2, <3>3, <3>4
  <2>2. CASE l # nxt[q]
    <3>1. prv[l] # q
      BY <1>2, <1>3, <1>4, <1>5, <2>2
    <3> QED
      BY <1>0, <1>1, <1>2, <1>3, <1>4, <1>5, <2>2, <3>1
  <2> QED
    BY <2>1, <2>2
<1>8. first \in T /\ last1 \in T /\ first # q
  BY <1>2, <1>3, <1>4, <1>5
<1>9. Linked(T, K1, nxt1, prv1, first, last1) /\ first # q
  BY <1>6, <1>7, <1>8 DEF P, Q, Linked, Neighbours
<1> QED
  BY <1>0, <1>9, Zenon

\* Keys B move from p to its neighbour q after it, or from q to p.
UpShift(A, K, K1, p, q, B) ==
  /\ B \subseteq K[p] /\ \A x \in K[p] \ B, y \in B : x < y
  /\ K1[p] = K[p] \ B /\ K1[q] = K[q] \cup B
  /\ \A n \in A \ {p, q} : K1[n] = K[n]

LEMMA ShiftUpOrder ==
  ASSUME NEW A, NEW h, NEW K, NEW K1, NEW p, NEW q, NEW B, Filled(A, K),
         NEW T, \A j : j \in T <=> j \in A /\ h[j] = h[p], Neighbours(T, K, p, q),
         UpShift(A, K, K1, p, q, B)
  PROVE  \A m, n \in A :
           m # n /\ h[m] = h[n] /\ Precedes(K, m, n) => Precedes(K1, m, n)
<1> USE DEF UpShift
<1>1. /\ p \in A /\ q \in A /\ h[q] = h[p] /\ p # q /\ Precedes(K, p, q)
      /\ \A j \in A \ {p, q} : h[j] = h[p] => Precedes(K, j, p) \/ Precedes(K, q, j)
  BY DEF Neighbours
<1>2. \A m, n \in A : Precedes(K, m, n) => ~Precedes(K, n, m)
  BY OrderFacts
<1>3. \A l, m, n \in A : Precedes(K, l, m) /\ Precedes(K, m, n) => Precedes(K, l, n)
  BY OrderFacts
<1>4. ASSUME NEW m \in A \ {p, q}, h[m] = h[p]
      PROVE  /\ Precedes(K, m, q) => Precedes(K, m, p)
             /\ Precedes(K, p, m) => Precedes(K, q, m)
             /\ Precedes(K, m, p) => Precedes(K, m, q)
             /\ Precedes(K, q, m) => Precedes(K, p, m)
  BY <1>1, <1>2, <1>3, <1>4
<1>5. ASSUME NEW m \in A \ {p, q}, h[m] = h[p]
      PROVE  /\ Precedes(K, m, p) => Precedes(K1, m, p) /\ Precedes(K1, m, q)
             /\ Precedes(K, p, m) => Precedes(K1, p, m) /\ Precedes(K1, q, m)
  BY <1>4, <1>5 DEF Precedes
<1>6. \A m, n \in A \ {p, q} : Precedes(K, m, n) => Precedes(K1, m, n)
  BY DEF Precedes
<1>7. Precedes(K1, p, q)
  BY <1>1 DEF Precedes
<1> QED
  BY <1>1, <1>2, <1>4, <1>5, <1>6, <1>7

DownShift(A, K, K1, p, q, B) ==
  /\ B \subseteq K[q] /\ \A x \in K[q] \ B, y \in B : y < x
  /\ K1[q] = K[q] \ B /\ K1[p] = K[p] \cup B
  /\ \A n \in A \ {p, q} : K1[n] = K[n]

LEMMA ShiftDownOrder ==
  ASSUME NEW A, NEW h, NEW K, NEW K1, NEW p, NEW q, NEW B, Filled(A, K),
         NEW T, \A j : j \in T <=> j \in A /\ h[j] = h[p], Neighbours(T, K, p, q),
         DownShift(A, K, K1, p, q, B)
  PROVE  \A m, n \in A :
           m # n /\ h[m] = h[n] /\ Precedes(K, m, n) => Precedes(K1, m, n)
<1> USE DEF DownShift
<1>1. /\ p \in A /\ q \in A /\ h[q] = h[p] /\ p # q /\ Precedes(K, p, q)
      /\ \A j \in A \ {p, q} : h[j] = h[p] => Precedes(K, j, p) \/ Precedes(K, q, j)
  BY DEF Neighbours
<1>2. \A m, n \in A : Precedes(K, m, n) => ~Precedes(K, n, m)
  BY OrderFacts
<1>3. \A l, m, n \in A : Precedes(K, l, m) /\ Precedes(K, m, n) => Precedes(K, l, n)
  BY OrderFacts
<1>4. ASSUME NEW m \in A \ {p, q}, h[m] = h[p]
      PROVE  /\ Precedes(K, m, q) => Precedes(K, m, p)
             /\ Precedes(K, p, m) => Precedes(K, q, m)
             /\ Precedes(K, m, p) => Precedes(K, m, q)
             /\ Precedes(K, q, m) => Precedes(K, p, m)
  BY <1>1, <1>2, <1>3, <1>4
<1>5. ASSUME NEW m \in A \ {p, q}, h[m] = h[p]
      PROVE  /\ Precedes(K, m, p) => Precedes(K1, m, p) /\ Precedes(K1, m, q)
             /\ Precedes(K, p, m) => Precedes(K1, p, m) /\ Precedes(K1, q, m)
  BY <1>4, <1>5 DEF Precedes
<1>6. \A m, n \in A \ {p, q} : Precedes(K, m, n) => Precedes(K1, m, n)
  BY DEF Precedes
<1>7. Precedes(K1, p, q)
  BY <1>1 DEF Precedes
<1> QED
  BY <1>1, <1>2, <1>4, <1>5, <1>6, <1>7

----------------------------------------------------------------------------
(* Sets of keys. *)

\* Finite sets of integers have a first and a last member.
LEMMA HasFirst ==
  ASSUME NEW S \in SUBSET Int, IsFiniteSet(S), S # {}
  PROVE  \E x \in First(S) : TRUE
<1> DEFINE below(x) == {t \in S : t < x}
           T == {Cardinality(below(x)) : x \in S}
<1>1. \A x \in S : IsFiniteSet(below(x)) /\ Cardinality(below(x)) \in Nat
  <2> TAKE x \in S
  <2>1. below(x) \subseteq S
    OBVIOUS
  <2> QED
    BY <2>1, FS_Subset, FS_CardinalityType
<1>2. T \in SUBSET Nat /\ T # {}
  BY <1>1
<1>3. PICK n \in T : \A m \in T : n =< m
  BY <1>2, LeastElement
<1>4. PICK x \in S : n = Cardinality(below(x))
  BY <1>3
<1>5. ASSUME NEW t \in S, t < x PROVE FALSE
  <2>1. below(t) \subseteq below(x) /\ below(t) # below(x)
    <3>1. t \in Int /\ x \in Int /\ t \in below(x) /\ t \notin below(t)
      BY <1>5
    <3>2. \A y \in S : y < t => y < x
      BY <1>5, <3>1
    <3> QED
      BY <3>1, <3>2
  <2>2. Cardinality(below(t)) < Cardinality(below(x))
    BY <1>1, <2>1, FS_Subset
  <2>3. Cardinality(below(x)) =< Cardinality(below(t))
    BY <1>3, <1>4
  <2> QED
    BY <1>1, <2>2, <2>3
<1>6. \A t \in S : x =< t
  BY <1>5
<1> QED
  BY <1>6 DEF First

LEMMA HasLast ==
  ASSUME NEW S \in SUBSET Int, IsFiniteSet(S), S # {}
  PROVE  \E x \in S : \A t \in S : t =< x
<1> DEFINE f == [x \in S |-> 0 - x]
           N == {0 - x : x \in S}
<1>1. N \in SUBSET Int /\ N # {}
  OBVIOUS
<1>2. IsFiniteSet(N)
  <2>1. f \in Surjection(S, N)
    BY DEF Surjection
  <2> QED
    BY <2>1, FS_Surjection
<1>3. PICK y \in First(N) : TRUE
  BY <1>1, <1>2, HasFirst
<1>4. PICK x \in S : y = 0 - x
  BY <1>3 DEF First
<1>5. \A t \in S : 0 - x =< 0 - t
  BY <1>3, <1>4 DEF First
<1> QED
  BY <1>5

\* Where a key comes before x, --it from lower_bound(x) finds one.
LEMMA HasFloor ==
  ASSUME NEW S \in SUBSET Int, IsFiniteSet(S), NEW x \in Int, NEW t \in S, t < x
  PROVE  \E u \in Floor(S, x) : TRUE
<1> DEFINE B == {u \in S : u < x}
<1>1. B \in SUBSET Int /\ IsFiniteSet(B) /\ B # {}
  BY FS_Subset
<1>2. PICK u \in B : \A y \in B : y =< u
  BY <1>1, HasLast
<1> QED
  BY <1>2 DEF Floor

\* What nodes hold.
Basic ==
  /\ Allocated \subseteq Node /\ Leaves \subseteq Allocated /\ Inner = Allocated \ Leaves
  /\ Null \notin Node
  /\ \A n \in Node : Held[n] = KeysOf(n) /\ Held[n] \subseteq Key /\ IsFiniteSet(Held[n])
  /\ \A n \in Node : Held[n] \in SUBSET Int
  /\ \A n \in Inner : Held[n] = DOMAIN children[n]
  /\ \A n \in Leaves : Held[n] = DOMAIN data[n]

LEMMA HeldBasic == IInv => Basic
<1> SUFFICES ASSUME IInv PROVE Basic
  OBVIOUS
<1>1. HeapOK
  BY Parts DEF IInv
<1>2. \A n \in Node : KeysOf(n) \subseteq Key
  BY <1>1, KeysFinite
<1>3. \A n \in Node : IsFiniteSet(KeysOf(n))
  BY <1>2, KeyAssumption, FS_Subset
<1>4. \A n \in Node : Held[n] = KeysOf(n)
  BY DEF Held
<1>5. Allocated \subseteq Node /\ Leaves \subseteq Allocated /\ Inner = Allocated \ Leaves
  BY DEF Allocated, Leaves, Inner, IsLeaf
<1>6. \A n \in Inner : Held[n] = DOMAIN children[n]
  BY <1>4 DEF Allocated, Leaves, Inner, KeysOf
<1>7. \A n \in Leaves : Held[n] = DOMAIN data[n]
  BY <1>4 DEF Leaves, KeysOf
<1> QED
  BY <1>2, <1>3, <1>4, <1>5, <1>6, <1>7, KeyAssumption, NodeAssumption DEF Basic

LEMMA HeldBasicNext == (IInv => Basic)'
BY HeldBasic, PTL

----------------------------------------------------------------------------
(* Nodes and their slots. *)

\* A node that is not the root has its slot in its parent, one level up.
LEMMA OwnParent ==
  ASSUME Basic, NEW h, NEW O, Kinds(h), Family(h, O), NEW n \in Allocated, n # root, n \notin O
  PROVE  \E s \in Held[parent[n]] :
           /\ parent[n] \in Inner /\ children[parent[n]][s] = n
           /\ h[parent[n]] = h[n] + 1
<1>1. PICK s \in DOMAIN children[parent[n]] :
        parent[n] \in Inner /\ children[parent[n]][s] = n
  BY DEF Family
<1>2. h[parent[n]] = h[n] + 1
  BY <1>1 DEF Family
<1> QED
  BY <1>1, <1>2 DEF Basic

\* What an internal node says of its children.
LEMMA ChildFacts ==
  ASSUME Basic, NEW h, NEW O, Family(h, O), NEW p \in Inner, NEW s \in Held[p]
  PROVE  /\ children[p][s] \in Allocated /\ parent[children[p][s]] = p
         /\ h[p] = h[children[p][s]] + 1
         /\ \A t \in Held[p] : children[p][s] = children[p][t] => s = t
BY DEF Basic, Family

\* Nothing else is as high as the root.
LEMMA RootAlone ==
  ASSUME Basic, NEW h, Kinds(h), Top(h), Family(h, {})
  PROVE  \A n \in Allocated \ {root} : h[n] < h[root]
<1> TAKE n \in Allocated \ {root}
<1>1. parent[n] \in Allocated /\ h[parent[n]] = h[n] + 1
  BY OwnParent DEF Basic
<1>2. h[n] \in Nat /\ h[root] \in Nat /\ h[parent[n]] =< h[root]
  BY <1>1 DEF Kinds, Top, Basic
<1> QED
  BY <1>1, <1>2

\* Where separators are keys of their nodes, they are in the order of the nodes.
LEMMA SlotOrder ==
  ASSUME Basic, NEW h, Levels(h), NEW c \in Allocated, NEW d \in Allocated, c # d, h[c] = h[d],
         NEW s \in Held[c], NEW t \in Held[d]
  PROVE  /\ s \in Int /\ t \in Int /\ s # t
         /\ s < t <=> Precedes(Held, c, d)
<1>1. Held[c] \subseteq Int /\ Held[d] \subseteq Int
  BY DEF Basic
<1>2. Precedes(Held, c, d) \/ Precedes(Held, d, c)
  BY DEF Levels, Layered
<1> QED
  BY <1>1, <1>2 DEF Precedes

\* The children at adjacent slots are neighbours.
LEMMA Siblings ==
  ASSUME Basic, NEW h, Kinds(h), Top(h), Family(h, {}), Exact({}), Levels(h),
         NEW p \in Inner, NEW s \in Held[p], NEW t \in Held[p], s < t,
         \A u \in Held[p] : u =< s \/ t =< u
  PROVE  Neighbours(Level(h, children[p][s]), Held, children[p][s], children[p][t])
<1> DEFINE c == children[p][s]
           d == children[p][t]
<1>1. /\ c \in Allocated /\ d \in Allocated /\ c # d /\ h[c] = h[d] /\ h[p] = h[c] + 1
      /\ s \in Held[c] /\ t \in Held[d]
  <2>1. /\ c \in Allocated /\ h[p] = h[c] + 1
        /\ d \in Allocated /\ h[p] = h[d] + 1
        /\ c = d => s = t
    BY ChildFacts
  <2>2. s \in First(Held[c]) /\ t \in First(Held[d])
    BY DEF Exact, Basic
  <2>3. h[c] \in Nat /\ h[d] \in Nat /\ s \in Int /\ t \in Int
    BY <2>1 DEF Kinds, Basic
  <2> QED
    BY <2>1, <2>2, <2>3 DEF First
<1>2. Precedes(Held, c, d)
  BY <1>1, SlotOrder
<1>3. ASSUME NEW j \in Level(h, c) \ {c, d}
      PROVE  Precedes(Held, j, c) \/ Precedes(Held, d, j)
  <2>1. j \in Allocated /\ h[j] = h[c] /\ j # c /\ j # d
    BY <1>3 DEF Level
  <2>2. j # root
    <3>1. h[j] \in Nat /\ h[p] =< h[root] /\ h[p] = h[j] + 1 /\ h[root] \in Nat
      BY <1>1, <2>1 DEF Kinds, Top, Basic
    <3> QED
      BY <3>1
  <2>3. PICK u \in Held[parent[j]] :
          /\ parent[j] \in Inner /\ children[parent[j]][u] = j
          /\ h[parent[j]] = h[j] + 1
    BY <2>1, <2>2, OwnParent
  <2>4. u \in Held[j]
    BY <2>3 DEF Exact, Basic, First
  <2>5. u < s => Precedes(Held, j, c)
    BY <1>1, <2>1, <2>4, SlotOrder
  <2>6. t < u => Precedes(Held, d, j)
    BY <1>1, <2>1, <2>4, SlotOrder
  <2>7. s # u /\ t # u /\ s \in Int /\ t \in Int /\ u \in Int
    BY <1>1, <2>1, <2>4, SlotOrder
  <2>8. u < s \/ t < u
    <3>1. CASE parent[j] = p
      BY <2>3, <2>7, <3>1
    <3>2. CASE parent[j] # p
      <4>1. parent[j] \in Allocated /\ h[parent[j]] = h[p] /\ p \in Allocated
        BY <1>1, <2>1, <2>3 DEF Basic
      <4>2. Precedes(Held, p, parent[j]) \/ Precedes(Held, parent[j], p)
        BY <3>2, <4>1 DEF Levels, Layered
      <4> QED
        BY <2>3, <4>2 DEF Precedes
    <3> QED
      BY <3>1, <3>2
  <2> QED
    BY <2>5, <2>6, <2>8
<1>4. c \in Level(h, c) /\ d \in Level(h, c)
  BY <1>1 DEF Level
<1> QED
  BY <1>1, <1>2, <1>3, <1>4 DEF Neighbours

----------------------------------------------------------------------------
(* A stale separator. *)

\* Every separator is the first key of some leaf, or the stale one of leaf l.
SeparatorsDown ==
  \A h, l : Basic /\ Kinds(h) /\ (\E O : Family(h, O)) /\ Exact({l}) =>
    \A p \in Inner : \A s \in Held[p] :
      \/ \E m \in Leaves \ {l} : s \in Held[m]
      \/ \E q \in Inner : s \in Held[q] /\ children[q][s] = l

LEMMA SeparatorsComeDown == SeparatorsDown
<1> SUFFICES ASSUME NEW h, NEW l, NEW O, Basic, Kinds(h), Family(h, O), Exact({l})
             PROVE  \A p \in Inner : \A s \in Held[p] :
                      \/ \E m \in Leaves \ {l} : s \in Held[m]
                      \/ \E q \in Inner : s \in Held[q] /\ children[q][s] = l
  BY DEF SeparatorsDown
<1> DEFINE Down(s) == \/ \E m \in Leaves \ {l} : s \in Held[m]
                      \/ \E q \in Inner : s \in Held[q] /\ children[q][s] = l
           T == {i \in Nat : \A p \in Inner : h[p] = i => \A s \in Held[p] : Down(s)}
<1>1. \A i \in Nat : i \in T <=> \A p \in Inner : h[p] = i => \A s \in Held[p] : Down(s)
  OBVIOUS
<1>2. \A p \in Inner : h[p] \in Nat /\ h[p] # 0
  BY DEF Kinds, Basic, Leaves
<1> HIDE DEF T
<1>3. 0 \in T
  BY <1>1, <1>2
<1>4. ASSUME NEW i \in Nat, i \in T PROVE i + 1 \in T
  <2> SUFFICES ASSUME NEW p \in Inner, h[p] = i + 1, NEW s \in Held[p]
               PROVE  Down(s)
    BY <1>1
  <2> DEFINE c == children[p][s]
  <2>1. c \in Allocated /\ h[p] = h[c] + 1 /\ h[c] \in Nat
    BY ChildFacts DEF Kinds, Basic
  <2>2. CASE c = l
    BY <2>2
  <2>3. CASE c # l
    <3>1. s \in Held[c]
      BY <2>3 DEF Exact, Basic, First
    <3>2. CASE c \in Leaves
      BY <2>3, <3>1, <3>2
    <3>3. CASE c \notin Leaves
      <4>1. c \in Inner /\ h[c] = i
        BY <2>1, <3>3 DEF Basic
      <4> QED
        BY <1>1, <1>4, <3>1, <4>1
    <3> QED
      BY <3>2, <3>3
  <2> QED
    BY <2>2, <2>3
<1>5. Nat \subseteq T
  BY <1>3, <1>4, SetInduction
<1> QED
  BY <1>1, <1>2, <1>5

\* Keys of one node are on the same side of every key of another.
LEMMA SameSide ==
  ASSUME Basic, NEW h, Levels(h), NEW n \in Allocated, NEW m \in Allocated, n # m, h[n] = h[m],
         NEW s \in Held[n], NEW x \in Held[n], NEW t \in Held[m]
  PROVE  t # x /\ t # s /\ (t < s <=> t < x)
<1>1. Held[n] \subseteq Int /\ Held[m] \subseteq Int
  BY DEF Basic
<1>2. Precedes(Held, n, m) \/ Precedes(Held, m, n)
  BY DEF Levels, Layered
<1> QED
  BY <1>1, <1>2 DEF Precedes

\* Any key of leaf l can be its separator, if the present one is a key of it.
LeafSeparators ==
  \A h, l : Basic /\ Kinds(h) /\ (\E O : Family(h, O)) /\ Exact({l}) /\ Levels(h)
            /\ l \in Leaves
            /\ (\A p \in Inner : \A s \in Held[p] : children[p][s] = l => s \in Held[l]) =>
    \A p \in Inner : \A s \in Held[p] : children[p][s] = l =>
      \A x \in Held[l] : \A q \in Inner : \A t \in Held[q] :
        t # s => t # x /\ (t < s <=> t < x)

LEMMA LeafSeparatorsMove == LeafSeparators
<1> SUFFICES ASSUME NEW h, NEW l, Basic, Kinds(h), \E O : Family(h, O), Exact({l}), Levels(h),
                    l \in Leaves,
                    \A p \in Inner : \A s \in Held[p] : children[p][s] = l => s \in Held[l]
             PROVE  \A p \in Inner : \A s \in Held[p] : children[p][s] = l =>
                      \A x \in Held[l] : \A q \in Inner : \A t \in Held[q] :
                        t # s => t # x /\ (t < s <=> t < x)
  BY Zenon DEF LeafSeparators
<1> SUFFICES ASSUME NEW p \in Inner, NEW s \in Held[p], children[p][s] = l, s \in Held[l],
                    NEW x \in Held[l], NEW q \in Inner, NEW t \in Held[q], t # s
             PROVE  t # x /\ (t < s <=> t < x)
  OBVIOUS
<1>0. PICK O : Family(h, O)
  OBVIOUS
<1>1. \/ \E m \in Leaves \ {l} : t \in Held[m]
      \/ \E r \in Inner : t \in Held[r] /\ children[r][t] = l
  <2>1. SeparatorsDown
    BY SeparatorsComeDown
  <2>2. Basic /\ Kinds(h) /\ (\E F : Family(h, F)) /\ Exact({l})
    BY <1>0
  <2>3. \A i \in Inner : \A j \in Held[i] :
          \/ \E m \in Leaves \ {l} : j \in Held[m]
          \/ \E r \in Inner : j \in Held[r] /\ children[r][j] = l
    BY ONLY <2>1, <2>2, Zenon DEF SeparatorsDown
  <2> QED
    BY <2>3
<1>2. ~ \E r \in Inner : t \in Held[r] /\ children[r][t] = l
  <2> SUFFICES ASSUME NEW r \in Inner, t \in Held[r], children[r][t] = l PROVE FALSE
    OBVIOUS
  <2>1. parent[l] = r /\ parent[l] = p
    BY ChildFacts
  <2> QED
    BY <2>1, ChildFacts
<1>3. PICK m \in Leaves \ {l} : t \in Held[m]
  BY <1>1, <1>2
<1>4. l \in Allocated /\ m \in Allocated /\ h[l] = h[m]
  BY DEF Kinds, Basic, Leaves
<1> QED
  BY <1>3, <1>4, SameSide

LEMMA LeafSeparatorsMoveNext == LeafSeparators'
BY LeafSeparatorsMove, PTL

----------------------------------------------------------------------------
(* Steps that leave the tree as it is. *)

shapeVars == <<root, rootIsLeaf, leftmostLeaf, rightmostLeaf, heap>>

LEMMA SameTree ==
  ASSUME NEW h, NEW O, NEW Z, NEW L, Sound(h, O, Z, L), UNCHANGED shapeVars
  PROVE  Sound(h, O, Z, L)'
<1> USE DEF shapeVars, heap, chain
<1>1. Held' = Held /\ Allocated' = Allocated /\ Leaves' = Leaves /\ Inner' = Inner
  BY DEF Held, KeysOf, Allocated, Leaves, Inner, IsLeaf
<1>2. Kinds(h)' /\ Top(h)'
  BY <1>1 DEF Sound, Kinds, Top, IsLeaf
<1>3. Family(h, O)'
  BY <1>1 DEF Sound, Family
<1>4. Exact(Z)' /\ Levels(h)' /\ Chained'
  BY <1>1 DEF Sound, Exact, Levels, Chained
<1>5. Populated(L)'
  BY <1>1 DEF Sound, Populated
<1>6. StaleOK(h, Z)'
  BY <1>1 DEF Sound, StaleOK
<1> QED
  BY <1>2, <1>3, <1>4, <1>5, <1>6 DEF Sound

LEMMA SameElements ==
  ASSUME Counted, UNCHANGED <<heap, size>>
  PROVE  Counted'
BY DEF Counted, Elements, IsLeaf, heap, chain

\* Between changes of the tree every node has its place.
LEMMA Settled ==
  ASSUME NEW h, Shape(h), pc \notin {"promote", "fix", "underflow", "parent"}
  PROVE  Sound(h, {}, {}, {})
BY DEF Shape, Unplaced, Stale, Light

LEMMA SettledNext ==
  ASSUME NEW h, Sound(h, {}, {}, {})', pc' \notin {"promote", "fix", "underflow", "parent"},
         Running(h)'
  PROVE  Shape(h)'
<1>1. Unplaced' = {} /\ Stale' = {} /\ Light' = {}
  BY DEF Unplaced, Stale, Light
<1> QED
  BY <1>1 DEF Shape

\* A step that leaves the tree and moves between points where no argument matters.
LEMMA SameShape ==
  ASSUME NEW h, Shape(h), Counted, UNCHANGED <<shapeVars, size>>,
         pc \notin {"promote", "fix", "underflow", "parent"},
         pc' \notin {"promote", "fix", "underflow", "parent"}, Running(h)'
  PROVE  Shape(h)' /\ Counted'
<1>1. Sound(h, {}, {}, {})
  BY Settled
<1>2. Sound(h, {}, {}, {})'
  BY <1>1, SameTree
<1>3. Shape(h)'
  BY <1>2, SettledNext
<1>4. Counted'
  BY SameElements DEF shapeVars
<1> QED
  BY <1>3, <1>4

LEMMA SameNodes ==
  ASSUME UNCHANGED shapeVars
  PROVE  /\ Held' = Held /\ Allocated' = Allocated /\ Leaves' = Leaves /\ Inner' = Inner
         /\ \A n : IsLeaf(n)' <=> IsLeaf(n)
BY DEF shapeVars, heap, chain, Held, KeysOf, Allocated, Leaves, Inner, IsLeaf

LEMMA SameCovers ==
  ASSUME UNCHANGED shapeVars, NEW h, NEW n, NEW x, Covers(h, n, x)
  PROVE  Covers(h, n, x)'
BY SameNodes DEF Covers, Level

LEMMA LoadShape == ASSUME NEW h, Shape(h), Counted, Load PROVE Shape(h)' /\ Counted'
<1> USE DEF Load, Invoke, shapeVars, tree, args
<1>1. Known'
  BY SameNodes DEF Shape, Running, Known
<1>2. Running(h)'
  BY <1>1 DEF Shape, Running, Searching, Promoting, Fixing, Erasing, Resting
<1> QED
  BY <1>2, SameShape

LEMMA ClientShape == ASSUME NEW h, Shape(h), Counted, Client PROVE Shape(h)' /\ Counted'
<1> USE DEF Client, Invoke, shapeVars, tree, args
<1>1. Known'
  BY SameNodes DEF Shape, Running, Known
<1>2. Running(h)'
  BY <1>1 DEF Shape, Running, Searching, Promoting, Fixing, Erasing, Resting
<1> QED
  BY <1>2, SameShape

LEMMA StartOnEmptyShape ==
  ASSUME NEW h, Shape(h), Counted, StartOnEmpty
  PROVE  Shape(h)' /\ Counted'
<1> USE DEF StartOnEmpty, Start, shapeVars, tree, args
<1>1. Known'
  BY SameNodes DEF Shape, Running, Known, EndIt
<1>2. Running(h)'
  BY <1>1 DEF Shape, Running, Searching, Promoting, Fixing, Erasing, Resting
<1> QED
  BY <1>2, SameShape

\* Every key belongs under the root.
LEMMA CoversRoot ==
  ASSUME Basic, NEW h, Kinds(h), Top(h), Family(h, {}), NEW x
  PROVE  Covers(h, root, x)
<1>1. Level(h, root) \ {root} = {}
  <2> SUFFICES ASSUME NEW n \in Level(h, root) \ {root} PROVE FALSE
    OBVIOUS
  <2>1. n \in Allocated /\ h[n] = h[root] /\ h[n] < h[root] /\ n \in Node
    BY RootAlone DEF Level, Basic
  <2>2. h[n] \in Nat
    BY <2>1 DEF Kinds
  <2> QED
    BY ONLY <2>1, <2>2
<1> QED
  BY <1>1 DEF Covers

\* A search starts at the root.
LEMMA FindLeafShape ==
  ASSUME IInv, NEW h, Shape(h), Counted, NEW x, FindLeaf(x), UNCHANGED <<shapeVars, size, sib>>,
         sib = Null, it' = it, it.leaf \in Allocated \cup {Null},
         pc \notin {"promote", "fix", "underflow", "parent"}
  PROVE  Shape(h)' /\ Counted'
<1> USE DEF FindLeaf
<1>1. Sound(h, {}, {}, {}) /\ Basic
  BY Settled, HeldBasic
<1>2. root \in Allocated /\ (rootIsLeaf <=> IsLeaf(root))
  BY <1>1 DEF Sound, Top
<1>3. Covers(h, root, x)
  BY <1>1, CoversRoot DEF Sound
<1>4. Covers(h, node, k)'
  <2>1. PICK r0 : r0 = root
    OBVIOUS
  <2>2. Covers(h, r0, x)'
    BY <1>3, <2>1, SameCovers
  <2> QED
    BY <2>1, <2>2
<1>5. Known'
  BY <1>2, SameNodes DEF Known
<1>6. Searching(h)'
  BY <1>2, <1>4, SameNodes DEF Searching
<1>7. Running(h)'
  BY <1>5, <1>6 DEF Running, Promoting, Fixing, Erasing, Resting
<1>8. pc' \in {"leaf", "descend"}
  OBVIOUS
<1> QED
  BY <1>7, <1>8, SameShape

LEMMA StartSearchShape ==
  ASSUME IInv, NEW h, Shape(h), Counted, StartSearch
  PROVE  Shape(h)' /\ Counted'
<1>1. sib = Null /\ it = EndIt
  BY DEF StartSearch, Start, Shape, Running, Resting
<1> QED
  BY <1>1, FindLeafShape DEF StartSearch, Start, shapeVars, tree, EndIt

\* The child that find_leaf_for_key descends into.
LEMMA CoversChild ==
  ASSUME Basic, NEW h, Kinds(h), Top(h), Family(h, {}), Exact({}), Levels(h),
         NEW p \in Inner, NEW x \in Key, Covers(h, p, x), NEW s \in Held[p],
         s \in IF x \in Held[p] THEN {x}
               ELSE IF Floor(Held[p], x) # {} THEN Floor(Held[p], x) ELSE First(Held[p])
  PROVE  Covers(h, children[p][s], x)
<1> DEFINE c == children[p][s]
<1>1. x \in Int /\ Held[p] \subseteq Int /\ s \in Int
  BY KeyAssumption DEF Basic
<1>2. /\ c \in Allocated /\ h[p] = h[c] + 1 /\ h[c] \in Nat /\ s \in First(Held[c])
      /\ s \in Held[c] /\ Held[c] \subseteq Int
  BY ChildFacts DEF Exact, Basic, Kinds, First
<1>3. /\ \A u \in Held[p] : s < u => x < u
      /\ \/ s =< x
         \/ \A u \in Held[p] : s =< u /\ x < u
  <2>1. CASE x \in Held[p]
    BY <1>1, <2>1
  <2>2. CASE x \notin Held[p] /\ s \in Floor(Held[p], x)
    BY <1>1, <2>2 DEF Floor
  <2>3. CASE x \notin Held[p] /\ s \in First(Held[p]) /\ Floor(Held[p], x) = {}
    <3>1. IsFiniteSet(Held[p]) /\ Held[p] \in SUBSET Int
      BY DEF Basic
    <3>2. \A u \in Held[p] : ~(u < x)
      BY <1>1, <2>3, <3>1, HasFloor
    <3> QED
      BY <1>1, <2>3, <3>2 DEF First
  <2> QED
    BY <2>1, <2>2, <2>3
<1> SUFFICES ASSUME NEW m \in Level(h, c) \ {c}
             PROVE  /\ Precedes(Held, c, m) => \A y \in Held[m] : x < y
                    /\ Precedes(Held, m, c) => \E y \in Held[c] : y =< x
  BY DEF Covers
<1> HIDE DEF c
<1>4. m \in Allocated /\ h[m] = h[c] /\ m # c /\ m # root
  <2>1. m \in Allocated /\ h[m] = h[c] /\ m # c
    BY DEF Level
  <2>2. h[p] =< h[root] /\ h[root] \in Nat
    BY DEF Top, Kinds, Basic
  <2> QED
    BY <1>2, <2>1, <2>2
<1>5. PICK u \in Held[parent[m]] :
        parent[m] \in Inner /\ children[parent[m]][u] = m /\ h[parent[m]] = h[m] + 1
  BY <1>4, OwnParent
<1>6. u \in First(Held[m]) /\ u \in Held[m] /\ Held[m] \subseteq Int /\ u \in Int
  BY <1>4, <1>5 DEF Exact, Basic, First
<1>7. s # u /\ (s < u <=> Precedes(Held, c, m)) /\ (u < s <=> Precedes(Held, m, c))
  BY <1>2, <1>4, <1>6, SlotOrder
<1>8. parent[m] = p \/ parent[m] \in Level(h, p) \ {p}
  BY <1>2, <1>4, <1>5 DEF Level, Basic
<1>9. parent[m] # p => Precedes(Held, p, parent[m]) \/ Precedes(Held, parent[m], p)
  BY <1>8 DEF Levels, Layered, Level, Basic
<1>10. ASSUME s < u PROVE x < u
  <2>1. CASE parent[m] = p
    BY <1>3, <1>5, <1>10, <2>1
  <2>2. CASE parent[m] # p
    <3>1. ~Precedes(Held, parent[m], p)
      BY <1>1, <1>5, <1>6, <1>10 DEF Precedes
    <3> QED
      BY <1>5, <1>8, <1>9, <2>2, <3>1 DEF Covers
  <2> QED
    BY <2>1, <2>2
<1>11. ASSUME u < s PROVE s =< x
  <2>1. CASE parent[m] = p
    BY <1>1, <1>3, <1>5, <1>6, <1>11, <2>1
  <2>2. CASE parent[m] # p
    <3>1. ~Precedes(Held, p, parent[m])
      BY <1>1, <1>5, <1>6, <1>11 DEF Precedes
    <3>2. \E y \in Held[p] : y =< x
      BY <1>8, <1>9, <2>2, <3>1 DEF Covers
    <3> QED
      BY <1>1, <1>3, <3>2
  <2> QED
    BY <2>1, <2>2
<1>12. s < u => \A y \in Held[m] : x < y
  BY <1>1, <1>6, <1>10 DEF First
<1> QED
  BY <1>2, <1>7, <1>11, <1>12

LEMMA DescendShape ==
  ASSUME IInv, NEW h, Shape(h), Counted, Descend
  PROVE  Shape(h)' /\ Counted'
<1> USE DEF Descend
<1>1. Sound(h, {}, {}, {}) /\ Basic
  BY Settled, HeldBasic
<1>2. node \in Inner /\ Covers(h, node, k) /\ sib = Null /\ k \in Key
  BY <1>1 DEF Shape, Running, Searching, Basic, IInv, ArgumentsOK, Leaves, Inner, Allocated
<1>3. PICK s \in Held[node] :
        /\ s \in IF k \in Held[node] THEN {k}
                 ELSE IF Floor(Held[node], k) # {} THEN Floor(Held[node], k)
                 ELSE First(Held[node])
        /\ node' = children[node][s]
  BY <1>1, <1>2 DEF Basic, First, Floor
<1>4. Covers(h, children[node][s], k)
  BY <1>1, <1>2, <1>3, CoversChild DEF Sound
<1> DEFINE c == children[node][s]
<1>5. UNCHANGED shapeVars
  BY DEF shapeVars, tree
<1>6. Covers(h, node, k)'
  <2>1. PICK c0, k0 : c0 = c /\ k0 = k
    OBVIOUS
  <2>2. Covers(h, c0, k0)'
    BY <1>4, <1>5, <2>1, SameCovers
  <2> QED
    BY <1>3, <2>1, <2>2
<1>7. c \in Allocated /\ (kind[node] = "low" <=> IsLeaf(c))
  <2>1. c \in Allocated /\ h[node] = h[c] + 1
    BY <1>1, <1>2, <1>3, ChildFacts DEF Sound
  <2>2. /\ h[c] \in Nat /\ (IsLeaf(c) <=> h[c] = 0)
        /\ kind[node] = "low" <=> h[node] = 1
    BY <1>1, <1>2, <2>1 DEF Sound, Kinds, Basic
  <2> QED
    BY <2>1, <2>2
<1> HIDE DEF c
<1>8. Searching(h)'
  <2>1. pc' = "leaf" <=> kind[node] = "low"
    OBVIOUS
  <2>2. node' = c /\ sib' = Null
    BY <1>2, <1>3 DEF c
  <2>3. PICK c0 : c0 = c
    OBVIOUS
  <2>4. node' \in Allocated' /\ (IsLeaf(node)' <=> IsLeaf(c))
    <3>1. c0 \in Allocated' /\ (IsLeaf(c0)' <=> IsLeaf(c0))
      BY <1>5, <1>7, <2>3, SameNodes
    <3>2. node' = c0
      BY <2>2, <2>3
    <3> QED
      BY <2>3, <3>1, <3>2
  <2> QED
    BY <1>6, <1>7, <2>1, <2>2, <2>4 DEF Searching
<1>9. Known'
  BY <1>2, <1>3, <1>5, <1>7, SameNodes DEF Shape, Running, Known, c
<1>10. Running(h)'
  BY <1>8, <1>9 DEF Running, Promoting, Fixing, Erasing, Resting
<1>11. pc' \in {"leaf", "descend"}
  OBVIOUS
<1> QED
  BY <1>5, <1>10, <1>11, SameShape DEF tree

\* An iterator that moves on stays in a leaf.
LEMMA ResolveLeaf ==
  ASSUME Basic, Chained, NEW l \in Leaves, NEW i
  PROVE  Resolve(l, i) = EndIt \/ Resolve(l, i).leaf \in Leaves
BY DEF Chained, Linked, Neighbours, Resolve

LEMMA LookupShape ==
  ASSUME IInv, NEW h, Shape(h), Counted, Lookup
  PROVE  Shape(h)' /\ Counted'
<1> USE DEF AtLeaf
<1>0. pc = "leaf" /\ UNCHANGED <<shapeVars, size, args>>
  BY DEF Lookup, shapeVars, tree
<1>1. Sound(h, {}, {}, {}) /\ Basic
  BY <1>0, Settled, HeldBasic
<1>2. node \in Leaves /\ sib = Null
  BY <1>0, <1>1 DEF Shape, Running, Searching, Basic, Leaves, Allocated
<1>3. \A i : Resolve(node, i) = EndIt \/ Resolve(node, i).leaf \in Leaves
  BY <1>1, <1>2, ResolveLeaf DEF Sound
<1>4. /\ pc' \in {"answer", "erase", "range"}
      /\ it' = EndIt \/ it'.leaf \in Leaves
      /\ pc' = "erase" => it'.leaf \in Leaves
  <2> DEFINE exact == IF k \in DOMAIN data[node]
                      THEN [leaf |-> node, idx |-> Rank(DOMAIN data[node], k)] ELSE EndIt
  <2>1. \/ /\ it' = exact /\ pc' \in {"answer", "erase"}
           /\ pc' = "erase" => k \in DOMAIN data[node]
        \/ (\E i : it' = Resolve(node, i)) /\ pc' \in {"answer", "range"}
    BY Zenon DEF Lookup
  <2>2. CASE /\ it' = exact /\ pc' \in {"answer", "erase"}
             /\ pc' = "erase" => k \in DOMAIN data[node]
    BY <1>2, <2>2
  <2>3. CASE (\E i : it' = Resolve(node, i)) /\ pc' \in {"answer", "range"}
    BY <1>3, <2>3
  <2> QED
    BY <2>1, <2>2, <2>3
<1>5. Known'
  <2>1. {node, it'.leaf} \subseteq Allocated \cup {Null} /\ sib' = Null
    BY <1>0, <1>1, <1>2, <1>4 DEF Basic, EndIt, args
  <2> QED
    BY <1>0, <2>1, SameNodes DEF Known, args
<1>6. Erasing'
  <2>1. sib' = Null
    BY <1>0, <1>2 DEF args
  <2> QED
    BY <1>0, <1>4, <2>1, SameNodes DEF Erasing
<1>7. Running(h)'
  BY <1>4, <1>5, <1>6 DEF Running, Searching, Promoting, Fixing, Resting
<1> QED
  BY <1>0, <1>4, <1>7, SameShape

\* The new element's leaf is not before the first leaf.
LEMMA LeftmostIsFirst ==
  ASSUME Basic, NEW h, Sound(h, {}, {}, {}), UpdateLeftmost, it.leaf \in Leaves
  PROVE  UNCHANGED leftmostLeaf
<1>1. PICK x \in First(DOMAIN data[it.leaf]), y \in First(DOMAIN data[leftmostLeaf]) :
        leftmostLeaf' = IF x < y THEN it.leaf ELSE leftmostLeaf
  BY DEF UpdateLeftmost
<1>2. /\ leftmostLeaf \in Leaves
      /\ it.leaf # leftmostLeaf => Precedes(Held, leftmostLeaf, it.leaf)
  <2>1. leftmostLeaf \in Leaves
    BY DEF Sound, Chained, Linked
  <2>2. \A j \in Leaves \ {leftmostLeaf} : Precedes(Held, leftmostLeaf, j)
    BY <2>1 DEF Sound, Chained, Linked
  <2> QED
    BY <2>1, <2>2
<1>3. /\ x \in First(Held[it.leaf]) /\ y \in First(Held[leftmostLeaf])
      /\ Held[it.leaf] \subseteq Int /\ Held[leftmostLeaf] \subseteq Int
  BY <1>1, <1>2 DEF Basic
<1>4. ~(x < y)
  BY <1>2, <1>3 DEF First, Precedes
<1> QED
  BY <1>1, <1>4

LEMMA UpdateLeftmostShape ==
  ASSUME IInv, NEW h, Shape(h), Counted, UpdateLeftmost
  PROVE  Shape(h)' /\ Counted' /\ UNCHANGED leftmostLeaf
<1>0. pc = "leftmost" /\ pc' = "answer" /\ UNCHANGED <<args, it>>
  BY DEF UpdateLeftmost
<1>1. Sound(h, {}, {}, {}) /\ Basic /\ it.leaf \in Leaves
  BY <1>0, Settled, HeldBasic DEF Shape, Running, Erasing
<1>2. UNCHANGED leftmostLeaf
  BY <1>1, LeftmostIsFirst
<1>3. UNCHANGED <<shapeVars, size>>
  BY <1>2 DEF UpdateLeftmost, shapeVars
<1>4. Known'
  BY <1>0, <1>3, SameNodes DEF Shape, Running, Known, args
<1>5. Running(h)'
  BY <1>0, <1>4 DEF Running, Searching, Promoting, Fixing, Erasing, Resting
<1> QED
  BY <1>0, <1>2, <1>3, <1>5, SameShape

\* Enough entries are more than one.
LEMMA TwoKeys ==
  ASSUME NEW S, IsFiniteSet(S), S # {}, Cardinality(S) # 1
  PROVE  \E x, y \in S : x # y
<1>1. PICK x : x \in S
  OBVIOUS
<1>2. S # {x}
  BY FS_Singleton
<1> QED
  BY <1>1, <1>2

\* A node keeps at least two entries unless it underflows.
LEMMA Thresholds ==
  ASSUME NEW n
  PROVE  /\ MinSize(n) \in Nat /\ MinSize(n) >= 2
         /\ Hysteresis(n) \in Nat
         /\ UnderflowThreshold(n) \in Nat /\ UnderflowThreshold(n) >= 2
         /\ UnderflowThreshold(n) =< MinSize(n)
<1>1. Capacity(n) \in Nat /\ Capacity(n) >= 4
  BY SizeAssumption DEF Capacity
<1> DEFINE c == Capacity(n)
           m == (c + 1) \div 2
<1>2. m \in Nat /\ m >= 2
  BY <1>1
<1>3. (m \div 4) \in Nat /\ 4 * (m \div 4) =< m
  BY <1>2
<1> HIDE DEF m
<1>4. m > m \div 4 /\ m - (m \div 4) >= 2
  BY <1>2, <1>3
<1>5. MinSize(n) = m /\ Hysteresis(n) = m \div 4
  BY DEF MinSize, Hysteresis, m
<1> QED
  BY <1>2, <1>3, <1>4, <1>5 DEF UnderflowThreshold

LEMMA ParentUnderflowsShape ==
  ASSUME IInv, NEW h, Shape(h), Counted, ParentUnderflows
  PROVE  Shape(h)' /\ Counted'
<1> USE DEF ParentUnderflows, AfterMerge
<1>1. UNCHANGED <<shapeVars, heap, size>>
  BY DEF shapeVars, heap, chain
<1>2. Sound(h, {}, {}, {node})
  BY DEF Shape, Unplaced, Stale, Light
<1>3. PICK n : n = node
  OBVIOUS
<1>4. Sound(h, {}, {}, {n})'
  BY <1>1, <1>2, <1>3, SameTree
<1>5. Unplaced' = {} /\ Stale' = {} /\ Light' = {n}
  BY <1>3 DEF Unplaced, Stale, Light
<1>6. Known' /\ Erasing'
  BY <1>1, SameNodes DEF Shape, Running, Known, Erasing
<1>7. Running(h)'
  BY <1>6 DEF Running, Searching, Promoting, Fixing, Resting
<1>8. Shape(h)'
  BY <1>4, <1>5, <1>7 DEF Shape
<1> QED
  BY <1>1, <1>8, SameElements

LEMMA ParentStandsShape ==
  ASSUME IInv, NEW h, Shape(h), Counted, ParentStands
  PROVE  Shape(h)' /\ Counted'
<1> USE DEF ParentStands, AfterMerge
<1>1. UNCHANGED <<shapeVars, heap, size>>
  BY DEF shapeVars, heap, chain
<1>2. Sound(h, {}, {}, {node}) /\ Basic /\ node \in Inner
  BY HeldBasic DEF Shape, Running, Erasing, Unplaced, Stale, Light
<1>3. \E x, y \in Held[node] : x # y
  <2>1. Held[node] # {}
    BY <1>2 DEF Sound, Populated, Basic
  <2>2. IsFiniteSet(Held[node]) /\ Held[node] = DOMAIN children[node]
    BY <1>2 DEF Basic
  <2>3. Cardinality(Held[node]) # 1
    BY <2>2, Thresholds DEF Size
  <2> QED
    BY <2>1, <2>2, <2>3, TwoKeys
<1>4. Sound(h, {}, {}, {})
  <2>1. Populated({})
    BY <1>2, <1>3 DEF Sound, Populated
  <2> QED
    BY <1>2, <2>1 DEF Sound
<1>5. Sound(h, {}, {}, {})'
  BY <1>1, <1>4, SameTree
<1>6. Known' /\ Erasing'
  BY <1>1, SameNodes DEF Shape, Running, Known, Erasing
<1>7. Running(h)'
  BY <1>6 DEF Running, Searching, Promoting, Fixing, Resting
<1>8. Shape(h)'
  BY <1>5, <1>7, SettledNext
<1> QED
  BY <1>1, <1>8, SameElements

LEMMA NextElementShape ==
  ASSUME IInv, NEW h, Shape(h), Counted, NextElement
  PROVE  Shape(h)' /\ Counted'
<1> USE DEF NextElement, EraseReturns
<1>1. UNCHANGED <<shapeVars, size, args>>
  BY DEF shapeVars, tree
<1>2. Sound(h, {}, {}, {}) /\ Basic /\ it.leaf \in Leaves /\ sib = Null
  BY Settled, HeldBasic DEF Shape, Running, Erasing
<1>3. it' = EndIt \/ it'.leaf \in Leaves
  BY <1>2, ResolveLeaf DEF Sound
<1>4. Known' /\ Erasing'
  <2>1. {node, it'.leaf} \subseteq Allocated \cup {Null} /\ sib' = Null
    BY <1>1, <1>2, <1>3 DEF Basic, EndIt, args, Shape, Running, Known
  <2> QED
    BY <1>1, <1>3, <2>1, SameNodes DEF Known, Erasing, args
<1>5. Running(h)'
  BY <1>4 DEF Running, Searching, Promoting, Fixing, Resting
<1> QED
  BY <1>1, <1>5, SameShape

LEMMA RangeEraseShape ==
  ASSUME IInv, NEW h, Shape(h), Counted, RangeErase
  PROVE  Shape(h)' /\ Counted'
<1> USE DEF RangeErase, EraseRange
<1>1. UNCHANGED <<shapeVars, size, args>>
  BY DEF shapeVars, tree
<1>2. Known' /\ Erasing'
  BY <1>1, SameNodes DEF Shape, Running, Known, Erasing, AtStop, args
<1>3. Running(h)'
  BY <1>2 DEF Running, Searching, Promoting, Fixing, Resting
<1> QED
  BY <1>1, <1>3, SameShape

LEMMA RangeFindLastShape ==
  ASSUME IInv, NEW h, Shape(h), Counted, RangeFindLast
  PROVE  Shape(h)' /\ Counted'
<1> USE DEF RangeFindLast, EraseRange
<1>1. UNCHANGED <<shapeVars, size, sib, it>>
  BY DEF shapeVars, tree
<1>2. sib = Null /\ it.leaf \in Allocated \cup {Null}
  BY DEF Shape, Running, Known, Erasing
<1> QED
  BY <1>1, <1>2, FindLeafShape

LEMMA RangeEndShape ==
  ASSUME IInv, NEW h, Shape(h), Counted, RangeEnd
  PROVE  Shape(h)' /\ Counted'
<1> USE DEF RangeEnd, EraseRange
<1>1. UNCHANGED <<shapeVars, size, args>>
  BY DEF shapeVars, tree
<1>2. Known'
  BY <1>1, SameNodes DEF Shape, Running, Known, EndIt, args
<1>3. Running(h)'
  BY <1>2 DEF Running, Searching, Promoting, Fixing, Erasing, Resting
<1> QED
  BY <1>1, <1>3, SameShape

LEMMA AnswerShape ==
  ASSUME IInv, NEW h, Shape(h), Counted, Answer
  PROVE  Shape(h)' /\ Counted'
<1> USE DEF Answer
<1>1. UNCHANGED <<shapeVars, size>>
  BY DEF shapeVars, tree
<1>2. Running(h)'
  BY DEF Running, Searching, Promoting, Fixing, Erasing, Resting, Known, EndIt
<1> QED
  BY <1>1, <1>2, SameShape

LEMMA FinishShape ==
  ASSUME IInv, NEW h, Shape(h), Counted, Finish
  PROVE  Shape(h)' /\ Counted'
<1> USE DEF Finish
<1>1. UNCHANGED <<shapeVars, size, args, it>>
  BY DEF shapeVars, tree
<1>2. Known' /\ Resting'
  BY <1>1, SameNodes DEF Shape, Running, Known, Resting, args
<1>3. Running(h)'
  BY <1>2 DEF Running, Searching, Promoting, Fixing, Erasing
<1> QED
  BY <1>1, <1>3, SameShape

----------------------------------------------------------------------------
(* Sizes. *)

\* Capacity and threshold depend on the kind of the node only.
LEMMA SameSizes ==
  ASSUME NEW n, IsLeaf(n)' <=> IsLeaf(n)
  PROVE  Capacity(n)' = Capacity(n) /\ UnderflowThreshold(n)' = UnderflowThreshold(n)
BY DEF Capacity, UnderflowThreshold, MinSize, Hysteresis

\* The threshold of nodes with room for c entries.
LeastSize(c) == ((c + 1) \div 2) - (((c + 1) \div 2) \div 4)

ThresholdsOfCapacity ==
  \A n : /\ UnderflowThreshold(n) = LeastSize(Capacity(n))
         /\ Capacity(n) = IF IsLeaf(n) THEN LeafNodeSize ELSE InternalNodeSize

LEMMA ThresholdIs == ThresholdsOfCapacity
<1> SUFFICES ASSUME NEW n PROVE UnderflowThreshold(n) = LeastSize(Capacity(n))
  BY DEF ThresholdsOfCapacity, Capacity
<1>1. PICK m : m = MinSize(n) /\ m \in Nat /\ m >= 2
  BY Thresholds
<1>2. m > m \div 4
  BY <1>1
<1>3. m = (Capacity(n) + 1) \div 2
  BY <1>1 DEF MinSize
<1> QED
  BY <1>1, <1>2, <1>3 DEF UnderflowThreshold, Hysteresis, LeastSize

LEMMA ThresholdIsNext == ThresholdsOfCapacity'
BY ThresholdIs, PTL

\* Only the nodes T, and those that underflow, need a look after a step.
LEMMA SizesKept ==
  ASSUME Sized, NEW T,
         \A m \in Allocated' \ T :
           /\ m \in Allocated /\ (IsLeaf(m)' <=> IsLeaf(m)) /\ Held'[m] = Held[m]
           /\ m = root => m = root'
           /\ m \in Light => m \in Light',
         \A m \in T : m \in Allocated' => WellFilled(m)',
         pc' = "promote" => (Cardinality(Held[node]) >= UnderflowThreshold(node))'
  PROVE  Sized'
<1>1. ASSUME NEW m \in Allocated', m \notin T PROVE WellFilled(m)'
  <2>1. WellFilled(m) /\ Held'[m] = Held[m]
    BY <1>1 DEF Sized
  <2>2. Capacity(m)' = Capacity(m) /\ UnderflowThreshold(m)' = UnderflowThreshold(m)
    BY <1>1, SameSizes
  <2> QED
    BY <1>1, <2>1, <2>2 DEF WellFilled
<1> QED
  BY <1>1 DEF Sized

\* Steps that leave the nodes as they are.
LEMMA SizesStand ==
  ASSUME Sized, UNCHANGED <<root, heap>>, pc' # "promote",
         \A m \in Light :
           m \in Light' \/ m = root \/ Cardinality(Held[m]) >= UnderflowThreshold(m)
  PROVE  Sized'
<1>1. /\ Held' = Held /\ Allocated' = Allocated /\ root' = root
      /\ \A m : IsLeaf(m)' <=> IsLeaf(m)
  BY DEF heap, chain, Held, KeysOf, Allocated, IsLeaf
<1>2. ASSUME NEW m \in Allocated' PROVE WellFilled(m)'
  <2>1. WellFilled(m) /\ Held'[m] = Held[m]
    BY <1>1 DEF Sized
  <2>2. Capacity(m)' = Capacity(m) /\ UnderflowThreshold(m)' = UnderflowThreshold(m)
    BY <1>1, SameSizes
  <2> QED
    BY <1>1, <2>1, <2>2 DEF WellFilled
<1> QED
  BY <1>2 DEF Sized

\* Without a node that underflows, all but the root have enough entries.
LEMMA EnoughKeys ==
  ASSUME Sized, NEW n \in Allocated, n # root, n \notin Light
  PROVE  Cardinality(Held[n]) >= UnderflowThreshold(n)
BY DEF Sized, WellFilled

----------------------------------------------------------------------------
(* Steps that change the keys of one leaf. *)

leafVars == <<root, rootIsLeaf, leftmostLeaf, rightmostLeaf, kind, children, chain, parent>>

LEMMA LeafFrame ==
  ASSUME Basic, Basic', NEW h, Kinds(h), Top(h), Family(h, {}), NEW l \in Leaves,
         UNCHANGED leafVars, \A n \in Node \ {l} : data'[n] = data[n]
  PROVE  /\ Allocated' = Allocated /\ Leaves' = Leaves /\ Inner' = Inner
         /\ \A n \in Node \ {l} : Held'[n] = Held[n]
         /\ Held'[l] = DOMAIN data'[l]
         /\ \A n : IsLeaf(n)' <=> IsLeaf(n)
         /\ Kinds(h)' /\ Top(h)' /\ Family(h, {})'
<1> USE DEF leafVars, chain
<1>1. /\ Allocated' = Allocated /\ Leaves' = Leaves /\ Inner' = Inner
      /\ \A n : IsLeaf(n)' <=> IsLeaf(n)
  BY DEF Allocated, Leaves, Inner, IsLeaf
<1>2. \A n \in Node \ {l} : Held'[n] = Held[n]
  BY DEF Held, KeysOf, IsLeaf
<1>3. Held'[l] = DOMAIN data'[l]
  BY <1>1 DEF Basic
<1>4. Kinds(h)' /\ Top(h)'
  BY <1>1 DEF Kinds, Top, Leaves, IsLeaf
<1>5. Family(h, {})'
  BY <1>1 DEF Family
<1> QED
  BY <1>1, <1>2, <1>3, <1>4, <1>5

LEMMA LeafChange ==
  ASSUME Basic, Basic', NEW h, Sound(h, {}, {}, {}), NEW l \in Leaves,
         UNCHANGED leafVars, \A n \in Node \ {l} : data'[n] = data[n],
         \A m, n \in Allocated :
           m # n /\ h[m] = h[n] /\ Precedes(Held, m, n) => Precedes(Held', m, n),
         NEW Z, NEW L, Exact(Z)', Populated(L)', StaleOK(h, Z)'
  PROVE  Sound(h, {}, Z, L)'
<1>1. /\ Allocated' = Allocated /\ Leaves' = Leaves
      /\ Kinds(h)' /\ Top(h)' /\ Family(h, {})'
  BY LeafFrame DEF Sound
<1>2. Levels(h)'
  <2>1. Layered(Allocated, h, Held')
    BY OrderKept DEF Sound, Levels
  <2> QED
    BY <1>1, <2>1 DEF Levels
<1>3. Chained'
  <2>1. \A m, n \in Leaves : m # n /\ Precedes(Held, m, n) => Precedes(Held', m, n)
    BY DEF Sound, Kinds, Basic, Leaves
  <2>2. Linked(Leaves, Held', nextLeaf, prevLeaf, leftmostLeaf, rightmostLeaf)
    BY <2>1, LinksKept DEF Sound, Chained
  <2> QED
    BY <1>1, <2>2 DEF Chained, leafVars, chain
<1> QED
  BY <1>1, <1>2, <1>3 DEF Sound

LEMMA LeafSizes ==
  ASSUME Sized, Basic, NEW l \in Leaves, UNCHANGED leafVars,
         \A n \in Node \ {l} : Held'[n] = Held[n],
         Light = {}, pc' # "promote",
         Cardinality(Held'[l]) =< LeafNodeSize,
         \/ l = root \/ Cardinality(Held'[l]) >= UnderflowThreshold(l)
         \/ l \in Light' /\ Cardinality(Held'[l]) + 1 >= UnderflowThreshold(l)
  PROVE  Sized'
<1>1. Allocated' = Allocated /\ root' = root /\ \A m : IsLeaf(m)' <=> IsLeaf(m)
  BY DEF leafVars, Allocated, IsLeaf
<1>2. Capacity(l)' = LeafNodeSize /\ UnderflowThreshold(l)' = UnderflowThreshold(l)
  <2>1. Capacity(l)' = Capacity(l) /\ UnderflowThreshold(l)' = UnderflowThreshold(l)
    BY <1>1, SameSizes
  <2> QED
    BY <2>1 DEF Capacity, Leaves
<1>3. WellFilled(l)'
  BY <1>1, <1>2 DEF WellFilled
<1>4. PICK T : T = {l}
  OBVIOUS
<1> QED
  BY <1>1, <1>3, <1>4, SizesKept DEF Basic

\* What is at a leaf where a key can be inserted.
LEMMA RootHasNoSlot ==
  ASSUME Basic, NEW h, NEW O, Top(h), Family(h, O), NEW p \in Inner, NEW s \in Held[p]
  PROVE  children[p][s] # root
BY ChildFacts DEF Top, Basic

\* The keys of all leaves once those of l change.
LEMMA ElementsOf ==
  ASSUME Basic, NEW l \in Leaves
  PROVE  \A x : x \in Elements <=> x \in Held[l] \/ \E m \in Leaves \ {l} : x \in Held[m]
BY DEF Elements, Basic, Leaves

LEMMA ElementsFinite == ASSUME Basic PROVE Elements \subseteq Key /\ IsFiniteSet(Elements)
<1>1. Elements \subseteq Key
  BY DEF Elements, Basic, Leaves
<1> QED
  BY <1>1, KeyAssumption, FS_Subset

LEMMA InsertExistingShape ==
  ASSUME IInv, IInv', NEW h, Shape(h), Counted, InsertExisting
  PROVE  Shape(h)' /\ Counted' /\ KeepsSizes
<1> USE DEF InsertExisting, AtLeaf, tree
<1>1. Sound(h, {}, {}, {}) /\ Basic /\ Basic' /\ sib = Null /\ node \in Leaves
  BY Settled, HeldBasic, HeldBasicNext DEF Shape, Running, Searching, Leaves, Basic, Allocated
<1>2. PICK l \in Leaves : l = node
  BY <1>1
<1>3. UNCHANGED leafVars /\ \A n \in Node \ {l} : data'[n] = data[n]
  <2>1. UNCHANGED leafVars
    BY DEF leafVars, chain
  <2>2. data = [n \in Node |-> data[n]]
    BY Parts DEF IInv, HeapOK, Maps
  <2>3. \/ data' = data
        \/ data' = [data EXCEPT ![l] = Insert(data[l], k, call.val)]
    BY <1>2
  <2>4. \A n \in Node \ {l} : data'[n] = data[n]
    BY ONLY <2>2, <2>3
  <2> QED
    BY <2>1, <2>4
<1>4. DOMAIN data'[l] = DOMAIN data[l]
  <2>1. data = [n \in Node |-> data[n]]
    BY Parts DEF IInv, HeapOK, Maps
  <2>2. k \in DOMAIN data[l] /\ (data' = data \/ data' = [data EXCEPT ![l] = Insert(data[l], k, call.val)])
    BY <1>2
  <2>3. data'[l] = data[l] \/ data'[l] = Insert(data[l], k, call.val)
    BY ONLY <1>2, <2>1, <2>2 DEF Leaves
  <2> QED
    BY ONLY <2>2, <2>3 DEF Insert
<1>5. /\ Allocated' = Allocated /\ Leaves' = Leaves /\ Inner' = Inner
      /\ \A n \in Node \ {l} : Held'[n] = Held[n]
      /\ Held'[l] = DOMAIN data'[l]
  BY <1>1, <1>3, LeafFrame DEF Sound
<1>6. \A n \in Node : Held'[n] = Held[n]
  BY <1>1, <1>4, <1>5 DEF Basic
<1>7. \A m, n \in Allocated :
        m # n /\ h[m] = h[n] /\ Precedes(Held, m, n) => Precedes(Held', m, n)
  BY <1>1, <1>6 DEF Precedes, Basic
<1>8. Exact({})' /\ Populated({})' /\ StaleOK(h, {})'
  <2>1. Exact({})'
    <3>1. \A p \in Inner : \A s \in DOMAIN children[p] : children[p][s] \in Node
      BY <1>1 DEF Sound, Family, Basic
    <3> QED
      BY <1>1, <1>3, <1>5, <1>6, <3>1 DEF Exact, Sound, leafVars, chain
  <2>2. Populated({})'
    BY <1>1, <1>3, <1>5, <1>6 DEF Populated, Sound, Basic, leafVars
  <2> QED
    BY <2>1, <2>2 DEF StaleOK
<1>9. Sound(h, {}, {}, {})'
  BY <1>1, <1>3, <1>7, <1>8, LeafChange
<1>10. Running(h)'
  BY <1>1, <1>5
     DEF Running, Searching, Promoting, Fixing, Erasing, Resting, Known, Basic, args
<1>11. Shape(h)'
  BY <1>9, <1>10, SettledNext
<1>12. Counted'
  <2>1. Elements' = Elements
    BY <1>1, <1>5, <1>6 DEF Elements, Basic, Leaves
  <2> QED
    BY <2>1 DEF Counted, Clear
<1>13. KeepsSizes
  <2>1. Light = {}
    BY DEF Light
  <2>2. PICK T : T = {}
    OBVIOUS
  <2>3. root' = root /\ \A m : IsLeaf(m)' <=> IsLeaf(m)
    BY DEF IsLeaf
  <2>4. \A m \in Allocated' \ T :
          /\ m \in Allocated /\ (IsLeaf(m)' <=> IsLeaf(m)) /\ Held'[m] = Held[m]
          /\ m = root => m = root'
          /\ m \in Light => m \in Light'
    BY <1>1, <1>5, <1>6, <2>1, <2>3 DEF Basic
  <2>5. \A m \in T : m \in Allocated' => WellFilled(m)'
    BY <2>2
  <2>6. pc' = "promote" => (Cardinality(Held[node]) >= UnderflowThreshold(node))'
    OBVIOUS
  <2>7. Sized => Sized'
    BY ONLY <2>4, <2>5, <2>6, SizesKept
  <2> QED
    BY <2>7 DEF KeepsSizes
<1> QED
  BY <1>11, <1>12, <1>13

\* A key that belongs to leaf l is on its side of the keys of other leaves.
LEMMA CoveredKey ==
  ASSUME Basic, NEW h, Kinds(h), Levels(h), NEW l \in Leaves, NEW x \in Key, Covers(h, l, x)
  PROVE  /\ \A m \in Allocated \ {l} : h[m] = h[l] =>
              /\ Precedes(Held, l, m) => \A y \in Held[m] : x < y
              /\ Precedes(Held, m, l) => \A y \in Held[m] : y < x
         /\ \A m \in Leaves \ {l} : x \notin Held[m]
<1>1. x \in Int /\ l \in Allocated /\ l \in Node /\ Held[l] \subseteq Int
  BY KeyAssumption DEF Basic
<1>2. ASSUME NEW m \in Allocated \ {l}, h[m] = h[l]
      PROVE  /\ Precedes(Held, l, m) => \A y \in Held[m] : x < y
             /\ Precedes(Held, m, l) => \A y \in Held[m] : y < x
  <2>1. m \in Level(h, l) \ {l} /\ Held[m] \subseteq Int
    BY <1>2 DEF Level, Basic
  <2> QED
    BY <1>1, <2>1 DEF Covers, Precedes
<1>3. ASSUME NEW m \in Leaves \ {l} PROVE x \notin Held[m]
  <2>1. m \in Allocated \ {l} /\ h[m] = h[l] /\ Held[m] \subseteq Int
    BY <1>1 DEF Kinds, Leaves, Basic
  <2>2. Precedes(Held, l, m) \/ Precedes(Held, m, l)
    BY <1>1, <2>1 DEF Levels, Layered
  <2> QED
    BY <1>1, <1>2, <2>1, <2>2
<1> QED
  BY <1>2, <1>3

LEMMA InsertRoomShape ==
  ASSUME IInv, IInv', NEW h, Shape(h), Counted, InsertRoom
  PROVE  Shape(h)' /\ Counted' /\ KeepsSizes
<1> USE DEF AtLeaf
<1>0. pc = "leaf"
  BY DEF InsertRoom
<1>1. /\ Sound(h, {}, {}, {}) /\ Basic /\ Basic' /\ node \in Leaves
      /\ Covers(h, node, k) /\ k \in Key /\ k \in Int
  BY <1>0, Settled, HeldBasic, HeldBasicNext, KeyAssumption
     DEF Shape, Running, Searching, Leaves, Basic, Allocated, IInv, ArgumentsOK
<1>2. PICK l \in Leaves, x \in Key : l = node /\ x = k
  BY <1>1
<1>3. UNCHANGED leafVars /\ data' = [data EXCEPT ![l] = Insert(data[l], x, call.val)]
  BY <1>2 DEF InsertRoom, leafVars, chain
<1>4. \A n \in Node \ {l} : data'[n] = data[n]
  BY <1>3, Parts DEF IInv, HeapOK, Maps
<1>5. /\ Allocated' = Allocated /\ Leaves' = Leaves /\ Inner' = Inner
      /\ \A n \in Node \ {l} : Held'[n] = Held[n]
      /\ Held'[l] = DOMAIN data'[l]
      /\ Kinds(h)' /\ Top(h)' /\ Family(h, {})'
  BY <1>1, <1>3, <1>4, LeafFrame DEF Sound
<1>6. Held'[l] = Held[l] \cup {x} /\ x \notin Held[l]
  <2>1. data'[l] = Insert(data[l], x, call.val)
    BY <1>1, <1>3, Parts DEF IInv, HeapOK, Maps, Basic
  <2> QED
    BY <1>1, <1>2, <1>5, <2>1 DEF Insert, Basic, InsertRoom
<1>7. /\ \A m \in Allocated \ {l} : h[m] = h[l] =>
           /\ Precedes(Held, l, m) => \A y \in Held[m] : x < y
           /\ Precedes(Held, m, l) => \A y \in Held[m] : y < x
      /\ \A m \in Leaves \ {l} : x \notin Held[m]
  BY <1>1, <1>2, CoveredKey DEF Sound
<1>8. \A m, n \in Allocated :
        m # n /\ h[m] = h[n] /\ Precedes(Held, m, n) => Precedes(Held', m, n)
  <2>1. l \in Allocated /\ \A n \in Allocated \ {l} : Held'[n] = Held[n]
    BY <1>1, <1>5 DEF Basic
  <2> QED
    BY ONLY <1>6, <1>7, <2>1, GrowOrder
<1>9. Levels(h)' /\ \A n : IsLeaf(n)' <=> IsLeaf(n)
  <2>1. Layered(Allocated, h, Held')
    BY <1>1, <1>8, OrderKept DEF Sound, Levels
  <2> QED
    BY <1>1, <1>3, <1>4, <1>5, <2>1, LeafFrame DEF Levels, Sound
<1>10. \A p \in Inner : \A s \in DOMAIN children[p] :
         children[p][s] \in Node /\ children[p][s] # root
  <2>1. \A p \in Inner : \A s \in Held[p] : children[p][s] # root
    BY <1>1, RootHasNoSlot DEF Sound
  <2>2. \A p \in Inner : \A s \in DOMAIN children[p] : children[p][s] \in Allocated
    BY <1>1 DEF Sound, Family
  <2> QED
    BY <1>1, <2>1, <2>2 DEF Basic
<1>11. Exact({l})'
  BY <1>1, <1>3, <1>5, <1>10 DEF Exact, Sound, leafVars, chain
<1>12. Populated({})'
  <2>1. Allocated \subseteq Node /\ l \notin Inner
    BY <1>1 DEF Basic
  <2> QED
    BY <1>1, <1>3, <1>5, <1>6, <2>1 DEF Populated, Sound, leafVars, chain
<1>13. StaleOK(h, {l})'
  <2>1. \A p \in Inner : \A s \in Held[p] : children[p][s] = l => s \in Held[l]
    BY <1>1 DEF Sound, Exact, Basic, First
  <2>2. (\A p \in Inner : \A s \in Held[p] : children[p][s] = l => s \in Held[l])'
    BY <1>1, <1>3, <1>5, <1>6, <2>1 DEF leafVars, chain, Basic
  <2>3. (\A p \in Inner : \A s \in Held[p] : children[p][s] = l =>
          \A y \in Held[l] : \A q \in Inner : \A t \in Held[q] :
            t # s => t # y /\ (t < s <=> t < y))'
    BY <1>1, <1>5, <1>9, <1>11, <2>2, LeafSeparatorsMoveNext DEF LeafSeparators
  <2> QED
    BY <1>1, <2>3 DEF StaleOK, Basic, First
<1>14. Counted'
  <2>1. Elements' = Elements \cup {x} /\ x \notin Elements
    BY <1>1, <1>5, <1>6, <1>7 DEF Elements, Basic, Leaves
  <2>2. size' = size + 1 /\ IsFiniteSet(Elements)
    BY <1>1, ElementsFinite DEF InsertRoom
  <2> QED
    BY <2>1, <2>2, FS_AddElement DEF Counted
<1>15. Known' /\ l \in Leaves' /\ it'.leaf = l /\ node' = l /\ k' = x
  BY <1>1, <1>2, <1>5 DEF Known, InsertRoom, Shape, Running, Basic, args
<1>s. KeepsSizes
  <2> SUFFICES ASSUME Sized PROVE Sized'
    BY DEF KeepsSizes
  <2>1. Cardinality(Held[l]) \in Nat /\ Cardinality(Held'[l]) = Cardinality(Held[l]) + 1
    BY <1>1, <1>6, FS_AddElement, FS_CardinalityType, ZenonT(60) DEF Basic
  <2>2. pc = "leaf" /\ pc' \in {"fix", "answer"} /\ cont' = "answer"
    BY DEF InsertRoom, AtLeaf
  <2>3. Light = {} /\ l \in Allocated /\ pc' # "promote"
    BY <1>1, <2>2 DEF Light, Basic
  <2>4. Cardinality(Held[l]) < LeafNodeSize
    BY <1>1, <1>2 DEF InsertRoom, Size, Basic
  <2>5. l = root \/ Cardinality(Held[l]) >= UnderflowThreshold(l)
    BY <2>3, EnoughKeys
  <2>6. /\ Cardinality(Held'[l]) =< LeafNodeSize
        /\ l = root \/ Cardinality(Held'[l]) >= UnderflowThreshold(l)
    BY <2>1, <2>4, <2>5, Thresholds, SizeAssumption
  <2> QED
    BY <1>1, <1>3, <1>5, <2>3, <2>6, LeafSizes
<1>16. CASE pc' = "fix"
  <2>1. Rank(Held[l], x) = 0
    BY <1>1, <1>2, <1>16 DEF InsertRoom, Basic
  <2>2. \A t \in Held[l] : x =< t
    <3>1. Held[l] \subseteq Int /\ IsFiniteSet(Held[l])
      BY <1>1 DEF Basic
    <3>2. {t \in Held[l] : t < x} \subseteq Held[l]
      OBVIOUS
    <3>3. {t \in Held[l] : t < x} = {}
      BY <2>1, <3>1, <3>2, FS_Subset, FS_EmptySet DEF Rank
    <3> QED
      BY <1>1, <1>2, <3>1, <3>3
  <2>3. x \in First(Held'[l])
    BY <1>1, <1>2, <1>6, <2>2 DEF First
  <2>4. Fixing' /\ cont' = "answer"
    BY <1>1, <1>5, <1>15, <2>3 DEF Fixing, InsertRoom, Basic
  <2>5. Running(h)'
    BY <1>15, <1>16, <2>4 DEF Running, Searching, Promoting, Erasing, Resting
  <2>6. Sound(h, {}, {l}, {})'
    BY <1>1, <1>3, <1>4, <1>8, <1>11, <1>12, <1>13, LeafChange
  <2>7. Unplaced' = {} /\ Stale' = {l} /\ Light' = {}
    BY <1>15, <1>16, <2>4 DEF Unplaced, Stale, Light
  <2> QED
    BY <1>s, <1>14, <2>5, <2>6, <2>7 DEF Shape
<1>17. CASE pc' # "fix"
  <2>1. pc' = "answer" /\ (Rank(Held[l], x) # 0 \/ parent[l] = Null)
    BY <1>1, <1>2, <1>17 DEF InsertRoom, Basic
  <2>2. Exact({})'
    <3>1. CASE l = root
      BY <1>3, <1>5, <1>10, <1>11, <3>1 DEF Exact, leafVars, chain
    <3>2. CASE l # root
      <4>1. parent[l] # Null
        BY <1>1, <3>2 DEF Sound, Family, Basic
      <4>2. \E t \in Held[l] : t < x
        BY <2>1, <4>1, FS_EmptySet DEF Rank
      <4>3. First(Held[l]) \subseteq First(Held[l] \cup {x})
        <5>1. Held[l] \subseteq Int
          BY <1>1 DEF Basic
        <5> QED
          BY <1>1, <1>2, <4>2, <5>1 DEF First
      <4> QED
        BY <1>1, <1>3, <1>5, <1>6, <1>10, <4>3 DEF Exact, Sound, leafVars, chain
    <3> QED
      BY <3>1, <3>2
  <2>3. StaleOK(h, {})'
    BY DEF StaleOK
  <2>4. Sound(h, {}, {}, {})'
    BY <1>1, <1>3, <1>4, <1>8, <1>12, <2>2, <2>3, LeafChange
  <2>5. Running(h)'
    BY <1>15, <2>1 DEF Running, Searching, Promoting, Fixing, Erasing, Resting
  <2> QED
    BY <1>s, <1>14, <2>1, <2>4, <2>5, SettledNext
<1> QED
  BY <1>16, <1>17

\* An element leaves its leaf.
LEMMA EraseKey ==
  ASSUME IInv, Basic, Basic', NEW h, Sound(h, {}, {}, {}), Counted, NEW l \in Leaves, l = it.leaf,
         NEW x \in DOMAIN data[l], Erase(x)
  PROVE  /\ UNCHANGED leafVars /\ \A n \in Node \ {l} : data'[n] = data[n]
         /\ Held'[l] = Held[l] \ {x} /\ x \in Held[l] /\ Rank(Held[l], x) = it.idx
         /\ \A m, n \in Allocated :
              m # n /\ h[m] = h[n] /\ Precedes(Held, m, n) => Precedes(Held', m, n)
         /\ Exact({l})' /\ Counted'
         /\ \A p \in Inner : \A s \in DOMAIN children[p] :
              children[p][s] \in Node /\ children[p][s] # root
<1>1. UNCHANGED leafVars /\ data' = [data EXCEPT ![l] = Without(data[l], {x})] /\ size' = size - 1
  BY DEF Erase, leafVars, chain
<1>2. (\A n \in Node \ {l} : data'[n] = data[n]) /\ data'[l] = Without(data[l], {x})
  BY <1>1, Parts DEF IInv, HeapOK, Maps, Basic
<1>3. /\ Allocated' = Allocated /\ Leaves' = Leaves /\ Inner' = Inner
      /\ \A n \in Node \ {l} : Held'[n] = Held[n]
      /\ Held'[l] = DOMAIN data'[l]
  BY <1>1, <1>2, LeafFrame DEF Sound
<1>4. Held'[l] = Held[l] \ {x} /\ x \in Held[l] /\ Rank(Held[l], x) = it.idx
  <2>1. Held[l] = DOMAIN data[l]
    BY DEF Basic
  <2> QED
    BY <1>2, <1>3, <2>1 DEF Without, Restrict, Erase, At
<1>5. \A n \in Allocated : Held'[n] \subseteq Held[n]
  BY <1>3, <1>4 DEF Basic
<1>6. \A m, n \in Allocated :
        m # n /\ h[m] = h[n] /\ Precedes(Held, m, n) => Precedes(Held', m, n)
  BY <1>5 DEF Precedes
<1>7. \A p \in Inner : \A s \in DOMAIN children[p] :
        children[p][s] \in Node /\ children[p][s] # root
  <2>1. \A p \in Inner : \A s \in Held[p] : children[p][s] # root
    BY RootHasNoSlot DEF Sound
  <2>2. \A p \in Inner : \A s \in DOMAIN children[p] : children[p][s] \in Allocated
    BY DEF Sound, Family
  <2> QED
    BY <2>1, <2>2 DEF Basic
<1>8. Exact({l})'
  BY <1>1, <1>3, <1>7 DEF Exact, Sound, leafVars, chain
<1>9. Counted'
  <2>1. \A m \in Leaves \ {l} : x \notin Held[m]
    <3> SUFFICES ASSUME NEW m \in Leaves \ {l}, x \in Held[m] PROVE FALSE
      OBVIOUS
    <3>1. l \in Allocated /\ m \in Allocated /\ l # m /\ h[l] = h[m]
      BY DEF Sound, Kinds, Basic, Leaves
    <3> QED
      BY <1>4, <3>1, SlotOrder DEF Sound
  <2>2. Elements' = Elements \ {x} /\ x \in Elements
    BY <1>3, <1>4, <2>1 DEF Elements, Basic, Leaves
  <2>3. IsFiniteSet(Elements)
    BY ElementsFinite
  <2> QED
    BY <1>1, <2>2, <2>3, FS_RemoveElement DEF Counted
<1> QED
  BY <1>1, <1>2, <1>4, <1>6, <1>7, <1>8, <1>9

LEMMA EraseFromRootShape ==
  ASSUME IInv, IInv', NEW h, Shape(h), Counted, EraseFromRoot
  PROVE  Shape(h)' /\ Counted' /\ KeepsSizes
<1>0. pc = "erase" /\ pc' \in {"range", "answer"} /\ it.leaf = root
  BY DEF EraseFromRoot, EraseReturns
<1>1. Sound(h, {}, {}, {}) /\ Basic /\ Basic' /\ it.leaf \in Leaves /\ sib = Null
  BY <1>0, Settled, HeldBasic, HeldBasicNext DEF Shape, Running, Erasing
<1>2. PICK l \in Leaves, x \in DOMAIN data[it.leaf] : l = it.leaf /\ Erase(x)
  BY <1>1 DEF EraseFromRoot
<1>3. /\ UNCHANGED leafVars /\ \A n \in Node \ {l} : data'[n] = data[n]
      /\ Held'[l] = Held[l] \ {x} /\ x \in Held[l]
      /\ \A m, n \in Allocated :
           m # n /\ h[m] = h[n] /\ Precedes(Held, m, n) => Precedes(Held', m, n)
      /\ Exact({l})' /\ Counted'
      /\ \A p \in Inner : \A s \in DOMAIN children[p] :
           children[p][s] \in Node /\ children[p][s] # root
  BY <1>1, <1>2, EraseKey
<1>4. /\ Allocated' = Allocated /\ Leaves' = Leaves /\ Inner' = Inner
      /\ \A n \in Node \ {l} : Held'[n] = Held[n]
  BY <1>1, <1>3, LeafFrame DEF Sound
<1>5. Exact({})'
  BY <1>0, <1>2, <1>3, <1>4 DEF Exact, leafVars, chain
<1>6. Populated({})'
  <2>1. Allocated \subseteq Node /\ l \notin Inner
    BY <1>1 DEF Basic
  <2> QED
    BY <1>0, <1>1, <1>2, <1>3, <1>4, <2>1 DEF Populated, Sound, leafVars, chain
<1>7. Sound(h, {}, {}, {})'
  <2>1. StaleOK(h, {})'
    BY DEF StaleOK
  <2> QED
    BY <1>1, <1>3, <1>5, <1>6, <2>1, LeafChange
<1>8. sib' = Null /\ node' = node /\ (it' = it \/ it' = EndIt)
  BY <1>1, <1>2 DEF EraseFromRoot, Erase
<1>9. Known' /\ Erasing'
  BY <1>0, <1>1, <1>4, <1>8 DEF Known, Erasing, EndIt, Shape, Running
<1>10. Running(h)'
  BY <1>0, <1>9 DEF Running, Searching, Promoting, Fixing, Resting
<1>11. KeepsSizes
  <2> SUFFICES ASSUME Sized PROVE Sized'
    BY DEF KeepsSizes
  <2>1. Cardinality(Held[l]) \in Nat /\ Cardinality(Held'[l]) = Cardinality(Held[l]) - 1
    <3>1. IsFiniteSet(Held[l]) /\ x \in Held[l] /\ Held'[l] = Held[l] \ {x}
      BY <1>1, <1>3 DEF Basic
    <3> QED
      BY ONLY <3>1, FS_RemoveElement, FS_CardinalityType
  <2>2. Light = {} /\ pc' # "promote"
    BY <1>0 DEF Light
  <2>3. l = root /\ Cardinality(Held[l]) =< LeafNodeSize
    BY <1>0, <1>1, <1>2 DEF Sized, WellFilled, Capacity, Leaves, Basic
  <2>4. Cardinality(Held'[l]) =< LeafNodeSize
    BY <2>1, <2>3, SizeAssumption
  <2> QED
    BY <1>1, <1>3, <1>4, <2>2, <2>3, <2>4, LeafSizes
<1> QED
  BY <1>11, <1>0, <1>3, <1>7, <1>10, SettledNext

LEMMA EraseFromLeafShape ==
  ASSUME IInv, IInv', NEW h, Shape(h), Counted, EraseFromLeaf
  PROVE  Shape(h)' /\ Counted' /\ KeepsSizes
<1>0. pc = "erase"
  BY DEF EraseFromLeaf
<1>1. Sound(h, {}, {}, {}) /\ Basic /\ Basic' /\ it.leaf \in Leaves /\ sib = Null
  BY <1>0, Settled, HeldBasic, HeldBasicNext DEF Shape, Running, Erasing
<1>2. PICK l \in Leaves, x \in DOMAIN data[it.leaf] :
        /\ l = it.leaf /\ Erase(x)
        /\ LET left == Size(data[l]) - 1
               rebalance == left = 0 \/ left < UnderflowThreshold(l)
               after == IF rebalance THEN "underflow" ELSE "next"
               newMin == ChangesMin(l, left)
           IN  /\ it' = [leaf |-> l, idx |-> IF it.idx < left THEN it.idx ELSE NoIndex]
               /\ node' = l
               /\ k' \in IF newMin THEN First(DOMAIN data[l] \ {x}) ELSE {k}
               /\ pc' = IF newMin THEN "fix" ELSE after
               /\ cont' = after
  BY <1>1 DEF EraseFromLeaf
<1>3. /\ UNCHANGED leafVars /\ \A n \in Node \ {l} : data'[n] = data[n]
      /\ Held'[l] = Held[l] \ {x} /\ x \in Held[l] /\ Rank(Held[l], x) = it.idx
      /\ \A m, n \in Allocated :
           m # n /\ h[m] = h[n] /\ Precedes(Held, m, n) => Precedes(Held', m, n)
      /\ Exact({l})' /\ Counted'
      /\ \A p \in Inner : \A s \in DOMAIN children[p] :
           children[p][s] \in Node /\ children[p][s] # root
  BY <1>1, <1>2, EraseKey
<1>4. /\ Allocated' = Allocated /\ Leaves' = Leaves /\ Inner' = Inner
      /\ \A n \in Node \ {l} : Held'[n] = Held[n]
  BY <1>1, <1>3, LeafFrame DEF Sound
<1>5. /\ l \in Allocated /\ l \notin Inner /\ l # root /\ parent[l] # Null
      /\ IsFiniteSet(Held[l]) /\ Held[l] \subseteq Int /\ Held[l] = DOMAIN data[l]
  <2>1. l # root
    BY <1>1, <1>2 DEF EraseFromLeaf, Sound, Top, Leaves
  <2> QED
    BY <1>1, <2>1 DEF Sound, Family, Basic
<1>6. PICK y \in Held[l] : y # x
  BY <1>1, <1>5 DEF Sound, Populated
<1>7. IsFiniteSet(Held'[l]) /\ Cardinality(Held'[l]) = Size(data[l]) - 1 /\ Held'[l] # {}
  BY <1>3, <1>5, <1>6, FS_RemoveElement DEF Size
<1> DEFINE left == Size(data[l]) - 1
<1>8. left \in Nat /\ left # 0 /\ left > 0
  <2>1. Cardinality(Held'[l]) \in Nat /\ Cardinality(Held'[l]) # 0
    BY <1>7, FS_CardinalityType, FS_EmptySet
  <2>2. PICK c : c = Cardinality(Held'[l])
    OBVIOUS
  <2>3. left = c
    BY <1>7, <2>2, Zenon
  <2> HIDE DEF left
  <2> QED
    BY <2>1, <2>2, <2>3
<1> DEFINE after == IF left < UnderflowThreshold(l) THEN "underflow" ELSE "next"
           newMin == it.idx = 0
<1>9. /\ it'.leaf = l /\ node' = l
      /\ k' \in IF newMin THEN First(Held'[l]) ELSE {k}
      /\ pc' = IF newMin THEN "fix" ELSE after
      /\ cont' = after /\ sib' = Null
  BY <1>1, <1>2, <1>3, <1>5, <1>8 DEF ChangesMin, Erase
<1>10. Populated({l})'
  BY <1>1, <1>3, <1>4, <1>5, <1>7 DEF Populated, Sound, Basic, leafVars, chain
<1>11. after = "next" => Populated({})'
  <2> SUFFICES ASSUME after = "next" PROVE Populated({})'
    OBVIOUS
  <2>1. Cardinality(Held'[l]) # 1
    BY <1>7, <1>8, Thresholds
  <2>2. \E u, v \in Held'[l] : u # v
    BY <1>7, <2>1, TwoKeys
  <2> QED
    BY <1>10, <2>2 DEF Populated
<1> HIDE DEF left
<1>12. Known' /\ l \in Leaves'
  BY <1>1, <1>2, <1>4, <1>9 DEF Known, Basic
<1>13. PICK L : L = IF after = "underflow" THEN {l} ELSE {}
  OBVIOUS
<1>14. Populated(L)'
  BY <1>10, <1>11, <1>13
<1>s. KeepsSizes
  <2> SUFFICES ASSUME Sized PROVE Sized'
    BY DEF KeepsSizes
  <2>1. Cardinality(Held[l]) \in Nat /\ Cardinality(Held[l]) = left + 1 /\ left \in Nat
    BY <1>3, <1>5, <1>8, FS_RemoveElement, FS_CardinalityType DEF left, Size
  <2>2. Cardinality(Held'[l]) = left
    BY <1>7 DEF left
  <2>3. Light = {} /\ pc' # "promote"
    BY <1>0, <1>9 DEF Light
  <2>4. l \in Light' \/ ~(left < UnderflowThreshold(l))
    BY <1>9 DEF Light
  <2>5. Cardinality(Held[l]) =< LeafNodeSize /\ Cardinality(Held[l]) >= UnderflowThreshold(l)
    BY <1>1, <1>5, <2>3, EnoughKeys DEF Sized, WellFilled, Capacity, Leaves
  <2> HIDE DEF after, newMin
  <2>6. /\ Cardinality(Held'[l]) =< LeafNodeSize
        /\ \/ Cardinality(Held'[l]) >= UnderflowThreshold(l)
           \/ l \in Light' /\ Cardinality(Held'[l]) + 1 >= UnderflowThreshold(l)
    BY <2>1, <2>2, <2>4, <2>5, Thresholds, SizeAssumption
  <2> QED
    BY <1>1, <1>3, <1>4, <2>3, <2>6, LeafSizes
<1>15. CASE newMin
  <2>1. StaleOK(h, {l})'
    <3>1. \A p \in Inner : \A s \in Held[p] : children[p][s] = l => s \in Held[l]
      BY <1>1 DEF Sound, Exact, Basic, First
    <3>2. \A p \in Inner : \A s \in Held[p] : children[p][s] = l =>
            \A z \in Held[l] : \A q \in Inner : \A t \in Held[q] :
              t # s => t # z /\ (t < s <=> t < z)
      <4>1. Exact({l})
        BY <1>1 DEF Sound, Exact
      <4> QED
        BY <1>1, <3>1, <4>1, LeafSeparatorsMove DEF LeafSeparators, Sound
    <3>3. (\A p \in Inner : \A s \in Held[p] : children[p][s] = l =>
            \A z \in Held[l] : \A q \in Inner : \A t \in Held[q] :
              t # s => t # z /\ (t < s <=> t < z))'
      <4>1. \A n \in Inner : Held'[n] = Held[n]
        BY <1>1, <1>4, <1>5 DEF Basic
      <4>2. Held'[l] \subseteq Held[l] /\ UNCHANGED children
        BY <1>3 DEF leafVars
      <4> HIDE DEF newMin, after
      <4> QED
        BY ONLY <1>4, <3>2, <4>1, <4>2
    <3> QED
      BY <1>1, <3>3 DEF StaleOK, Basic, First
  <2>2. Sound(h, {}, {l}, L)'
    BY <1>1, <1>3, <1>14, <2>1, LeafChange
  <2>3. Unplaced' = {} /\ Stale' = {l} /\ Light' = L
    BY <1>9, <1>13, <1>15 DEF Unplaced, Stale, Light
  <2>4. Fixing'
    BY <1>3, <1>4, <1>5, <1>9, <1>12, <1>15 DEF Fixing, leafVars
  <2>5. Running(h)'
    BY <1>9, <1>12, <1>15, <2>4 DEF Running, Searching, Promoting, Erasing, Resting
  <2> QED
    BY <1>s, <1>3, <2>2, <2>3, <2>5 DEF Shape
<1>16. CASE ~newMin
  <2>1. Exact({})'
    <3>1. \E t \in Held[l] : t < x
      BY <1>3, <1>16, FS_EmptySet DEF Rank
    <3>2. First(Held[l]) \subseteq First(Held[l] \ {x})
      BY <1>3, <1>5, <3>1 DEF First
    <3> QED
      BY <1>1, <1>3, <1>4, <3>2 DEF Exact, Sound, leafVars, chain
  <2>2. Sound(h, {}, {}, L)'
    <3>1. StaleOK(h, {})'
      BY DEF StaleOK
    <3> QED
      BY <1>1, <1>3, <1>14, <2>1, <3>1, LeafChange
  <2>3. Unplaced' = {} /\ Stale' = {} /\ Light' = L
    BY <1>9, <1>13, <1>16 DEF Unplaced, Stale, Light
  <2>4. Erasing'
    BY <1>1, <1>4, <1>9, <1>12, <1>16 DEF Erasing, Basic
  <2>5. Running(h)'
    BY <1>9, <1>12, <1>16, <2>4 DEF Running, Searching, Promoting, Fixing, Resting
  <2> QED
    BY <1>s, <1>3, <2>2, <2>3, <2>5 DEF Shape
<1> QED
  BY <1>15, <1>16

\* clear of a tree without internal nodes.
LEMMA ClearLeafShape ==
  ASSUME IInv, IInv', NEW h, Shape(h), Counted, ClearLeaf
  PROVE  Shape(h)' /\ Counted' /\ KeepsSizes
<1> USE DEF ClearLeaf, Clear, Start
<1>0. pc = "start" /\ pc' = "answer" /\ size' = 0
  OBVIOUS
<1>1. Sound(h, {}, {}, {}) /\ Basic /\ Basic'
  BY <1>0, Settled, HeldBasic, HeldBasicNext
<1>2. UNCHANGED leafVars
  BY DEF leafVars, chain
<1>3. it' = EndIt /\ sib' = Null /\ node' = Null
  BY <1>0 DEF Shape, Running, Resting, args
<1>4. Running(h)'
  BY <1>0, <1>3
     DEF Running, Searching, Promoting, Fixing, Erasing, Resting, Known, EndIt
<1>s. KeepsSizes
  <2> SUFFICES ASSUME Sized PROVE Sized'
    BY DEF KeepsSizes
  <2>1. Light = {} /\ pc' # "promote"
    BY <1>0 DEF Light
  <2>2. CASE size = 0
    <3>1. UNCHANGED <<root, heap>>
      BY <1>2, <2>2 DEF leafVars, heap, chain
    <3> QED
      BY <2>1, <3>1, SizesStand
  <2>3. CASE size # 0
    <3>1. PICK l \in Leaves : l = root
      BY <1>1, <2>3 DEF Sound, Top, Leaves, Basic
    <3>2. data' = [data EXCEPT ![l] = Empty]
      BY <2>3, <3>1
    <3>3. (\A n \in Node \ {l} : data'[n] = data[n]) /\ data'[l] = Empty
      BY <1>1, <3>2, Parts DEF IInv, HeapOK, Maps, Basic
    <3>4. Held'[l] = DOMAIN data'[l] /\ \A n \in Node \ {l} : Held'[n] = Held[n]
      BY <1>1, <1>2, <3>3, LeafFrame DEF Sound
    <3>5. Held'[l] = {}
      BY <3>3, <3>4 DEF Empty
    <3>6. Cardinality(Held'[l]) =< LeafNodeSize
      BY <3>5, FS_EmptySet, SizeAssumption
    <3> QED
      BY <1>1, <1>2, <2>1, <3>1, <3>4, <3>6, LeafSizes
  <2> QED
    BY <2>2, <2>3
<1>5. CASE size = 0
  <2>1. UNCHANGED <<heap, shapeVars, size>>
    BY <1>0, <1>2, <1>5 DEF heap, shapeVars, leafVars, chain
  <2> QED
    BY <1>s, <1>0, <1>4, <2>1, SameShape
<1>6. CASE size # 0
  <2>1. PICK l \in Leaves : l = root
    BY <1>1, <1>6 DEF Sound, Top, Leaves, Basic
  <2>2. data' = [data EXCEPT ![l] = Empty]
    BY <1>6, <2>1
  <2>3. (\A n \in Node \ {l} : data'[n] = data[n]) /\ data'[l] = Empty
    BY <1>1, <2>2, Parts DEF IInv, HeapOK, Maps, Basic
  <2>4. Allocated = {l} /\ Inner = {}
    <3>1. l \in Allocated /\ h[l] = 0
      BY <1>1 DEF Sound, Kinds, Basic, Leaves
    <3>2. ASSUME NEW n \in Allocated \ {l} PROVE FALSE
      <4>1. h[n] < h[l] /\ h[n] \in Nat
        BY <1>1, <2>1, <3>2, RootAlone DEF Sound, Kinds, Basic
      <4> QED
        BY <3>1, <4>1
    <3> QED
      BY <1>1, <3>1, <3>2 DEF Basic
  <2>5. /\ Allocated' = Allocated /\ Leaves' = Leaves /\ Inner' = Inner
        /\ Held'[l] = DOMAIN data'[l]
    BY <1>1, <1>2, <2>3, LeafFrame DEF Sound
  <2>6. Exact({})' /\ Populated({})' /\ StaleOK(h, {})'
    <3>1. root' = l
      BY <1>2, <2>1 DEF leafVars
    <3> QED
      BY <2>4, <2>5, <3>1 DEF Exact, Populated, StaleOK
  <2>7. Sound(h, {}, {}, {})'
    BY <1>1, <1>2, <2>3, <2>4, <2>6, LeafChange
  <2>8. Counted'
    <3>1. Elements' = {}
      BY <1>1, <2>1, <2>3, <2>4, <2>5 DEF Elements, Basic, Leaves, Empty
    <3> QED
      BY <1>0, <3>1, FS_EmptySet DEF Counted
  <2> QED
    BY <1>s, <1>0, <1>4, <2>7, <2>8, SettledNext
<1> QED
  BY <1>5, <1>6

----------------------------------------------------------------------------
(* update_parent_key_recursive. *)

\* Key s of node p is replaced by x.
Replaced(A, h, K, K1, p, s, x) ==
  /\ p \in A /\ s \in K[p] /\ x \in Int
  /\ \A m \in A : K[m] \subseteq Int
  /\ K1[p] = (K[p] \ {s}) \cup {x} /\ \A n \in A \ {p} : K1[n] = K[n]
  /\ \A m \in A \ {p} : h[m] = h[p] =>
       \A t \in K[m] : t # s => t # x /\ (t < s <=> t < x)

LEMMA ReplaceOrder ==
  ASSUME NEW A, NEW h, NEW K, NEW K1, NEW p, NEW s, NEW x, Replaced(A, h, K, K1, p, s, x)
  PROVE  \A m, n \in A : m # n /\ h[m] = h[n] /\ Precedes(K, m, n) => Precedes(K1, m, n)
<1> USE DEF Replaced
<1>1. s \in Int
  OBVIOUS
<1>2. ASSUME NEW m \in A \ {p}, h[m] = h[p]
      PROVE  /\ Precedes(K, m, p) => Precedes(K1, m, p)
             /\ Precedes(K, p, m) => Precedes(K1, p, m)
  <2>1. \A t \in K[m] : t \in Int /\ (t # s => t # x /\ (t < s <=> t < x))
    BY <1>2
  <2> QED
    BY <1>1, <1>2, <2>1 DEF Precedes
<1>3. \A m, n \in A \ {p} : Precedes(K, m, n) => Precedes(K1, m, n)
  BY DEF Precedes
<1> QED
  BY <1>2, <1>3

\* unsafe_update_key finds the stale separator.
LEMMA StaleSlot ==
  ASSUME Basic, NEW h, NEW O, Family(h, O), NEW p \in Inner, NEW s \in Held[p],
         NEW n, n = children[p][s], NEW x \in Int,
         \A t \in Held[p] : t # s => t # x /\ (t < s <=> t < x)
  PROVE  SlotsOf(n, x) = {s}
<1>1. parent[n] = p /\ Held[p] = DOMAIN children[p] /\ Held[p] \subseteq Int
  BY ChildFacts DEF Basic
<1>2. \A t \in Held[p] : children[p][t] = n => t = s
  BY ChildFacts
<1>3. s \in Ceil(Held[p], x) \cup Floor(Held[p], x)
  <2>1. \A t \in Held[p] : t \in Int
    BY <1>1
  <2>2. CASE s >= x
    BY <2>1, <2>2 DEF Ceil
  <2>3. CASE s < x
    BY <2>1, <2>3 DEF Floor
  <2> QED
    BY <2>1, <2>2, <2>3
<1>4. \A t \in Ceil(Held[p], x) \cup Floor(Held[p], x) : t \in Held[p]
  BY DEF Ceil, Floor
<1> QED
  BY <1>1, <1>2, <1>3, <1>4 DEF SlotsOf

\* The separator s of n becomes x.  Up is where the call goes on: at the parent p, whose
\* own separator is stale then, or nowhere.
FixStep(h, L, n, p, s, x, Up) ==
  /\ Sound(h, {}, {n}, L)
  /\ n = children[p][s]
  /\ UNCHANGED <<tree, kind, data, chain, parent>>
  /\ children' = [children EXCEPT ![p] = Insert(Without(children[p], {s}), x, n)]
  /\ Up = IF s \in First(Held[p]) /\ parent[p] # Null THEN {p} ELSE {}

FixDone(h, L, p, s, x, Up) ==
  /\ Sound(h, {}, Up, L)'
  /\ s \in First(Held[p]) => x \in First(Held'[p])
  /\ Allocated' = Allocated /\ Leaves' = Leaves /\ Inner' = Inner
  /\ Held'[p] = (Held[p] \ {s}) \cup {x} /\ x \notin Held[p] \ {s}
  /\ \A m \in Node \ {p} : Held'[m] = Held[m]

LEMMA FixTree ==
  ASSUME IInv, Basic, Basic', NEW h, NEW L, NEW n \in Allocated, NEW p \in Inner,
         NEW s \in Held[p], NEW x \in First(Held[n]), NEW Up, FixStep(h, L, n, p, s, x, Up)
  PROVE  FixDone(h, L, p, s, x, Up)
<1>0. /\ Sound(h, {}, {n}, L)
      /\ n = children[p][s]
      /\ UNCHANGED <<tree, kind, data, chain, parent>>
      /\ children' = [children EXCEPT ![p] = Insert(Without(children[p], {s}), x, n)]
      /\ Up = IF s \in First(Held[p]) /\ parent[p] # Null THEN {p} ELSE {}
  BY DEF FixStep
<1> USE <1>0
<1> USE DEF tree, chain
<1>1. /\ Allocated' = Allocated /\ Leaves' = Leaves /\ Inner' = Inner
      /\ \A m : IsLeaf(m)' <=> IsLeaf(m)
  BY DEF Allocated, Leaves, Inner, IsLeaf
<1>2. /\ h[p] = h[n] + 1 /\ parent[n] = p /\ n # p /\ p \in Node /\ n \in Node
      /\ h[n] \in Nat /\ h[p] \in Nat /\ p \in Allocated /\ x \in Int /\ s \in Int
      /\ Held[p] = DOMAIN children[p] /\ Held[p] \subseteq Int
  <2>1. h[p] = h[n] + 1 /\ parent[n] = p /\ p \in Node /\ n \in Node /\ p \in Allocated
    BY ChildFacts DEF Sound, Basic
  <2>2. h[n] \in Nat /\ h[p] \in Nat
    BY <2>1 DEF Sound, Kinds
  <2>3. n # p
    BY <2>1, <2>2
  <2> QED
    BY <2>1, <2>2, <2>3 DEF Basic, First
<1>3. \A q \in Inner : \A t \in Held[q] :
        t # s /\ (h[q] = h[p] \/ (h[q] > h[p] /\ s \in First(Held[p])))
          => t # x /\ (t < s <=> t < x)
  BY <1>2 DEF Sound, StaleOK, Basic
<1>4. /\ DOMAIN children'[p] = (Held[p] \ {s}) \cup {x}
      /\ children'[p][x] = n
      /\ \A t \in Held[p] \ {s} : children'[p][t] = children[p][t] /\ t # x
      /\ \A q \in Node \ {p} : children'[q] = children[q]
  <2>1. children \in [Node -> {children[q] : q \in Node}]
    BY Parts DEF IInv, HeapOK, Maps
  <2>2. children'[p] = Insert(Without(children[p], {s}), x, n)
    BY <1>2, <2>1
  <2>3. \A t \in Held[p] \ {s} : t # x
    BY <1>2, <1>3
  <2>4. DOMAIN children'[p] = (Held[p] \ {s}) \cup {x}
    BY <1>2, <2>2 DEF Insert, Without, Restrict
  <2>5. children'[p][x] = n
    BY <1>2, <2>2 DEF Insert, Without, Restrict
  <2>6. \A t \in Held[p] \ {s} : children'[p][t] = children[p][t]
    BY <1>2, <2>2, <2>3 DEF Insert, Without, Restrict
  <2> QED
    BY <2>1, <2>3, <2>4, <2>5, <2>6
<1>5. /\ Held'[p] = (Held[p] \ {s}) \cup {x}
      /\ \A m \in Node \ {p} : Held'[m] = Held[m]
  <2>1. Held'[p] = DOMAIN children'[p]
    BY <1>1 DEF Basic
  <2>2. \A m \in Node \ {p} : Held'[m] = Held[m]
    BY <1>1, <1>4 DEF Held, KeysOf
  <2> QED
    BY <1>4, <2>1, <2>2
<1>6. Kinds(h)' /\ Top(h)'
  <2>1. Kinds(h)'
    <3>1. \A m \in Node : m \in Inner' \/ DOMAIN children'[m] = {}
      BY <1>1, <1>4 DEF Sound, Kinds
    <3> QED
      BY <1>1, <3>1 DEF Sound, Kinds
  <2>2. Top(h)'
    BY <1>1 DEF Sound, Top
  <2> QED
    BY <2>1, <2>2
<1>7. Family(h, {})'
  <2>1. \A q \in Inner : \A t \in DOMAIN children'[q] :
          /\ children'[q][t] \in Allocated
          /\ parent[children'[q][t]] = q
          /\ h[q] = h[children'[q][t]] + 1
    <3>1. \A q \in Inner : \A t \in DOMAIN children[q] :
            /\ children[q][t] \in Allocated
            /\ parent[children[q][t]] = q
            /\ h[q] = h[children[q][t]] + 1
      BY DEF Sound, Family
    <3>2. ASSUME NEW t \in DOMAIN children'[p]
          PROVE  /\ children'[p][t] \in Allocated
                 /\ parent[children'[p][t]] = p
                 /\ h[p] = h[children'[p][t]] + 1
      <4>1. CASE t = x
        BY <1>2, <1>4, <4>1
      <4>2. CASE t # x
        <5>1. t \in Held[p] \ {s}
          BY <1>4, <3>2, <4>2
        <5>2. children'[p][t] = children[p][t] /\ t \in DOMAIN children[p]
          BY <1>2, <1>4, <5>1
        <5>3. p \in Inner
          OBVIOUS
        <5> QED
          BY ONLY <3>1, <5>2, <5>3
      <4> QED
        BY <4>1, <4>2
    <3>3. \A q \in Inner \ {p} : children'[q] = children[q]
      BY <1>4 DEF Basic
    <3> QED
      BY ONLY <3>1, <3>2, <3>3
  <2>2. \A q \in Inner : \A t, u \in DOMAIN children'[q] :
          children'[q][t] = children'[q][u] => t = u
    <3> SUFFICES ASSUME NEW q \in Inner, NEW t \in DOMAIN children'[q],
                        NEW u \in DOMAIN children'[q], children'[q][t] = children'[q][u]
                 PROVE  t = u
      OBVIOUS
    <3>1. \A v \in Held[p] : children[p][v] = n => v = s
      BY ChildFacts DEF Sound
    <3>2. CASE q = p
      <4>1. t # x => t \in Held[p] \ {s} /\ children'[p][t] = children[p][t]
        BY <1>4, <3>2
      <4>2. u # x => u \in Held[p] \ {s} /\ children'[p][u] = children[p][u]
        BY <1>4, <3>2
      <4>3. t # x => children'[p][t] # n
        BY <3>1, <4>1
      <4>4. u # x => children'[p][u] # n
        BY <3>1, <4>2
      <4>5. t # x /\ u # x => t = u
        BY <1>2, <3>2, <4>1, <4>2 DEF Sound, Family
      <4> QED
        BY <1>4, <3>2, <4>3, <4>4, <4>5
    <3>3. CASE q # p
      BY <1>4, <3>3 DEF Sound, Family, Basic
    <3> QED
      BY <3>2, <3>3
  <2>3. ASSUME NEW m \in Allocated, m # root
        PROVE  parent[m] \in Inner /\ \E t \in DOMAIN children'[parent[m]] :
                                         children'[parent[m]][t] = m
    <3>1. PICK t \in Held[parent[m]] : parent[m] \in Inner /\ children[parent[m]][t] = m
      BY <2>3, OwnParent DEF Sound
    <3>2. CASE parent[m] # p
      BY <1>4, <3>1, <3>2 DEF Basic
    <3>3. CASE parent[m] = p /\ t = s
      BY <1>4, <3>1, <3>3
    <3>4. CASE parent[m] = p /\ t # s
      BY <1>4, <3>1, <3>4
    <3> QED
      BY <3>2, <3>3, <3>4
  <2>4. UNCHANGED <<parent, root>>
    OBVIOUS
  <2> QED
    BY ONLY <1>1, <2>1, <2>2, <2>3, <2>4 DEF Family
<1>8. \A m, j \in Allocated :
        m # j /\ h[m] = h[j] /\ Precedes(Held, m, j) => Precedes(Held', m, j)
  <2>1. \A m \in Allocated : Held[m] \subseteq Int
    BY DEF Basic
  <2>2. \A j \in Allocated \ {p} : Held'[j] = Held[j]
    BY <1>5 DEF Basic
  <2>3. ASSUME NEW m \in Allocated \ {p}, h[m] = h[p], NEW t \in Held[m], t # s
        PROVE  t # x /\ (t < s <=> t < x)
    <3>1. m \in Inner
      BY <1>2, <2>3 DEF Sound, Kinds, Basic, Leaves
    <3> QED
      BY <1>3, <2>3, <3>1
  <2>4. PICK A, K, K1 : A = Allocated /\ K = Held /\ K1 = Held'
    OBVIOUS
  <2>5. Replaced(A, h, K, K1, p, s, x)
    BY <1>2, <1>5, <2>1, <2>2, <2>3, <2>4 DEF Replaced
  <2>6. \A m, j \in A : m # j /\ h[m] = h[j] /\ Precedes(K, m, j) => Precedes(K1, m, j)
    BY ONLY <2>5, ReplaceOrder
  <2> QED
    BY ONLY <2>4, <2>6
<1>9. Levels(h)'
  <2>1. Layered(Allocated, h, Held')
    BY <1>8, OrderKept DEF Sound, Levels
  <2> QED
    BY <1>1, <2>1 DEF Levels
<1>10. Chained'
  <2>1. \A l \in Leaves : Held'[l] = Held[l]
    BY <1>5 DEF Basic
  <2>2. \A m, j \in Leaves : m # j /\ Precedes(Held, m, j) => Precedes(Held', m, j)
    BY <2>1 DEF Precedes
  <2>3. Linked(Leaves, Held', nextLeaf, prevLeaf, leftmostLeaf, rightmostLeaf)
    BY <2>2, LinksKept DEF Sound, Chained
  <2> QED
    BY <1>1, <2>3 DEF Chained
<1>11. Populated(L)'
  <2>1. p \in L \/ \E u, v \in Held'[p] : u # v
    <3>1. p \in L \/ \E u \in Held[p] : u # s
      BY <1>2 DEF Sound, Populated
    <3> QED
      BY <1>4, <1>5, <3>1
  <2> QED
    BY <1>1, <1>5, <2>1 DEF Sound, Populated, Basic
<1>12. s \in First(Held[p]) => x \in First(Held'[p])
  <2>1. \A t \in Held[p] : t # s => t # x /\ (t < s <=> t < x)
    BY <1>2, <1>3
  <2> QED
    BY <1>2, <1>5, <2>1 DEF First
<1>13. Exact(Up)'
  <2> SUFFICES ASSUME NEW q \in Inner, NEW t \in DOMAIN children'[q],
                      children'[q][t] \notin Up
               PROVE  t \in First(Held'[children'[q][t]])
    BY <1>1 DEF Exact
  <2>1. CASE q = p
    <3>1. CASE t = x
      BY <1>2, <1>4, <1>5, <2>1, <3>1 DEF Basic
    <3>2. CASE t # x
      <4>1. t \in Held[p] \ {s} /\ children'[q][t] = children[p][t]
        BY <1>4, <2>1, <3>2
      <4>2. children[p][t] # n /\ children[p][t] \in Allocated /\ h[p] = h[children[p][t]] + 1
        BY <4>1, ChildFacts DEF Sound
      <4>3. children[p][t] # p /\ children[p][t] \in Node
        BY <1>2, <4>2 DEF Basic
      <4>4. t \in First(Held[children[p][t]])
        BY <1>2, <4>1, <4>2 DEF Sound, Exact
      <4> QED
        BY <1>5, <4>1, <4>3, <4>4
    <3> QED
      BY <3>1, <3>2
  <2>2. CASE q # p
    <3>1. t \in Held[q] /\ children'[q][t] = children[q][t]
      BY <1>4, <2>2 DEF Basic
    <3>2. children[q][t] \in Allocated /\ parent[children[q][t]] = q /\ children[q][t] # n
      BY <1>2, <2>2, <3>1, ChildFacts DEF Sound
    <3>3. t \in First(Held[children[q][t]])
      BY <3>1, <3>2 DEF Sound, Exact, Basic
    <3>4. CASE children[q][t] # p
      <4>1. children[q][t] \in Node \ {p}
        BY <3>2, <3>4 DEF Basic
      <4>2. Held'[children[q][t]] = Held[children[q][t]]
        BY <1>5, <4>1
      <4> QED
        BY ONLY <3>1, <3>3, <4>2
    <3>5. CASE children[q][t] = p
      <4>1. parent[p] # Null
        BY <3>2, <3>5 DEF Basic
      <4>2. s \notin First(Held[p])
        BY <3>1, <3>5, <4>1
      <4>3. \A u \in Held[p] : u # s => u # x /\ (u < s <=> u < x)
        BY <1>2, <1>3
      <4>4. t \in Held[p] /\ t # s /\ t \in Int /\ \A u \in Held[p] : t =< u
        BY <1>2, <3>3, <3>5, <4>2 DEF First
      <4>5. t < s
        BY <1>2, <4>4
      <4>6. t < x
        BY <4>3, <4>4, <4>5
      <4>7. t \in First(Held'[p])
        BY <1>2, <1>5, <4>2, <4>4, <4>6 DEF First
      <4>8. children'[q][t] = p
        BY <3>1, <3>5
      <4> QED
        BY <4>7, <4>8
    <3> QED
      BY <3>4, <3>5
  <2> QED
    BY <2>1, <2>2
<1>14. StaleOK(h, Up)'
  <2> SUFFICES ASSUME NEW q \in Inner', NEW t \in DOMAIN children'[q], children'[q][t] \in Up,
                      NEW y \in First(Held'[children'[q][t]]),
                      NEW r \in Inner', NEW u \in DOMAIN children'[r],
                      u # t /\ (h[r] = h[q] \/ (h[r] > h[q] /\ t \in First(DOMAIN children'[q])))
               PROVE  u # y /\ (u < t <=> u < y)
    BY Zenon DEF StaleOK
  <2>0. q \in Inner /\ r \in Inner /\ u # t /\ (h[r] = h[q] \/ h[r] > h[q])
    BY <1>1
  <2>1. s \in First(Held[p]) /\ children'[q][t] = p /\ y \in First(Held'[p])
    <3>1. s \in First(Held[p]) /\ children'[q][t] = p
      OBVIOUS
    <3>2. y \in First(Held'[children'[q][t]])
      OBVIOUS
    <3> QED
      BY ONLY <3>1, <3>2
  <2>2. y = x
    BY <1>12, <2>1, HeldBasicNext DEF Basic, First
  <2>3. q # p
    <3>1. h[q] = h[children'[q][t]] + 1
      <4>1. q \in Inner' /\ t \in DOMAIN children'[q]
        OBVIOUS
      <4> QED
        BY ONLY <1>7, <4>1 DEF Family
    <3> QED
      BY <1>2, <2>0, <2>1, <3>1
  <2>4. t \in Held[q] /\ children[q][t] = p
    BY <1>4, <2>0, <2>1, <2>3 DEF Basic
  <2>5. t = s
    <3>1. t \in First(Held[p])
      BY <1>2, <2>0, <2>4 DEF Sound, Exact, Basic
    <3> QED
      BY <1>2, <2>1, <3>1 DEF First
  <2>6. h[r] > h[p]
    <3>1. h[q] = h[p] + 1 /\ h[r] \in Nat
      BY <2>0, <2>4, ChildFacts DEF Sound, Kinds, Basic
    <3> QED
      BY <1>2, <2>0, <3>1
  <2>7. u \in Held[r]
    BY <1>4, <2>0, <2>6, <1>2 DEF Basic
  <2> QED
    BY <1>3, <2>0, <2>1, <2>2, <2>5, <2>6, <2>7
<1>15. Sound(h, {}, Up, L)'
  BY <1>6, <1>7, <1>9, <1>10, <1>11, <1>13, <1>14 DEF Sound
<1>16. x \notin Held[p] \ {s}
  BY <1>4
<1> QED
  BY ONLY <1>1, <1>5, <1>12, <1>15, <1>16 DEF FixDone

LEMMA FixSeparatorShape ==
  ASSUME IInv, IInv', NEW h, Shape(h), Counted, FixSeparator
  PROVE  Shape(h)' /\ Counted' /\ KeepsSizes
<1> USE DEF Fix
<1>0. /\ pc = "fix" /\ UNCHANGED <<tree, kind, data, chain, parent, sib, it, cont>>
      /\ parent[node] # Null /\ k' = k
  BY DEF FixSeparator
<1>1. /\ Basic /\ Basic' /\ node \in Allocated /\ it.leaf \in Leaves /\ k \in First(Held[node])
      /\ cont # "fixLeft" /\ cont \in Conts /\ (cont \in {"underflow", "next"} => sib = Null)
  BY <1>0, HeldBasic, HeldBasicNext, Parts
     DEF Shape, Running, Fixing, IInv, ArgumentsOK, CallOK
<1>a. IInv
  OBVIOUS
<1>2. PICK L : L = Light
  OBVIOUS
<1>3. PICK n \in Allocated, x \in First(Held[node]) : n = node /\ x = k
  BY <1>1
<1>4. Sound(h, {}, {n}, L)
  BY <1>0, <1>2, <1>3 DEF Shape, Unplaced, Stale
<1>5. n # root
  BY <1>0, <1>3, <1>4 DEF Sound, Top
<1>6. PICK p \in Inner, s \in Held[parent[n]] : p = parent[n] /\ children[p][s] = n
  BY <1>1, <1>4, <1>5, OwnParent DEF Sound
<1>7. /\ x \in Int /\ s \in Int /\ s \in Held[p] /\ Held[p] = DOMAIN children[p]
      /\ x \in First(Held[n]) /\ n = children[p][s] /\ p \in Inner /\ n \in Allocated
  BY <1>1, <1>3, <1>6 DEF First, Basic
<1>8. SlotsOf(n, x) = {s}
  <2>1. \A t \in Held[p] : t # s => t # x /\ (t < s <=> t < x)
    BY <1>4, <1>6, <1>7 DEF Sound, StaleOK
  <2>2. PICK O : O = {}
    OBVIOUS
  <2>3. Family(h, O)
    BY <1>4, <2>2 DEF Sound
  <2> QED
    BY ONLY <1>1, <1>6, <1>7, <2>1, <2>3, StaleSlot, SMTT(60)
<1>9. /\ children' = [children EXCEPT ![p] = Insert(Without(children[p], {s}), x, n)]
      /\ IF GoesUp(p, {s}) THEN node' = p /\ UNCHANGED pc ELSE FixReturns
  BY <1>3, <1>6, <1>8 DEF FixSeparator
<1>10. PICK Up : Up = IF s \in First(Held[p]) /\ parent[p] # Null THEN {p} ELSE {}
  OBVIOUS
<1>11. /\ Sound(h, {}, Up, L)'
       /\ s \in First(Held[p]) => x \in First(Held'[p])
       /\ Allocated' = Allocated /\ Leaves' = Leaves /\ Inner' = Inner
       /\ Held'[p] = (Held[p] \ {s}) \cup {x} /\ x \notin Held[p] \ {s}
       /\ \A m \in Node \ {p} : Held'[m] = Held[m]
  <2>1. UNCHANGED <<tree, kind, data, chain, parent>>
    BY <1>0
  <2>2. Basic /\ Basic'
    BY <1>1
  <2>3. children' = [children EXCEPT ![p] = Insert(Without(children[p], {s}), x, n)]
    BY <1>9
  <2>4. FixStep(h, L, n, p, s, x, Up)
    BY ONLY <1>4, <1>7, <1>10, <2>1, <2>3 DEF FixStep
  <2>5. FixDone(h, L, p, s, x, Up)
    BY ONLY <1>a, <1>7, <2>2, <2>4, FixTree, Zenon
  <2> QED
    BY ONLY <2>5 DEF FixDone
<1>12. GoesUp(p, {s}) <=> Up = {p}
  <2>1. Held[p] = DOMAIN children[p]
    BY <1>1 DEF Basic
  <2> QED
    BY <1>10, <2>1 DEF GoesUp
<1>13. p \in Allocated /\ Known
  BY <1>1 DEF Basic, Shape, Running
<1>s. KeepsSizes
  <2> SUFFICES ASSUME Sized PROVE Sized'
    BY DEF KeepsSizes
  <2>1. Light \subseteq Light' /\ pc' # "promote"
    <3>1. (pc' = "fix" /\ cont' = cont /\ it' = it) \/ (pc' = cont /\ node' = it.leaf)
      BY <1>0, <1>9 DEF FixReturns
    <3> QED
      BY <1>0, <1>1, <3>1 DEF Light, Conts
  <2>2. IsFiniteSet(Held[p]) /\ p \in Node
    BY <1>1, <1>13 DEF Basic
  <2>3. Cardinality(Held'[p]) = Cardinality(Held[p])
    <3>1. IsFiniteSet(Held[p] \ {s}) /\ Cardinality(Held[p] \ {s}) = Cardinality(Held[p]) - 1
          /\ Cardinality(Held[p]) \in Nat
      BY ONLY <1>7, <2>2, FS_RemoveElement, FS_CardinalityType
    <3>2. Cardinality((Held[p] \ {s}) \cup {x}) = Cardinality(Held[p] \ {s}) + 1
      BY ONLY <1>11, <3>1, FS_AddElement
    <3> QED
      BY <1>11, <3>1, <3>2
  <2>4. \A m : IsLeaf(m)' <=> IsLeaf(m)
    BY <1>0 DEF IsLeaf
  <2>5. WellFilled(p)'
    <3>1. WellFilled(p) /\ root' = root
      BY <1>0, <1>13 DEF Sized, tree
    <3>2. Capacity(p)' = Capacity(p) /\ UnderflowThreshold(p)' = UnderflowThreshold(p)
      BY <2>4, SameSizes
    <3> QED
      BY <2>1, <2>3, <3>1, <3>2 DEF WellFilled
  <2>6. PICK T : T = {p}
    OBVIOUS
  <2>7. root' = root /\ Allocated \subseteq Node
    BY <1>0, <1>1 DEF tree, Basic
  <2> QED
    BY <1>11, <2>1, <2>4, <2>5, <2>6, <2>7, SizesKept
<1>14. CASE GoesUp(p, {s})
  <2>1. node' = p /\ pc' = "fix" /\ Up = {p}
    BY <1>0, <1>9, <1>12, <1>14
  <2>2. Unplaced' = {} /\ Stale' = Up /\ Light' = L
    BY <1>0, <1>2, <2>1 DEF Unplaced, Stale, Light
  <2>3. Fixing' /\ Known'
    <3>1. x \in First(Held'[p]) /\ k' = x
      BY <1>0, <1>3, <1>10, <1>11, <2>1
    <3> QED
      BY <1>0, <1>1, <1>11, <1>13, <2>1, <3>1 DEF Fixing, Known, Shape, Running, tree
  <2>4. Running(h)'
    BY <2>1, <2>3 DEF Running, Searching, Promoting, Erasing, Resting
  <2>5. Shape(h)'
    BY <1>11, <2>2, <2>4 DEF Shape
  <2> QED
    BY <1>s, <1>0, <2>5 DEF Counted, Elements, IsLeaf, tree
<1>15. CASE ~GoesUp(p, {s})
  <2>1. node' = it.leaf /\ pc' = cont /\ Up = {}
    BY <1>9, <1>10, <1>12, <1>15 DEF FixReturns
  <2>2. cont \in {"leftmost", "underflow", "next", "answer"}
    BY <1>1 DEF Conts
  <2>3. Unplaced' = {} /\ Stale' = Up /\ Light' = L
    BY <1>0, <1>2, <2>1, <2>2 DEF Unplaced, Stale, Light
  <2>4. Erasing' /\ Known'
    BY <1>0, <1>1, <1>11, <1>13, <2>1, <2>2 DEF Erasing, Known, Basic
  <2>5. Running(h)'
    BY <2>1, <2>2, <2>4 DEF Running, Searching, Promoting, Fixing, Resting
  <2>6. Shape(h)'
    BY <1>11, <2>3, <2>5 DEF Shape
  <2> QED
    BY <1>s, <1>0, <2>6 DEF Counted, Elements, IsLeaf, tree
<1> QED
  BY <1>14, <1>15

----------------------------------------------------------------------------
(* Splits. *)

\* Ranks are in key order.
LEMMA RankOrder ==
  ASSUME NEW S \in SUBSET Int, IsFiniteSet(S)
  PROVE  /\ \A x : Rank(S, x) \in Nat
         /\ \A x, y \in S : x < y => Rank(S, x) < Rank(S, y)
<1> DEFINE below(x) == {t \in S : t < x}
<1>1. \A x : IsFiniteSet(below(x)) /\ Cardinality(below(x)) \in Nat
  <2> TAKE x
  <2>1. below(x) \subseteq S
    OBVIOUS
  <2> QED
    BY <2>1, FS_Subset, FS_CardinalityType
<1>2. ASSUME NEW x \in S, NEW y \in S, x < y
      PROVE  Cardinality(below(x)) < Cardinality(below(y))
  <2>1. below(x) \subseteq below(y) /\ x \in below(y) /\ x \notin below(x)
    <3>1. x \in Int /\ y \in Int /\ \A t \in S : t \in Int
      OBVIOUS
    <3>2. ~(x < x) /\ \A t \in S : t < x => t < y
      BY <1>2, <3>1
    <3> QED
      BY <1>2, <3>2
  <2> HIDE DEF below
  <2>2. below(x) # below(y)
    BY <2>1
  <2> QED
    BY <1>1, <2>1, <2>2, FS_Subset
<1> QED
  BY <1>1, <1>2 DEF Rank

\* split_at: what goes to each side, and how much of it.
LEMMA LowestFacts ==
  ASSUME NEW S \in SUBSET Int, IsFiniteSet(S), NEW n \in Nat, n =< Cardinality(S)
  PROVE  /\ LowestN(S, n) \subseteq S /\ Cardinality(LowestN(S, n)) = n
         /\ Cardinality(S \ LowestN(S, n)) = Cardinality(S) - n
         /\ \A x \in LowestN(S, n), y \in S \ LowestN(S, n) : x < y
<1> DEFINE T == {i \in Nat : i =< Cardinality(S) => Cardinality(LowestN(S, i)) = i}
<1>1. \A i \in Nat : i \in T <=> (i =< Cardinality(S) => Cardinality(LowestN(S, i)) = i)
  OBVIOUS
<1>2. \A i : LowestN(S, i) \subseteq S /\ IsFiniteSet(LowestN(S, i))
  BY FS_Subset DEF LowestN
<1>3. /\ \A x : Rank(S, x) \in Nat
      /\ \A x, y \in S : x < y => Rank(S, x) < Rank(S, y)
  BY RankOrder
<1>4. Cardinality(S) \in Nat
  BY FS_CardinalityType
<1> HIDE DEF T
<1>5. 0 \in T
  <2>1. LowestN(S, 0) = {}
    BY <1>3 DEF LowestN
  <2> QED
    BY <1>1, <2>1, FS_EmptySet
<1>6. ASSUME NEW i \in Nat, i \in T PROVE i + 1 \in T
  <2> SUFFICES ASSUME i + 1 =< Cardinality(S)
               PROVE  Cardinality(LowestN(S, i + 1)) = i + 1
    BY <1>1
  <2> DEFINE L == LowestN(S, i)
  <2>1. Cardinality(L) = i
    BY <1>1, <1>4, <1>6
  <2>2. L \subseteq S /\ IsFiniteSet(L) /\ \A x \in S : x \in L <=> Rank(S, x) < i
    BY <1>2 DEF LowestN
  <2> HIDE DEF L
  <2>3. S \ L # {}
    <3> SUFFICES ASSUME S \subseteq L PROVE FALSE
      OBVIOUS
    <3>1. S = L
      BY <2>2
    <3> QED
      BY <1>4, <2>1, <3>1
  <2>4. PICK x \in S \ L : \A t \in S \ L : x =< t
    <3>1. S \ L \in SUBSET Int /\ IsFiniteSet(S \ L)
      BY FS_Difference
    <3> QED
      BY <2>3, <3>1, HasFirst DEF First
  <2>5. {t \in S : t < x} = L
    <3>1. \A t \in S : t \in L => t < x
      BY <1>3, <2>2, <2>4
    <3>2. \A t \in S : t < x => t \in L
      BY <2>4
    <3> QED
      BY <2>2, <3>1, <3>2
  <2>6. Rank(S, x) = i
    BY <2>1, <2>5 DEF Rank
  <2>7. \A y \in S : Rank(S, y) < i + 1 <=> y \in L \/ y = x
    <3>1. \A y \in S : y # x /\ y \notin L => x < y
      BY <2>4
    <3> QED
      BY <1>3, <2>2, <2>4, <2>6, <3>1
  <2>8. LowestN(S, i + 1) = L \cup {x}
    BY <2>2, <2>4, <2>7 DEF LowestN
  <2> QED
    BY <2>1, <2>2, <2>4, <2>8, FS_AddElement
<1>7. Nat \subseteq T
  BY <1>5, <1>6, SetInduction
<1>8. Cardinality(LowestN(S, n)) = n
  BY <1>1, <1>7
<1>9. Cardinality(S \ LowestN(S, n)) = Cardinality(S) - n
  <2>1. S \cap LowestN(S, n) = LowestN(S, n)
    BY <1>2
  <2> QED
    BY <1>8, <2>1, FS_Difference
<1>10. \A x \in LowestN(S, n), y \in S \ LowestN(S, n) : x < y
  BY <1>3 DEF LowestN
<1> QED
  BY <1>2, <1>8, <1>9, <1>10

\* A full node with keys S is halved and key x put in the half that it belongs to.
HalfSplit(S, cap, x, c, lo, hi) ==
  LET half == LowestN(S, (cap + 1) \div 2)
  IN  /\ c \in First(S \ half)
      /\ lo = half \cup (IF x < c THEN {x} ELSE {})
      /\ hi = (S \ half) \cup (IF x < c THEN {} ELSE {x})

LEMMA HalfSplitFacts ==
  ASSUME NEW S \in SUBSET Int, IsFiniteSet(S), NEW cap \in Nat, cap >= 4, cap =< Cardinality(S),
         NEW x \in Int, x \notin S, NEW c, NEW lo, NEW hi, HalfSplit(S, cap, x, c, lo, hi)
  PROVE  /\ lo \cup hi = S \cup {x} /\ \A y \in lo, z \in hi : y < z
         /\ \E y, z \in lo : y # z
         /\ \E y, z \in hi : y # z
         /\ c \in First(hi) /\ First(S) \subseteq lo
<1> DEFINE half == LowestN(S, (cap + 1) \div 2)
           rest == S \ half
<1>1. PICK n \in Nat : n = (cap + 1) \div 2 /\ n >= 2 /\ n + 2 =< cap
  OBVIOUS
<1>2. Cardinality(S) \in Nat
  BY FS_CardinalityType
<1>3. /\ half \subseteq S /\ Cardinality(half) = n
      /\ Cardinality(rest) = Cardinality(S) - n
      /\ \A y \in half, z \in rest : y < z
  BY <1>1, <1>2, LowestFacts
<1>4. /\ c \in First(rest)
      /\ lo = half \cup (IF x < c THEN {x} ELSE {})
      /\ hi = rest \cup (IF x < c THEN {} ELSE {x})
  BY DEF HalfSplit
<1>5. \E y, z \in half : y # z
  <2>1. IsFiniteSet(half) /\ half # {} /\ Cardinality(half) # 1
    BY <1>1, <1>3, FS_Subset, FS_EmptySet
  <2> QED
    BY <2>1, TwoKeys
<1>6. \E y, z \in rest : y # z
  <2>1. IsFiniteSet(rest) /\ rest # {} /\ Cardinality(rest) # 1
    BY <1>1, <1>2, <1>3, FS_Subset, FS_EmptySet
  <2> QED
    BY <2>1, TwoKeys
<1>7. S = half \cup rest /\ half \cap rest = {}
  BY <1>3
<1> HIDE DEF half, rest
<1>8. c \in Int /\ c \in rest /\ \A z \in rest : c =< z
  BY <1>4, <1>7 DEF First
<1>9. \A y \in lo, z \in hi : y < z
  BY <1>3, <1>4, <1>7, <1>8
<1>10. c \in First(hi)
  BY <1>4, <1>7, <1>8 DEF First
<1>11. First(S) \subseteq lo
  BY <1>3, <1>4, <1>5, <1>7 DEF First
<1> QED
  BY <1>4, <1>5, <1>6, <1>7, <1>9, <1>10, <1>11

\* Both halves have room, and enough entries unless cap is 5.
LEMMA HalfSplitSizes ==
  ASSUME NEW S \in SUBSET Int, IsFiniteSet(S), NEW cap \in Nat, cap >= 4, cap # 5,
         cap = Cardinality(S), NEW x, x \notin S, NEW c, NEW lo, NEW hi,
         HalfSplit(S, cap, x, c, lo, hi)
  PROVE  /\ Cardinality(lo) =< cap /\ Cardinality(lo) >= LeastSize(cap)
         /\ Cardinality(hi) =< cap /\ Cardinality(hi) >= LeastSize(cap)
<1> DEFINE half == LowestN(S, (cap + 1) \div 2)
           rest == S \ half
<1>1. PICK n \in Nat : n = (cap + 1) \div 2 /\ n + 1 =< cap
  OBVIOUS
<1>2. LeastSize(cap) =< n /\ LeastSize(cap) =< cap - n /\ cap - n + 1 =< cap
      /\ LeastSize(cap) \in Int
  <2>1. LeastSize(cap) = n - (n \div 4) /\ (n \div 4) \in Nat
    BY <1>1 DEF LeastSize
  <2>2. n >= 2 /\ (cap = 2 * n \/ (cap = 2 * n - 1 /\ n \div 4 >= 1))
    BY <1>1
  <2> QED
    BY <1>1, <2>1, <2>2
<1>3. half \subseteq S /\ Cardinality(half) = n /\ Cardinality(rest) = cap - n
  <2>1. n =< Cardinality(S)
    BY <1>1
  <2>2. LowestN(S, n) \subseteq S /\ Cardinality(LowestN(S, n)) = n
        /\ Cardinality(S \ LowestN(S, n)) = Cardinality(S) - n
    BY <2>1, LowestFacts
  <2> QED
    BY <1>1, <2>2
<1>4. IsFiniteSet(half) /\ IsFiniteSet(rest) /\ x \notin half /\ x \notin rest
  BY <1>3, FS_Subset
<1>5. /\ lo = half \cup (IF x < c THEN {x} ELSE {})
      /\ hi = rest \cup (IF x < c THEN {} ELSE {x})
  BY DEF HalfSplit
<1> HIDE DEF half, rest
<1>6. Cardinality(half \cup {x}) = n + 1 /\ Cardinality(rest \cup {x}) = cap - n + 1
  <2>1. Cardinality(half \cup {x}) = Cardinality(half) + 1
    BY <1>4, FS_AddElement
  <2>2. Cardinality(rest \cup {x}) = Cardinality(rest) + 1
    BY <1>4, FS_AddElement
  <2> QED
    BY <1>3, <2>1, <2>2
<1>7. Cardinality(lo) = n \/ Cardinality(lo) = n + 1
  BY <1>3, <1>5, <1>6
<1>8. Cardinality(hi) = cap - n \/ Cardinality(hi) = cap - n + 1
  BY <1>3, <1>5, <1>6
<1> QED
  BY ONLY <1>1, <1>2, <1>7, <1>8

\* A node that is halved, and its new sibling.
LEMMA HalvesSized ==
  ASSUME Sized, SplitsBalance, Basic, NEW p \in Allocated, NEW q, NEW cap, cap = Capacity(p),
         cap =< Cardinality(Held[p]), NEW x, x \notin Held[p], NEW c, NEW lo, NEW hi,
         HalfSplit(Held[p], cap, x, c, lo, hi), Held'[p] = lo, Held'[q] = hi,
         IsLeaf(p)' <=> IsLeaf(p), IsLeaf(q)' <=> IsLeaf(p)
  PROVE  /\ WellFilled(p)' /\ WellFilled(q)'
         /\ Cardinality(Held'[p]) >= UnderflowThreshold(p)'
<1>1. IsFiniteSet(Held[p]) /\ Cardinality(Held[p]) \in Nat /\ Held[p] \in SUBSET Int
  BY FS_CardinalityType DEF Basic
<1>2. cap \in Nat /\ cap >= 4 /\ cap # 5
  BY SizeAssumption DEF Capacity, SplitsBalance
<1>3. cap = Cardinality(Held[p])
  BY <1>1, <1>2 DEF Sized, WellFilled
<1>4. /\ Cardinality(lo) =< cap /\ Cardinality(lo) >= LeastSize(cap)
      /\ Cardinality(hi) =< cap /\ Cardinality(hi) >= LeastSize(cap)
  BY ONLY <1>1, <1>2, <1>3, HalfSplitSizes, x \notin Held[p],
     HalfSplit(Held[p], cap, x, c, lo, hi)
<1>5. /\ Capacity(p)' = cap /\ Capacity(q)' = cap
      /\ UnderflowThreshold(p)' = LeastSize(cap) /\ UnderflowThreshold(q)' = LeastSize(cap)
  <2>1. Capacity(p)' = cap /\ Capacity(q)' = cap
    BY DEF Capacity
  <2> QED
    BY <2>1, ThresholdIsNext DEF ThresholdsOfCapacity
<1> QED
  BY <1>4, <1>5 DEF WellFilled

LEMMA SplitSized ==
  ASSUME Sized, SplitsBalance, Basic, NEW p \in Allocated, NEW q, NEW cap, cap = Capacity(p),
         cap =< Cardinality(Held[p]), NEW x, x \notin Held[p], NEW c, NEW lo, NEW hi,
         HalfSplit(Held[p], cap, x, c, lo, hi), Held'[p] = lo, Held'[q] = hi,
         IsLeaf(p)' <=> IsLeaf(p), IsLeaf(q)' <=> IsLeaf(p),
         \A m : m \in Allocated' => m \in Allocated \/ m = q,
         \A m \in Allocated \ {p, q} : Held'[m] = Held[m] /\ (IsLeaf(m)' <=> IsLeaf(m)),
         root' = root, Light = {}, node' = p
  PROVE  Sized'
<1>1. /\ WellFilled(p)' /\ WellFilled(q)'
      /\ Cardinality(Held'[p]) >= UnderflowThreshold(p)'
  BY HalvesSized
<1>2. (Cardinality(Held[node]) >= UnderflowThreshold(node))'
  BY <1>1 DEF UnderflowThreshold, MinSize, Hysteresis, Capacity, IsLeaf
<1>3. PICK T : T = {p, q}
  OBVIOUS
<1> QED
  BY <1>1, <1>2, <1>3, SizesKept

\* The entries hi of f[p] go to q and entry x, v to one of the two.
SplitStep(f, f1, p, q, hi, x, v, target) ==
  /\ f1[target] = Insert(Move(f, p, q, hi)[target], x, v)
  /\ \A n \in Node \ {target} : f1[n] = Move(f, p, q, hi)[n]

SplitDone(f, f1, p, q, hi, x, v, target) ==
  /\ DOMAIN f1[p] = (DOMAIN f[p] \ hi) \cup (IF target = p THEN {x} ELSE {})
  /\ DOMAIN f1[q] = hi \cup (IF target = p THEN {} ELSE {x})
  /\ \A n \in Node \ {p, q} : f1[n] = f[n]
  /\ \A t \in DOMAIN f[p] \ hi : f1[p][t] = f[p][t]
  /\ \A t \in hi : f1[q][t] = f[p][t]
  /\ f1[target][x] = v

LEMMA SplitMap ==
  ASSUME NEW V, NEW f, Maps(f, V), NEW p \in Node, NEW q \in Node, p # q, DOMAIN f[q] = {},
         NEW hi, hi \subseteq DOMAIN f[p], NEW x, x \notin DOMAIN f[p], NEW v, NEW target,
         target \in {p, q}, NEW f1, SplitStep(f, f1, p, q, hi, x, v, target)
  PROVE  SplitDone(f, f1, p, q, hi, x, v, target)
<1> DEFINE m == Move(f, p, q, hi)
           low == Without(f[p], hi)
           high == Join(f[q], Only(f[p], hi))
<1>1. f = [n \in Node |-> f[n]]
  BY DEF Maps
<1>2. /\ m = [n \in Node |-> m[n]]
      /\ m[p] = low /\ m[q] = high /\ \A n \in Node \ {p, q} : m[n] = f[n]
  BY <1>1 DEF Move
<1>3. /\ DOMAIN low = DOMAIN f[p] \ hi
      /\ \A t \in DOMAIN f[p] \ hi : low[t] = f[p][t]
  BY DEF Without, Restrict
<1>4. /\ DOMAIN high = hi
      /\ \A t \in hi : high[t] = f[p][t]
  <2>1. DOMAIN Only(f[p], hi) = hi /\ \A t \in hi : Only(f[p], hi)[t] = f[p][t]
    BY DEF Only, Restrict
  <2> QED
    BY <2>1 DEF Join
<1> HIDE DEF m, low, high
<1>6. /\ f1[target] = Insert(m[target], x, v)
      /\ \A n \in Node \ {target} : f1[n] = m[n]
  BY DEF m, SplitStep
<1>7. CASE target = p
  <2>1. f1[p] = Insert(low, x, v) /\ f1[q] = high
    BY <1>2, <1>6, <1>7
  <2>2. /\ DOMAIN f1[p] = (DOMAIN f[p] \ hi) \cup {x} /\ f1[p][x] = v
        /\ \A t \in DOMAIN f[p] \ hi : f1[p][t] = f[p][t]
    BY <1>3, <2>1 DEF Insert
  <2> QED
    BY <1>2, <1>4, <1>6, <1>7, <2>1, <2>2 DEF SplitDone
<1>8. CASE target = q
  <2>1. f1[q] = Insert(high, x, v) /\ f1[p] = low
    BY <1>2, <1>6, <1>8
  <2>2. /\ DOMAIN f1[q] = hi \cup {x} /\ f1[q][x] = v
        /\ \A t \in hi : f1[q][t] = f[p][t]
    BY <1>4, <2>1 DEF Insert
  <2> QED
    BY <1>2, <1>3, <1>6, <1>8, <2>1, <2>2 DEF SplitDone
<1> QED
  BY <1>7, <1>8

\* Key x is put into p and p is split with q.
SplitGrown(A, K, K1, p, q, x, lo, hi) ==
  /\ lo \cup hi = K[p] \cup {x} /\ lo # {} /\ hi # {}
  /\ \A y \in lo, z \in hi : y < z
  /\ K1[p] = lo /\ K1[q] = hi
  /\ \A n \in A \ {p} : K1[n] = K[n]

\* x is on p's side of the nodes of its height.
Fits(A, h, K, p, x) ==
  \A m \in A \ {p} : h[m] = h[p] =>
    /\ Precedes(K, p, m) => \A y \in K[m] : x < y
    /\ Precedes(K, m, p) => \A y \in K[m] : y < x

\* What is known when p has been split with q: A and h are the nodes and their heights
\* before, B and h1 after, T those at the height of p.
Splits(A, h, h1, K, K1, p, q, x, lo, hi, B, T) ==
  /\ SplitGrown(A, K, K1, p, q, x, lo, hi) /\ Fits(A, h, K, p, x)
  /\ Layered(A, h, K)
  /\ p \in A /\ q \notin A /\ h1[q] = h[p] /\ \A n \in A : h1[n] = h[n]
  /\ \A n : n \in B <=> n \in A \/ n = q
  /\ \A n : n \in T <=> n \in B /\ h1[n] = h1[p]

LEMMA SplitGrownLayers ==
  ASSUME NEW A, NEW h, NEW h1, NEW K, NEW K1, NEW p, NEW q, NEW x, NEW lo, NEW hi, NEW B, NEW T,
         Splits(A, h, h1, K, K1, p, q, x, lo, hi, B, T)
  PROVE  Layered(B, h1, K1) /\ Neighbours(T, K1, p, q)
<1>0. /\ SplitGrown(A, K, K1, p, q, x, lo, hi) /\ Fits(A, h, K, p, x)
      /\ Layered(A, h, K) /\ p \in A
  BY DEF Splits
<1> DEFINE Kx == [n \in A |-> IF n = p THEN K[p] \cup {x} ELSE K[n]]
<1>1. Kx[p] = K[p] \cup {x} /\ \A n \in A \ {p} : Kx[n] = K[n]
  BY <1>0
<1> HIDE DEF Kx
<1>2. \A m, n \in A : m # n /\ h[m] = h[n] /\ Precedes(K, m, n) => Precedes(Kx, m, n)
  BY <1>0, <1>1, GrowOrder DEF Fits
<1>3. Layered(A, h, Kx)
  BY <1>0, <1>2, OrderKept
<1>4. SplitKeys(A, Kx, K1, p, q, lo, hi)
  BY <1>0, <1>1 DEF SplitKeys, SplitGrown
<1>5. p \in A /\ q \notin A /\ h1[q] = h[p] /\ \A n \in A : h1[n] = h[n]
  BY DEF Splits
<1>6. \A n : n \in B <=> n \in A \/ n = q
  BY DEF Splits
<1>7. \A n : n \in T <=> n \in B /\ h1[n] = h1[p]
  BY DEF Splits
<1> QED
  BY ONLY <1>3, <1>4, <1>5, <1>6, <1>7, SplitLayers

LEMMA SplitGrownLinks ==
  ASSUME NEW S, NEW h, NEW K, NEW K1, NEW p \in S, NEW q, q \notin S,
         NEW x \in Int, NEW lo, NEW hi, SplitGrown(S, K, K1, p, q, x, lo, hi),
         Fits(S, h, K, p, x), \A n \in S : h[n] = h[p],
         \A n \in S : K[n] \subseteq Int, \A n \in S \ {p} : K[n] # {},
         Null \notin S, q # Null,
         NEW nxt, NEW prv, NEW first, NEW last, Linked(S, K, nxt, prv, first, last),
         NEW T, NEW nxt1, NEW prv1, NEW last1,
         LinkedIn(S, T, p, q, nxt, prv, last, nxt1, prv1, last1)
  PROVE  Linked(T, K1, nxt1, prv1, first, last1)
<1> DEFINE Kx == [n \in S |-> IF n = p THEN K[p] \cup {x} ELSE K[n]]
<1>1. Kx[p] = K[p] \cup {x} /\ \A n \in S \ {p} : Kx[n] = K[n]
  OBVIOUS
<1> HIDE DEF Kx
<1>2. \A m, n \in S : m # n /\ h[m] = h[n] /\ Precedes(K, m, n) => Precedes(Kx, m, n)
  <2>1. p \in S /\ Fits(S, h, K, p, x)
    OBVIOUS
  <2> QED
    BY ONLY <1>1, <2>1, GrowOrder DEF Fits
<1>3. Linked(S, Kx, nxt, prv, first, last)
  BY <1>2, LinksKept
<1>4. SplitKeys(S, Kx, K1, p, q, lo, hi)
  BY <1>1 DEF SplitKeys, SplitGrown
<1>5. Filled(S, Kx)
  BY <1>1 DEF Filled
<1>6. p \in S /\ q \notin S /\ Null \notin S /\ q # Null
  OBVIOUS
<1>7. /\ LinkedIn(S, T, p, q, nxt, prv, last, nxt1, prv1, last1)
      /\ SplitKeys(S, Kx, K1, p, q, lo, hi)
  BY <1>4
<1> QED
  BY ONLY <1>3, <1>5, <1>6, <1>7, SplitLinks

\* The separator of a node that keeps its first key stays exact.
LEMMA FirstStays ==
  ASSUME NEW S \in SUBSET Int, NEW T, NEW x, x \in First(S), x \in T,
         \A y \in T : y \in S
  PROVE  x \in First(T)
BY DEF First

LEMMA SplitLeafShape ==
  ASSUME IInv, IInv', NEW h, Shape(h), Counted, SplitLeaf
  PROVE  \E g \in [Node -> Nat] : Shape(g)' /\ Counted' /\ KeepsSizes
<1> USE DEF AtLeaf
<1>0. pc = "leaf" /\ pc' = "promote"
  BY DEF SplitLeaf
<1>1. /\ Sound(h, {}, {}, {}) /\ Basic /\ Basic' /\ node \in Leaves
      /\ Covers(h, node, k) /\ k \in Key /\ k \in Int
  BY <1>0, Settled, HeldBasic, HeldBasicNext, KeyAssumption
     DEF Shape, Running, Searching, Leaves, Basic, Allocated, IInv, ArgumentsOK
<1>2. PICK l \in Leaves, x \in Key : l = node /\ x = k
  BY <1>1
<1>a. PICK upper : upper = DOMAIN data[node] \ LowestN(DOMAIN data[node], (LeafNodeSize + 1) \div 2)
  OBVIOUS
<1>b. PICK q \in OneOf(Free), mid \in First(upper) :
        LET target == IF k < mid THEN node ELSE q
            split  == Move(data, node, q, upper)
        IN  /\ kind' = [kind EXCEPT ![q] = "leaf"]
            /\ data' = [split EXCEPT ![target] = Insert(@, k, call.val)]
            /\ LinkAfter(node, q)
            /\ it' = [leaf |-> target, idx |-> Rank(DOMAIN split[target], k)]
            /\ sib' = q
            /\ k' = mid
            /\ cont' = IF target = node THEN "fixLeft" ELSE "answer"
  BY <1>a DEF SplitLeaf
<1>c. PICK new, c, target, v :
        /\ new = q /\ c = mid /\ v = call.val
        /\ target = IF k < mid THEN node ELSE q
  OBVIOUS
<1>3. /\ upper = DOMAIN data[l] \ LowestN(DOMAIN data[l], (LeafNodeSize + 1) \div 2)
      /\ new \in OneOf(Free) /\ c \in First(upper)
      /\ target = IF x < c THEN l ELSE new
      /\ kind' = [kind EXCEPT ![new] = "leaf"]
      /\ data' = [Move(data, l, new, upper) EXCEPT
                    ![target] = Insert(Move(data, l, new, upper)[target], x, v)]
      /\ LinkAfter(l, new)
      /\ it'.leaf = target /\ sib' = new /\ k' = c
      /\ cont' = IF target = l THEN "fixLeft" ELSE "answer"
  BY <1>2, <1>a, <1>b, <1>c
<1>4. /\ UNCHANGED <<root, rootIsLeaf, leftmostLeaf, children, parent, node>>
      /\ size' = size + 1
      /\ x \notin DOMAIN data[l] /\ Cardinality(DOMAIN data[l]) >= LeafNodeSize
  BY <1>2 DEF SplitLeaf, Size
<1>5. /\ new \in Node /\ new \notin Allocated /\ kind[new] = "free" /\ new # l /\ new # root
      /\ l \in Node /\ l \in Allocated /\ Held[l] = DOMAIN data[l]
      /\ parent[new] = Null /\ DOMAIN data[new] = {} /\ new # Null
  <2>1. new \in Node /\ kind[new] = "free"
    BY <1>3 DEF OneOf, Free
  <2>2. new \notin Allocated /\ ~IsLeaf(new)
    BY <2>1 DEF Allocated, IsLeaf
  <2> QED
    BY <1>1, <2>1, <2>2 DEF Sound, Kinds, Top, Basic
<1>d. PICK rest : rest = upper
  OBVIOUS
<1>6. PICK lo, hi :
        /\ HalfSplit(Held[l], LeafNodeSize, x, c, lo, hi)
        /\ lo = (Held[l] \ rest) \cup (IF x < c THEN {x} ELSE {})
        /\ hi = rest \cup (IF x < c THEN {} ELSE {x})
  <2> DEFINE S == DOMAIN data[l]
             half == LowestN(S, (LeafNodeSize + 1) \div 2)
             lo1 == half \cup (IF x < c THEN {x} ELSE {})
             hi1 == (S \ half) \cup (IF x < c THEN {} ELSE {x})
  <2>1. HalfSplit(Held[l], LeafNodeSize, x, c, lo1, hi1)
    BY <1>3, <1>5 DEF HalfSplit
  <2>3. rest = S \ half
    BY <1>3, <1>d
  <2>2. Held[l] \ (S \ half) = half
    <3>1. half \subseteq S
      BY DEF LowestN
    <3> QED
      BY <1>5, <3>1
  <2> QED
    BY <1>5, <2>1, <2>2, <2>3
<1>7. /\ lo \cup hi = Held[l] \cup {x} /\ \A y \in lo, z \in hi : y < z
      /\ \E y, z \in lo : y # z
      /\ \E y, z \in hi : y # z
      /\ c \in First(hi) /\ First(Held[l]) \subseteq lo
  <2>1. Held[l] \in SUBSET Int /\ IsFiniteSet(Held[l]) /\ x \in Int /\ x \notin Held[l]
    BY <1>1, <1>2, <1>4, <1>5 DEF Basic
  <2>2. LeafNodeSize \in Nat /\ LeafNodeSize >= 4 /\ LeafNodeSize =< Cardinality(Held[l])
    <3>1. Cardinality(Held[l]) \in Nat
      BY <2>1, FS_CardinalityType
    <3> QED
      BY <1>4, <1>5, <3>1, SizeAssumption
  <2> QED
    BY ONLY <1>6, <2>1, <2>2, HalfSplitFacts
<1>8. /\ DOMAIN data'[l] = lo /\ DOMAIN data'[new] = hi
      /\ \A n \in Node \ {l, new} : data'[n] = data[n]
  <2>1. Maps(data, Value)
    BY Parts DEF IInv, HeapOK
  <2>2. /\ data'[target] = Insert(Move(data, l, new, rest)[target], x, v)
        /\ \A n \in Node \ {target} : data'[n] = Move(data, l, new, rest)[n]
    <3>1. target \in Node /\ DOMAIN Move(data, l, new, rest) = Node
      BY <1>3, <1>5, <2>1 DEF Move, Maps
    <3> QED
      BY <1>3, <1>d, <3>1
  <2>6. SplitStep(data, data', l, new, rest, x, v, target)
    BY ONLY <2>2 DEF SplitStep
  <2>3. rest \subseteq DOMAIN data[l] /\ target \in {l, new}
    BY <1>3, <1>d
  <2>4. /\ DOMAIN data'[l] = (DOMAIN data[l] \ rest) \cup (IF target = l THEN {x} ELSE {})
        /\ DOMAIN data'[new] = rest \cup (IF target = l THEN {} ELSE {x})
        /\ \A n \in Node \ {l, new} : data'[n] = data[n]
    <3>1. l \in Node /\ new \in Node /\ l # new /\ DOMAIN data[new] = {} /\ x \notin DOMAIN data[l]
      BY <1>4, <1>5
    <3>2. SplitDone(data, data', l, new, rest, x, v, target)
      BY ONLY <2>1, <2>3, <2>6, <3>1, SplitMap
    <3> QED
      BY ONLY <3>2 DEF SplitDone
  <2>5. target = l <=> x < c
    BY <1>3, <1>5
  <2> QED
    BY <1>5, <1>6, <2>4, <2>5
<1>9. /\ \A n : n \in Allocated' <=> n \in Allocated \/ n = new
      /\ \A n : n \in Leaves' <=> n \in Leaves \/ n = new
      /\ Inner' = Inner
      /\ \A n \in Node \ {new} : kind'[n] = kind[n]
      /\ kind'[new] = "leaf"
  <2>1. kind \in [Node -> {"free", "leaf", "low", "high"}]
    BY Parts DEF IInv, HeapOK
  <2>2. /\ \A n \in Node \ {new} : kind'[n] = kind[n]
        /\ kind'[new] = "leaf"
    BY <1>3, <1>5, <2>1
  <2> QED
    BY <1>5, <2>2 DEF Allocated, Leaves, Inner, IsLeaf
<1>10. /\ Held'[l] = lo /\ Held'[new] = hi
       /\ \A n \in Node \ {l, new} : Held'[n] = Held[n]
  <2>1. Held'[l] = lo /\ Held'[new] = hi
    BY <1>1, <1>2, <1>8, <1>9 DEF Basic
  <2>2. \A n \in Node \ {l, new} : Held'[n] = Held[n]
    BY <1>4, <1>8, <1>9 DEF Held, KeysOf, IsLeaf
  <2> QED
    BY <2>1, <2>2
<1>11. PICK g : g = [h EXCEPT ![new] = 0]
  OBVIOUS
<1>12. /\ g \in [Node -> Nat] /\ g[new] = 0 /\ h[l] = 0
       /\ \A n \in Allocated : g[n] = h[n]
  BY <1>1, <1>5, <1>11 DEF Sound, Kinds, Leaves, Basic
<1>13. /\ \A n \in Node : nextLeaf'[n] = IF n = l THEN new ELSE IF n = new THEN nextLeaf[l]
                                         ELSE nextLeaf[n]
       /\ \A n \in Node : prevLeaf'[n] = IF n = new THEN l ELSE IF n = nextLeaf[l] THEN new
                                         ELSE prevLeaf[n]
       /\ rightmostLeaf' = IF rightmostLeaf = l THEN new ELSE rightmostLeaf
  <2>1. nextLeaf \in [Node -> Pointer]
    BY Parts DEF IInv, HeapOK
  <2>2. /\ nextLeaf' = [nextLeaf EXCEPT ![new] = nextLeaf[l], ![l] = new]
        /\ prevLeaf' = [n \in Node |-> IF n = new THEN l ELSE IF n = nextLeaf[l] THEN new
                                       ELSE prevLeaf[n]]
        /\ rightmostLeaf' = IF rightmostLeaf = l THEN new ELSE rightmostLeaf
    BY <1>3 DEF LinkAfter
  <2> QED
    BY <1>5, <2>1, <2>2
<1>14. Kinds(g)'
  <2>1. \A n \in Allocated' : (IsLeaf(n)' <=> g[n] = 0) /\ (kind'[n] = "low" <=> g[n] = 1)
    <3>1. \A n \in Allocated : (kind[n] = "leaf" <=> h[n] = 0) /\ (kind[n] = "low" <=> h[n] = 1)
      BY <1>1 DEF Sound, Kinds, IsLeaf
    <3> QED
      BY <1>1, <1>5, <1>9, <1>12, <3>1 DEF IsLeaf, Basic
  <2>2. \A n \in Node : IsLeaf(n)' \/ DOMAIN data'[n] = {}
    <3>1. \A n \in Node : kind[n] = "leaf" \/ DOMAIN data[n] = {}
      BY <1>1 DEF Sound, Kinds, IsLeaf
    <3>2. kind'[l] = "leaf"
      BY <1>5, <1>9 DEF Leaves, IsLeaf
    <3> QED
      BY <1>8, <1>9, <3>1, <3>2 DEF IsLeaf
  <2>3. \A n \in Node : n \in Inner' \/ DOMAIN children'[n] = {}
    BY <1>1, <1>4, <1>9 DEF Sound, Kinds
  <2>4. \A n \in Node \ Allocated' : parent'[n] = Null
    BY <1>1, <1>4, <1>9 DEF Sound, Kinds
  <2>5. \A n \in Node \ Leaves' : nextLeaf'[n] = Null /\ prevLeaf'[n] = Null
    <3>1. \A n \in Node \ Leaves : nextLeaf[n] = Null /\ prevLeaf[n] = Null
      BY <1>1 DEF Sound, Kinds
    <3>2. nextLeaf[l] = Null \/ nextLeaf[l] \in Leaves
      BY <1>1 DEF Sound, Chained, Linked, Neighbours
    <3>3. Null \notin Node
      BY <1>1 DEF Basic
    <3> QED
      BY <1>9, <1>13, <3>1, <3>2, <3>3
  <2> QED
    BY <1>12, <2>1, <2>2, <2>3, <2>4, <2>5 DEF Kinds
<1>15. Top(g)'
  <2>1. \A n \in Allocated : h[n] =< h[root]
    BY <1>1 DEF Sound, Top
  <2>2. /\ root' = root /\ root \in Allocated /\ parent'[root] = Null
        /\ rootIsLeaf' = rootIsLeaf /\ rootIsLeaf = IsLeaf(root)
    BY <1>1, <1>4 DEF Sound, Top
  <2>3. g[root] = h[root] /\ h[root] \in Nat
    BY <1>1, <1>12, <2>2 DEF Sound, Kinds, Basic
  <2>4. \A n \in Allocated' : g[n] =< g[root]
    BY <1>9, <1>12, <2>1, <2>3
  <2>5. IsLeaf(root)' <=> IsLeaf(root)
    BY <1>1, <1>5, <1>9, <2>2 DEF IsLeaf, Basic
  <2>6. rootIsLeaf' = IsLeaf(root)'
    <3>1. IsLeaf(root)' = IsLeaf(root)
      BY <1>1, <1>5, <1>9, <2>2 DEF IsLeaf, Basic
    <3> QED
      BY <2>2, <3>1
  <2> QED
    BY <1>9, <2>2, <2>4, <2>6 DEF Top
<1>16. \A p \in Inner : \A s \in DOMAIN children[p] :
         children[p][s] \in Allocated /\ children[p][s] # new
  BY <1>1, <1>5 DEF Sound, Family
<1>17. Family(g, {new})'
  <2>1. \A p \in Inner : p \in Allocated
    BY <1>1 DEF Basic
  <2>2. \A p \in Inner : \A s \in DOMAIN children[p] :
          parent[children[p][s]] = p /\ h[p] = h[children[p][s]] + 1
    BY <1>1 DEF Sound, Family
  <2>3. \A p \in Inner : \A s \in DOMAIN children[p] : g[p] = g[children[p][s]] + 1
    BY <1>12, <1>16, <2>1, <2>2
  <2>4. /\ \A p \in Inner : \A s, t \in DOMAIN children[p] :
             children[p][s] = children[p][t] => s = t
        /\ \A n \in Allocated :
             \/ n = root
             \/ /\ parent[n] \in Inner
                /\ \E s \in DOMAIN children[parent[n]] : children[parent[n]][s] = n
    BY <1>1 DEF Sound, Family
  <2> QED
    BY <1>4, <1>5, <1>9, <1>16, <2>2, <2>3, <2>4 DEF Family
<1>18. \A p \in Inner : \A s \in DOMAIN children[p] : children[p][s] = l =>
         s \in lo /\ s \in First(Held[l])
  BY <1>1, <1>7 DEF Sound, Exact
<1>19. Exact({l})'
  <2>1. \A p \in Inner : \A s \in DOMAIN children[p] :
          children[p][s] = l \/ s \in First(Held'[children[p][s]])
    BY <1>1, <1>10, <1>16 DEF Sound, Exact, Basic
  <2> QED
    BY <1>4, <1>9, <2>1 DEF Exact
<1>20. Fits(Allocated, h, Held, l, x) /\ \A m \in Leaves \ {l} : x \notin Held[m]
  BY <1>1, <1>2, CoveredKey DEF Sound, Fits
<1>21. SplitGrown(Allocated, Held, Held', l, new, x, lo, hi)
  <2>1. \A n \in Allocated \ {l} : Held'[n] = Held[n]
    BY <1>1, <1>5, <1>10 DEF Basic
  <2> QED
    BY <1>7, <1>10, <2>1 DEF SplitGrown
<1>22. Levels(g)' /\ Neighbours(Level(g, l), Held, l, new)'
  <2>1. l \in Allocated /\ new \notin Allocated /\ g[new] = h[l] /\ Layered(Allocated, h, Held)
        /\ \A n \in Allocated : g[n] = h[n]
    BY <1>1, <1>5, <1>12 DEF Sound, Levels
  <2>2. \A n : n \in Level(g, l)' <=> n \in Allocated' /\ g[n] = g[l]
    BY DEF Level
  <2>3. Layered(Allocated', g, Held') /\ Neighbours(Level(g, l)', Held', l, new)
    <3>1. PICK A, B, T, K, K1 :
            A = Allocated /\ B = Allocated' /\ T = Level(g, l)' /\ K = Held /\ K1 = Held'
      OBVIOUS
    <3>2. Splits(A, h, g, K, K1, l, new, x, lo, hi, B, T)
      BY ONLY <1>9, <1>20, <1>21, <2>1, <2>2, <3>1 DEF Splits
    <3>3. Layered(B, g, K1) /\ Neighbours(T, K1, l, new)
      BY ONLY <3>2, SplitGrownLayers
    <3> QED
      BY <3>1, <3>3
  <2> QED
    BY <2>3 DEF Levels
<1>23. Chained'
  <2>1. SplitGrown(Leaves, Held, Held', l, new, x, lo, hi) /\ Fits(Leaves, h, Held, l, x)
    BY <1>1, <1>20, <1>21 DEF SplitGrown, Fits, Basic
  <2>2. /\ \A n \in Leaves : h[n] = h[l]
        /\ \A n \in Leaves : Held[n] \subseteq Int
        /\ \A n \in Leaves \ {l} : Held[n] # {}
    <3>1. \A n \in Leaves : n \in Allocated /\ IsLeaf(n)
      BY <1>1 DEF Leaves, Basic
    <3>2. \A n \in Leaves : h[n] = h[l] /\ Held[n] \subseteq Int
      BY <1>1, <1>12, <3>1 DEF Sound, Kinds, Basic
    <3>3. \A n \in Leaves \ {l} : n # root
      <4>1. ASSUME NEW n \in Leaves \ {l}, n = root PROVE FALSE
        <5>1. l # root /\ IsLeaf(root) /\ root \in Node
          BY <1>1, <3>1, <4>1 DEF Basic
        <5>2. h[l] < h[root] /\ h[root] = 0
          BY <1>1, <1>5, <5>1, RootAlone DEF Sound, Kinds, Top
        <5> QED
          BY <1>12, <5>2
      <4> QED
        BY <4>1
    <3> QED
      BY <1>1, <3>1, <3>2, <3>3 DEF Sound, Populated
  <2>3. LinkedIn(Leaves, Leaves', l, new, nextLeaf, prevLeaf, rightmostLeaf,
                 nextLeaf', prevLeaf', rightmostLeaf')
    <3>1. \A n \in Leaves' : n \in Node
      BY <1>1 DEF Basic
    <3> QED
      BY <1>9, <1>13, <3>1 DEF LinkedIn
  <2>4. Linked(Leaves, Held, nextLeaf, prevLeaf, leftmostLeaf, rightmostLeaf)
    BY <1>1 DEF Sound, Chained
  <2>5. /\ l \in Leaves /\ new \notin Leaves /\ x \in Int /\ Null \notin Leaves /\ new # Null
    BY <1>1, <1>2, <1>5 DEF Basic
  <2>6. Linked(Leaves', Held', nextLeaf', prevLeaf', leftmostLeaf, rightmostLeaf')
    BY ONLY <2>1, <2>2, <2>3, <2>4, <2>5, SplitGrownLinks
  <2> QED
    BY <1>4, <2>6 DEF Chained
<1>24. Populated({})'
  <2>1. \A n \in Allocated' : n # l /\ n # new => n \in Allocated /\ Held'[n] = Held[n]
    BY <1>1, <1>9, <1>10 DEF Basic
  <2> QED
    BY <1>1, <1>4, <1>7, <1>9, <1>10, <2>1 DEF Populated, Sound
<1>25. \A p \in Inner : \A s \in DOMAIN children[p] : children[p][s] = l => s \in Held'[l]
  BY <1>10, <1>18
<1>26. StaleOK(g, {l})'
  <2>1. (\A p \in Inner : \A s \in Held[p] : children[p][s] = l => s \in Held[l])'
    BY <1>1, <1>4, <1>9, <1>25 DEF Basic
  <2>2. l \in Leaves' /\ (\E O : Family(g, O)')
    BY <1>9, <1>17
  <2>3. (\A p \in Inner : \A s \in Held[p] : children[p][s] = l =>
          \A y \in Held[l] : \A r \in Inner : \A t \in Held[r] :
            t # s => t # y /\ (t < s <=> t < y))'
    BY <1>1, <1>14, <1>19, <1>22, <2>1, <2>2, LeafSeparatorsMoveNext DEF LeafSeparators
  <2> QED
    BY <1>1, <2>3 DEF StaleOK, Basic, First
<1>27. Counted'
  <2>1. Elements' = Elements \cup {x} /\ x \notin Elements
    <3>1. \A y : y \in Elements' <=> \E m \in Leaves' : y \in Held'[m]
      BY <1>1 DEF Elements, Basic, Leaves
    <3>2. \A y : y \in Elements <=> y \in Held[l] \/ \E m \in Leaves \ {l} : y \in Held[m]
      BY <1>1, ElementsOf
    <3>3. \A m \in Leaves \ {l} : Held'[m] = Held[m]
      BY <1>1, <1>5, <1>10 DEF Basic
    <3>4. x \notin Held[l]
      BY <1>4, <1>5
    <3>5. \A y : y \in Elements' <=> y \in Elements \/ y = x
      BY <1>5, <1>7, <1>9, <1>10, <3>1, <3>2, <3>3
    <3> QED
      BY <1>20, <3>2, <3>4, <3>5
  <2> QED
    BY <1>1, <1>4, <2>1, ElementsFinite, FS_AddElement DEF Counted
<1>28. ~(x < c) => Exact({})'
  <2> SUFFICES ASSUME ~(x < c), NEW p \in Inner, NEW s \in DOMAIN children[p],
                      children[p][s] = l
               PROVE  s \in First(Held'[l])
    BY <1>4, <1>9, <1>19 DEF Exact
  <2>1. Held[l] \in SUBSET Int /\ \A y \in lo : y \in Held[l]
    BY <1>1, <1>5, <1>6 DEF Basic
  <2> QED
    BY <1>10, <1>18, <2>1, FirstStays
<1>29. l # leftmostLeaf => Exact({})'
  <2> SUFFICES ASSUME l # leftmostLeaf, NEW p \in Inner, NEW s \in DOMAIN children[p],
                      children[p][s] = l
               PROVE  s \in First(Held'[l])
    BY <1>4, <1>9, <1>19 DEF Exact
  <2>1. PICK y \in Held[l] : y =< x
    <3>1. leftmostLeaf \in Level(h, l) \ {l} /\ Precedes(Held, leftmostLeaf, l)
      BY <1>1, <1>5, <1>12 DEF Sound, Kinds, Chained, Linked, Level, Leaves, Basic
    <3> QED
      BY <1>1, <1>2, <3>1 DEF Covers
  <2>2. Held[l] \subseteq Int /\ s \in Held[l] /\ (\A z \in Held[l] : s =< z) /\ s \in lo
    BY <1>1, <1>5, <1>18 DEF First, Basic
  <2>3. s =< x /\ \A z \in lo : z \in Held[l] \/ z = x
    BY <1>1, <1>2, <1>7, <2>1, <2>2
  <2> QED
    BY <1>10, <2>2, <2>3 DEF First
<1>30. Running(g)'
  <2>1. Known' /\ it'.leaf \in Leaves' /\ node' = l /\ node' \in Allocated' /\ sib' \in Allocated'
        /\ IsLeaf(l)'
    <3>1. it'.leaf \in {l, new}
      BY <1>3
    <3> QED
      BY <1>2, <1>3, <1>4, <1>5, <1>9, <3>1 DEF Known, Leaves, IsLeaf
  <2>2. g[new] = g[l] /\ c \in First(Held'[new]) /\ k' = c /\ sib' = new
    BY <1>3, <1>5, <1>7, <1>10, <1>12
  <2>3. cont' = "fixLeft" => it'.leaf = l
    BY <1>3
  <2>4. Neighbours(Level(g, node), Held, node, sib)'
    BY <1>22, <2>1, <2>2
  <2>5. SlotsHeld'
    <3>1. \A p \in Inner : \A s \in DOMAIN children[p] : s \in Held'[children[p][s]]
      BY <1>1, <1>10, <1>16, <1>25 DEF Sound, Exact, First, Basic
    <3> QED
      BY <1>1, <1>4, <1>9, <3>1 DEF SlotsHeld, Basic
  <2>7. \E y, z \in Held'[l] : y # z
    BY <1>7, <1>10
  <2>8. cont' = "fixLeft" /\ it'.leaf # leftmostLeaf' => Exact({})'
    BY <1>3, <1>4, <1>28, <1>29
  <2>6. Promoting(g)'
    BY <2>1, <2>2, <2>3, <2>4, <2>5, <2>7, <2>8 DEF Promoting
  <2> QED
    BY <1>0, <2>1, <2>6 DEF Running, Searching, Fixing, Erasing, Resting
<1>31. Unplaced' = {new} /\ Light' = {} /\ (Stale' = {l} \/ (Stale' = {} /\ ~(x < c)))
  BY <1>0, <1>3, <1>5 DEF Unplaced, Light, Stale
<1>32. Shape(g)'
  <2>1. CASE Stale' = {l}
    BY <1>14, <1>15, <1>17, <1>19, <1>22, <1>23, <1>24, <1>26, <1>30, <1>31, <2>1 DEF Shape, Sound
  <2>2. CASE Stale' = {} /\ ~(x < c)
    <3>1. StaleOK(g, {})'
      BY DEF StaleOK
    <3> QED
      BY <1>14, <1>15, <1>17, <1>22, <1>23, <1>24, <1>28, <1>30, <1>31, <2>2, <3>1 DEF Shape, Sound
  <2> QED
    BY <1>31, <2>1, <2>2
<1>s. KeepsSizes
  <2> SUFFICES ASSUME Sized, SplitsBalance PROVE Sized'
    BY DEF KeepsSizes
  <2>1. Light = {} /\ root' = root /\ node' = l
    BY <1>0, <1>2, <1>4 DEF Light
  <2>2. PICK cap : cap = LeafNodeSize
    OBVIOUS
  <2>3. cap = Capacity(l) /\ cap =< Cardinality(Held[l]) /\ x \notin Held[l]
    <3>1. IsFiniteSet(Held[l])
      BY <1>1, <1>5 DEF Basic
    <3> QED
      BY <1>4, <1>5, <2>2, <3>1, FS_CardinalityType, SizeAssumption DEF Capacity, Leaves
  <2>4. HalfSplit(Held[l], cap, x, c, lo, hi)
    BY <1>6, <2>2
  <2>5. /\ IsLeaf(l)' <=> IsLeaf(l)
        /\ IsLeaf(new)' <=> IsLeaf(l)
        /\ \A m \in Allocated \ {l, new} : Held'[m] = Held[m] /\ (IsLeaf(m)' <=> IsLeaf(m))
    BY <1>1, <1>5, <1>9, <1>10 DEF IsLeaf, Leaves, Basic
  <2> QED
    BY <1>1, <1>5, <1>9, <1>10, <2>1, <2>3, <2>4, <2>5, SplitSized
<1> QED
  BY <1>s, <1>12, <1>27, <1>32

----------------------------------------------------------------------------
(* insert_into_parent. *)

\* The new child's key fits into the parent of its neighbour.
LEMMA PromoteFits ==
  ASSUME Basic, NEW h, NEW O, Kinds(h), Family(h, O), Levels(h), SlotsHeld,
         NEW p \in Inner, NEW s \in Held[p], NEW n, n = children[p][s],
         NEW d, parent[d] = Null, Neighbours(Level(h, n), Held, n, d),
         NEW x \in First(Held[d])
  PROVE  s < x /\ Fits(Allocated, h, Held, p, x)
<1>1. /\ n \in Allocated /\ d \in Allocated /\ h[d] = h[n] /\ parent[n] = p
      /\ h[p] = h[n] + 1 /\ Precedes(Held, n, d)
      /\ \A j \in Allocated \ {n, d} : h[j] = h[n] => Precedes(Held, j, n) \/ Precedes(Held, d, j)
  BY ChildFacts DEF Neighbours, Level
<1>2. s \in Held[n] /\ x \in Held[d] /\ s < x
  BY <1>1 DEF SlotsHeld, First, Precedes
<1>3. h[n] \in Nat /\ p \in Allocated
  BY <1>1 DEF Kinds, Basic
<1>4. ASSUME NEW m \in Allocated \ {p}, h[m] = h[p]
      PROVE  /\ Precedes(Held, p, m) => \A y \in Held[m] : x < y
             /\ Precedes(Held, m, p) => \A y \in Held[m] : y < x
  <2>1. m \in Inner
    BY <1>1, <1>3, <1>4 DEF Kinds, Basic, Leaves
  <2> SUFFICES ASSUME NEW y \in Held[m]
               PROVE  /\ Precedes(Held, p, m) => x < y
                      /\ Precedes(Held, m, p) => y < x
    OBVIOUS
  <2> DEFINE e == children[m][y]
  <2>2. e \in Allocated /\ parent[e] = m /\ h[m] = h[e] + 1 /\ y \in Held[e]
    BY <2>1, ChildFacts DEF SlotsHeld
  <2>3. e # n /\ e # d
    BY <1>1, <2>1, <2>2 DEF Basic
  <2>4. h[e] = h[n]
    <3>1. h[e] \in Nat
      BY <2>2 DEF Kinds, Basic
    <3>2. h[e] + 1 = h[n] + 1
      BY <1>1, <1>4, <2>2
    <3> HIDE DEF e
    <3> QED
      BY ONLY <1>3, <3>1, <3>2
  <2> HIDE DEF e
  <2>5. s \in Int /\ y \in Int /\ x \in Int /\ (s < y <=> Precedes(Held, n, e))
    <3>1. x \in Int
      BY <1>1, <1>2 DEF Basic
    <3> QED
      BY <1>1, <1>2, <2>2, <2>3, <2>4, <3>1, SlotOrder
  <2>6. ASSUME Precedes(Held, p, m) PROVE x < y
    <3>1. s < y
      BY <2>6 DEF Precedes
    <3>2. Precedes(Held, e, n) \/ Precedes(Held, d, e)
      BY <1>1, <2>2, <2>3, <2>4
    <3>3. ~Precedes(Held, e, n)
      BY <1>2, <2>2, <2>5, <3>1 DEF Precedes
    <3> QED
      BY <1>2, <2>2, <3>2, <3>3 DEF Precedes
  <2>7. ASSUME Precedes(Held, m, p) PROVE y < x
    <3>1. y < s
      BY <2>7 DEF Precedes
    <3> QED
      BY <1>2, <2>5, <3>1
  <2> QED
    BY <2>6, <2>7
<1> QED
  BY <1>2, <1>4 DEF Fits

\* insert_into_parent returns.
LEMMA AfterPromoteShape ==
  ASSUME Basic', NEW h, NEW Z, Z = Stale, pc = "promote", AfterPromote,
         it.leaf \in Leaves', UNCHANGED <<it, data>>, Sound(h, {}, Z, {})',
         {node, sib} \subseteq Allocated'
  PROVE  Shape(h)'
<1>1. it.leaf \in Allocated' /\ it'.leaf \in Leaves' /\ it'.leaf \in Allocated'
  BY DEF Basic
<1>2. CASE cont = "fixLeft"
  <2>1. /\ pc' = "fix" /\ cont' = "leftmost" /\ node' = it.leaf /\ sib' = sib
        /\ k' \in First(DOMAIN data[it.leaf])
    BY <1>2 DEF AfterPromote
  <2>2. Held'[it.leaf] = DOMAIN data[it.leaf]
    BY DEF Basic
  <2>3. Unplaced' = {} /\ Stale' = Z /\ Light' = {}
    BY <1>2, <2>1 DEF Unplaced, Stale, Light
  <2>4. Fixing' /\ Known'
    BY <1>1, <2>1, <2>2 DEF Fixing, Known
  <2>5. Running(h)'
    BY <2>1, <2>4 DEF Running, Searching, Promoting, Erasing, Resting
  <2> QED
    BY <2>3, <2>5 DEF Shape
<1>3. CASE cont # "fixLeft"
  <2>1. pc' = "answer" /\ UNCHANGED args
    BY <1>3 DEF AfterPromote
  <2>2. Unplaced' = {} /\ Stale' = Z /\ Light' = {}
    BY <1>3, <2>1 DEF Unplaced, Stale, Light
  <2>3. Known'
    BY <1>1, <2>1 DEF Known, args
  <2>4. Running(h)'
    BY <2>1, <2>3 DEF Running, Searching, Promoting, Fixing, Erasing, Resting
  <2> QED
    BY <2>2, <2>4 DEF Shape
<1> QED
  BY <1>2, <1>3

\* A node has a place in the tree and keys, and its neighbour has none yet.
LEMMA PromoteStart ==
  ASSUME IInv, IInv', NEW h, Shape(h), Promote
  PROVE  \E n, d, x, Z, l :
           /\ n = node /\ d = sib /\ x = k /\ Z = Stale /\ l = it.leaf /\ Z \subseteq {l}
           /\ Basic /\ Basic' /\ Sound(h, {d}, Z, {}) /\ SlotsHeld
           /\ n \in Allocated /\ d \in Allocated /\ l \in Leaves /\ n # d
           /\ h[d] = h[n] /\ h[n] \in Nat /\ d # root /\ parent[d] = Null
           /\ Neighbours(Level(h, n), Held, n, d)
           /\ x \in First(Held[d]) /\ x \in Int /\ \E y, z \in Held[n] : y # z
           /\ cont = "fixLeft" /\ IsLeaf(n) => l = n
           /\ cont = "fixLeft" /\ l # leftmostLeaf => Exact({})
           /\ n = root \/ parent[n] \in Inner
           /\ UNCHANGED <<size, leftmostLeaf, rightmostLeaf, data, chain, it>>
<1>1. pc = "promote" /\ UNCHANGED <<size, leftmostLeaf, rightmostLeaf, data, chain, it>>
  BY DEF Promote
<1>2. PICK n, d, x, Z, l : n = node /\ d = sib /\ x = k /\ Z = Stale /\ l = it.leaf
  OBVIOUS
<1>3. /\ Sound(h, {d}, Z, {}) /\ Basic /\ Basic' /\ Promoting(h)
  BY <1>1, <1>2, HeldBasic, HeldBasicNext DEF Shape, Unplaced, Light, Running
<1>4. /\ n \in Allocated /\ d \in Allocated /\ l \in Leaves
      /\ h[d] = h[n]
      /\ Neighbours(Level(h, n), Held, n, d)
      /\ x \in First(Held[d])
      /\ \E y, z \in Held[n] : y # z
      /\ cont = "fixLeft" /\ IsLeaf(n) => l = n
      /\ cont = "fixLeft" /\ l # leftmostLeaf => Exact({})
      /\ SlotsHeld
  BY <1>1, <1>2, <1>3 DEF Promoting
<1>5. n # d /\ h[n] \in Nat /\ d # root /\ parent[d] = Null /\ x \in Int
  BY <1>3, <1>4 DEF Neighbours, Sound, Kinds, Family, Basic, First
<1>6. n = root \/ parent[n] \in Inner
  BY <1>3, <1>4, <1>5 DEF Sound, Family
<1>7. Z \subseteq {l}
  BY <1>1, <1>2 DEF Stale
<1> QED
  BY <1>1, <1>2, <1>3, <1>4, <1>5, <1>6, <1>7

\* Stale separators of one leaf can move, as long as they are its keys.
LEMMA StaleLeafNext ==
  ASSUME Basic', NEW g, Kinds(g)', NEW O, Family(g, O)', NEW l \in Leaves', NEW Z, Z \subseteq {l},
         Exact(Z)', Levels(g)', SlotsHeld'
  PROVE  StaleOK(g, Z)'
<1>1. Exact({l})'
  BY DEF Exact
<1>2. (\A p \in Inner : \A s \in Held[p] : children[p][s] = l => s \in Held[l])'
  BY DEF SlotsHeld
<1>3. (\A p \in Inner : \A s \in Held[p] : children[p][s] = l =>
        \A y \in Held[l] : \A q \in Inner : \A t \in Held[q] :
          t # s => t # y /\ (t < s <=> t < y))'
  BY <1>1, <1>2, LeafSeparatorsMoveNext DEF LeafSeparators
<1> QED
  BY <1>3 DEF StaleOK, Basic, First

LEMMA PromoteRoomShape ==
  ASSUME IInv, IInv', NEW h, Shape(h), Counted, PromoteRoom
  PROVE  Shape(h)' /\ Counted' /\ KeepsSizes
<1>1. PICK n, d, x, Z, l :
        /\ n = node /\ d = sib /\ x = k /\ Z = Stale /\ l = it.leaf /\ Z \subseteq {l}
        /\ Basic /\ Basic' /\ Sound(h, {d}, Z, {}) /\ SlotsHeld
        /\ n \in Allocated /\ d \in Allocated /\ l \in Leaves /\ n # d
        /\ h[d] = h[n] /\ h[n] \in Nat /\ d # root /\ parent[d] = Null
        /\ Neighbours(Level(h, n), Held, n, d)
        /\ x \in First(Held[d]) /\ x \in Int /\ \E y, z \in Held[n] : y # z
        /\ cont = "fixLeft" /\ IsLeaf(n) => l = n
        /\ cont = "fixLeft" /\ l # leftmostLeaf => Exact({})
        /\ n = root \/ parent[n] \in Inner
        /\ UNCHANGED <<size, leftmostLeaf, rightmostLeaf, data, chain, it>>
  BY PromoteStart DEF PromoteRoom
<1>2. PICK p : p = parent[n]
  OBVIOUS
<1>3. /\ parent[n] # Null /\ x \notin DOMAIN children[p]
      /\ parent' = [parent EXCEPT ![d] = p]
      /\ children' = [children EXCEPT ![p] = Insert(children[p], x, d)]
      /\ AfterPromote /\ UNCHANGED <<root, rootIsLeaf, kind>> /\ pc = "promote"
  BY <1>1, <1>2 DEF PromoteRoom, Promote
<1>4. n # root /\ p \in Inner
  BY <1>1, <1>2, <1>3 DEF Sound, Top
<1>5. PICK s \in Held[p] : n = children[p][s]
  BY <1>1, <1>2, <1>4, OwnParent DEF Sound
<1>6. /\ p \in Node /\ d \in Node /\ h[p] = h[n] + 1 /\ p # n /\ p # d
      /\ Held[p] = DOMAIN children[p] /\ Held[p] \subseteq Int /\ p \in Allocated
  <2>1. p \in Node /\ d \in Node /\ h[p] = h[n] + 1 /\ p \in Allocated
    BY <1>1, <1>4, <1>5, ChildFacts DEF Sound, Basic
  <2>2. p # n /\ p # d
    BY <1>1, <2>1
  <2> QED
    BY <1>1, <1>4, <2>1, <2>2 DEF Basic
<1>7. s < x /\ Fits(Allocated, h, Held, p, x)
  <2>1. PICK O : O = {d}
    OBVIOUS
  <2>2. Kinds(h) /\ Family(h, O) /\ Levels(h)
    BY <1>1, <2>1 DEF Sound
  <2> QED
    BY ONLY <1>1, <1>4, <1>5, <2>2, PromoteFits
<1>8. /\ DOMAIN children'[p] = Held[p] \cup {x}
      /\ children'[p][x] = d
      /\ \A t \in Held[p] : children'[p][t] = children[p][t] /\ t # x
      /\ \A q \in Node \ {p} : children'[q] = children[q]
      /\ parent'[d] = p /\ \A q \in Node \ {d} : parent'[q] = parent[q]
  <2>1. children \in [Node -> {children[q] : q \in Node}] /\ parent \in [Node -> Pointer]
    BY Parts DEF IInv, HeapOK, Maps
  <2>2. children'[p] = Insert(children[p], x, d)
    BY <1>3, <1>6, <2>1
  <2> QED
    BY <1>3, <1>6, <2>1, <2>2 DEF Insert
<1>9. /\ Allocated' = Allocated /\ Leaves' = Leaves /\ Inner' = Inner
      /\ \A m : IsLeaf(m)' <=> IsLeaf(m)
  BY <1>3 DEF Allocated, Leaves, Inner, IsLeaf
<1>10. /\ Held'[p] = Held[p] \cup {x}
       /\ \A m \in Node \ {p} : Held'[m] = Held[m]
  <2>1. Held'[p] = DOMAIN children'[p]
    BY <1>1, <1>4, <1>9 DEF Basic
  <2>2. \A m \in Node \ {p} : Held'[m] = Held[m]
    BY <1>1, <1>8, <1>9 DEF Held, KeysOf
  <2> QED
    BY <1>8, <2>1, <2>2
<1>11. \A q \in Inner : \A t \in Held[q] :
         /\ children[q][t] \in Allocated /\ children[q][t] \in Node /\ children[q][t] # d
         /\ parent[children[q][t]] = q /\ h[q] = h[children[q][t]] + 1
         /\ q \in Node /\ Held[q] = DOMAIN children[q]
  <2>1. \A q \in Inner : \A t \in Held[q] :
         /\ children[q][t] \in Allocated
         /\ parent[children[q][t]] = q /\ h[q] = h[children[q][t]] + 1
    BY <1>1, ChildFacts DEF Sound
  <2> QED
    BY <1>1, <2>1 DEF Basic
<1>12. \A q \in Inner : \A t \in DOMAIN children'[q] :
         \/ q = p /\ t = x /\ children'[q][t] = d
         \/ t \in Held[q] /\ children'[q][t] = children[q][t]
  <2>1. ASSUME NEW q \in Inner, q # p, NEW t \in DOMAIN children'[q]
        PROVE  t \in Held[q] /\ children'[q][t] = children[q][t]
    <3>1. q \in Node /\ Held[q] = DOMAIN children[q]
      BY <1>1 DEF Basic
    <3> QED
      BY <1>8, <2>1, <3>1
  <2> QED
    BY <1>8, <2>1
<1>13. Kinds(h)' /\ Top(h)'
  <2>1. \A m \in Node : m \in Inner' \/ DOMAIN children'[m] = {}
    BY <1>1, <1>4, <1>8, <1>9 DEF Sound, Kinds
  <2>2. \A m \in Node \ Allocated' : parent'[m] = Null
    BY <1>1, <1>8, <1>9 DEF Sound, Kinds
  <2>3. Kinds(h)'
    BY <1>1, <1>3, <1>9, <2>1, <2>2 DEF Sound, Kinds, chain
  <2>4. parent'[root] = Null
    BY <1>1, <1>8 DEF Sound, Top, Basic
  <2> QED
    BY <1>1, <1>3, <1>9, <2>3, <2>4 DEF Sound, Top
<1>14. Family(h, {})'
  <2>1. \A q \in Inner : \A t \in DOMAIN children'[q] :
          /\ children'[q][t] \in Allocated
          /\ parent'[children'[q][t]] = q
          /\ h[q] = h[children'[q][t]] + 1
    BY <1>1, <1>6, <1>8, <1>11, <1>12
  <2>2. \A q \in Inner : \A t, u \in DOMAIN children'[q] :
          children'[q][t] = children'[q][u] => t = u
    <3>1. \A q \in Inner : \A t, u \in Held[q] : children[q][t] = children[q][u] => t = u
      BY <1>1, <1>11 DEF Sound, Family
    <3> QED
      BY <1>11, <1>12, <3>1
  <2>3. ASSUME NEW m \in Allocated, m # root
        PROVE  parent'[m] \in Inner /\ \E t \in DOMAIN children'[parent'[m]] :
                                         children'[parent'[m]][t] = m
    <3>1. CASE m = d
      BY <1>4, <1>8, <3>1
    <3>2. CASE m # d
      <4>1. PICK t \in Held[parent[m]] : parent[m] \in Inner /\ children[parent[m]][t] = m
        BY <1>1, <2>3, <3>2, OwnParent DEF Sound
      <4>2. parent'[m] = parent[m]
        BY <1>1, <1>8, <3>2 DEF Basic
      <4>3. t \in DOMAIN children'[parent[m]] /\ children'[parent[m]][t] = m
        BY <1>8, <1>11, <4>1
      <4> QED
        BY <4>1, <4>2, <4>3
    <3> QED
      BY <3>1, <3>2
  <2> QED
    BY ONLY <1>3, <1>9, <2>1, <2>2, <2>3 DEF Family
<1>15. SlotsHeld'
  <2>1. \A q \in Inner : \A t \in Held[q] : children[q][t] = p => t \in Held'[p]
    BY <1>1, <1>10 DEF SlotsHeld
  <2>2. \A q \in Inner : \A t \in Held[q] : t \in Held'[children[q][t]]
    BY <1>1, <1>10, <1>11, <2>1 DEF SlotsHeld
  <2>3. x \in Held'[d]
    BY <1>1, <1>6, <1>10 DEF First
  <2>4. \A q \in Inner : Held'[q] = DOMAIN children'[q]
    BY <1>1, <1>9 DEF Basic
  <2> QED
    BY <1>9, <1>12, <2>2, <2>3, <2>4 DEF SlotsHeld
<1>16. Exact(Z)'
  <2> SUFFICES ASSUME NEW q \in Inner, NEW t \in DOMAIN children'[q], children'[q][t] \notin Z
               PROVE  t \in First(Held'[children'[q][t]])
    BY <1>9 DEF Exact
  <2>1. CASE q = p /\ t = x /\ children'[q][t] = d
    BY <1>1, <1>6, <1>10, <2>1
  <2>2. CASE t \in Held[q] /\ children'[q][t] = children[q][t]
    <3>1. t \in First(Held[children[q][t]])
      BY <1>1, <1>11, <2>2 DEF Sound, Exact
    <3>2. CASE children[q][t] # p
      BY <1>10, <1>11, <2>2, <3>1, <3>2
    <3>3. CASE children[q][t] = p
      <4>1. t \in First(Held[p] \cup {x})
        BY <1>1, <1>5, <1>6, <1>7, <3>1, <3>3 DEF First
      <4> QED
        BY <1>10, <2>2, <3>3, <4>1
    <3> QED
      BY <3>2, <3>3
  <2> QED
    BY <1>12, <2>1, <2>2
<1>17. \A m, j \in Allocated :
         m # j /\ h[m] = h[j] /\ Precedes(Held, m, j) => Precedes(Held', m, j)
  <2>1. \A j \in Allocated \ {p} : Held'[j] = Held[j]
    BY <1>1, <1>10 DEF Basic
  <2> QED
    BY ONLY <1>6, <1>7, <1>10, <2>1, GrowOrder DEF Fits
<1>18. Levels(h)'
  <2>1. Layered(Allocated, h, Held')
    BY <1>1, <1>17, OrderKept DEF Sound, Levels
  <2> QED
    BY <1>9, <2>1 DEF Levels
<1>19. \A m \in Leaves : Held'[m] = Held[m]
  BY <1>1, <1>4, <1>10 DEF Basic
<1>20. Chained'
  <2>1. \A m, j \in Leaves : m # j /\ Precedes(Held, m, j) => Precedes(Held', m, j)
    BY <1>19 DEF Precedes
  <2>2. Linked(Leaves, Held', nextLeaf, prevLeaf, leftmostLeaf, rightmostLeaf)
    BY <1>1, <2>1, LinksKept DEF Sound, Chained
  <2> QED
    BY <1>1, <1>9, <2>2 DEF Chained, chain
<1>21. Populated({})'
  BY <1>1, <1>3, <1>9, <1>10 DEF Sound, Populated, Basic
<1>22. StaleOK(h, Z)'
  BY <1>1, <1>9, <1>13, <1>14, <1>15, <1>16, <1>18, StaleLeafNext
<1>23. Shape(h)'
  <2>1. Sound(h, {}, Z, {})'
    BY <1>13, <1>14, <1>16, <1>18, <1>20, <1>21, <1>22 DEF Sound
  <2> QED
    BY <1>1, <1>3, <1>9, <2>1, AfterPromoteShape
<1>24. Counted'
  <2>1. Elements' = Elements
    BY <1>1, <1>3 DEF Elements, IsLeaf
  <2> QED
    BY <1>1, <2>1 DEF Counted
<1>s. KeepsSizes
  <2> SUFFICES ASSUME Sized PROVE Sized'
    BY DEF KeepsSizes
  <2>1. Light = {} /\ root' = root /\ pc' # "promote"
    BY <1>3 DEF Light, AfterPromote
  <2>2. Cardinality(Held[p]) \in Nat /\ Cardinality(Held'[p]) = Cardinality(Held[p]) + 1
    <3>1. IsFiniteSet(Held[p]) /\ x \notin Held[p] /\ Held'[p] = Held[p] \cup {x}
      BY <1>1, <1>3, <1>6, <1>10 DEF Basic
    <3>2. Cardinality(Held[p] \cup {x}) = Cardinality(Held[p]) + 1
      BY ONLY <3>1, FS_AddElement
    <3> QED
      BY ONLY <3>1, <3>2, FS_CardinalityType
  <2>3. Cardinality(Held[p]) < InternalNodeSize
    BY <1>1, <1>2, <1>6 DEF PromoteRoom, Size
  <2>4. Capacity(p)' = InternalNodeSize /\ UnderflowThreshold(p)' = UnderflowThreshold(p)
    <3>1. Capacity(p)' = Capacity(p) /\ UnderflowThreshold(p)' = UnderflowThreshold(p)
      BY <1>9, SameSizes
    <3>2. Capacity(p) = InternalNodeSize
      BY <1>4, <1>6 DEF Capacity, Inner, Leaves
    <3> QED
      BY <3>1, <3>2
  <2>5. p = root \/ Cardinality(Held[p]) >= UnderflowThreshold(p)
    BY <1>6, <2>1, EnoughKeys
  <2>6. /\ Cardinality(Held'[p]) =< InternalNodeSize
        /\ p = root \/ Cardinality(Held'[p]) >= UnderflowThreshold(p)
    BY <2>2, <2>3, <2>5, Thresholds, SizeAssumption
  <2>7. WellFilled(p)'
    BY <2>1, <2>4, <2>6 DEF WellFilled
  <2>8. PICK T : T = {p}
    OBVIOUS
  <2>9. /\ \A m \in Allocated' \ T :
             /\ m \in Allocated /\ (IsLeaf(m)' <=> IsLeaf(m)) /\ Held'[m] = Held[m]
             /\ m = root => m = root'
             /\ m \in Light => m \in Light'
        /\ \A m \in T : m \in Allocated' => WellFilled(m)'
    BY <1>1, <1>9, <1>10, <2>1, <2>7, <2>8 DEF Basic
  <2> QED
    BY ONLY <2>1, <2>9, SizesKept, Sized
<1> QED
  BY <1>s, <1>23, <1>24

LEMMA PromoteNewRootShape ==
  ASSUME IInv, IInv', NEW h, Shape(h), Counted, PromoteNewRoot
  PROVE  \E g \in [Node -> Nat] : Shape(g)' /\ Counted' /\ KeepsSizes
<1>1. PICK n, d, x, Z, l :
        /\ n = node /\ d = sib /\ x = k /\ Z = Stale /\ l = it.leaf /\ Z \subseteq {l}
        /\ Basic /\ Basic' /\ Sound(h, {d}, Z, {}) /\ SlotsHeld
        /\ n \in Allocated /\ d \in Allocated /\ l \in Leaves /\ n # d
        /\ h[d] = h[n] /\ h[n] \in Nat /\ d # root /\ parent[d] = Null
        /\ Neighbours(Level(h, n), Held, n, d)
        /\ x \in First(Held[d]) /\ x \in Int /\ \E y, z \in Held[n] : y # z
        /\ cont = "fixLeft" /\ IsLeaf(n) => l = n
        /\ cont = "fixLeft" /\ l # leftmostLeaf => Exact({})
        /\ n = root \/ parent[n] \in Inner
        /\ UNCHANGED <<size, leftmostLeaf, rightmostLeaf, data, chain, it>>
  BY PromoteStart DEF PromoteNewRoot
<1>2. PICK q \in OneOf(Free), y \in First(KeysOf(node)) :
        /\ y # k
        /\ kind' = [kind EXCEPT ![q] = IF IsLeaf(node) THEN "low" ELSE "high"]
        /\ children' = [children EXCEPT ![q] = Insert(Insert(children[q], y, node), k, sib)]
        /\ parent' = [parent EXCEPT ![node] = q, ![sib] = q]
        /\ root' = q
  BY DEF PromoteNewRoot
<1>3. PICK r, a : r = q /\ a = y
  OBVIOUS
<1>4. /\ r \in Node /\ kind[r] = "free" /\ a \in First(KeysOf(n)) /\ a # x
      /\ kind' = [kind EXCEPT ![r] = IF IsLeaf(n) THEN "low" ELSE "high"]
      /\ children' = [children EXCEPT ![r] = Insert(Insert(children[r], a, n), x, d)]
      /\ parent' = [parent EXCEPT ![n] = r, ![d] = r]
      /\ root' = r
  BY <1>1, <1>2, <1>3 DEF OneOf, Free
<1>5. /\ parent[n] = Null /\ rootIsLeaf' = FALSE /\ AfterPromote /\ pc = "promote"
  BY <1>1 DEF PromoteNewRoot, Promote
<1>6. /\ n = root /\ a \in First(Held[n]) /\ n \in Node /\ d \in Node
      /\ r \notin Allocated /\ r # n /\ r # d /\ r \notin Leaves
      /\ DOMAIN children[r] = {} /\ DOMAIN data[r] = {} /\ parent[r] = Null
  <2>1. n = root /\ n \in Node /\ d \in Node /\ a \in First(Held[n])
    BY <1>1, <1>4, <1>5 DEF Basic
  <2>2. r \notin Allocated /\ r \notin Leaves /\ ~IsLeaf(r)
    BY <1>4 DEF Allocated, Leaves, IsLeaf
  <2>3. r \notin Inner
    BY <1>1, <2>2 DEF Basic
  <2> QED
    BY <1>1, <1>4, <2>1, <2>2, <2>3 DEF Sound, Kinds
<1>7. /\ DOMAIN children'[r] = {a, x}
      /\ children'[r][a] = n /\ children'[r][x] = d
      /\ \A m \in Node \ {r} : children'[m] = children[m]
      /\ parent'[n] = r /\ parent'[d] = r
      /\ \A m \in Node \ {n, d} : parent'[m] = parent[m]
      /\ kind'[r] = (IF IsLeaf(n) THEN "low" ELSE "high")
      /\ \A m \in Node \ {r} : kind'[m] = kind[m]
  <2>1. children \in [Node -> {children[m] : m \in Node}] /\ parent \in [Node -> Pointer]
        /\ kind \in [Node -> {"free", "leaf", "low", "high"}]
    BY Parts DEF IInv, HeapOK, Maps
  <2>2. children'[r] = Insert(Insert(children[r], a, n), x, d)
    BY <1>4, <2>1
  <2>3. DOMAIN children'[r] = {a, x} /\ children'[r][a] = n /\ children'[r][x] = d
    BY <1>4, <1>6, <2>2 DEF Insert
  <2> QED
    BY <1>1, <1>4, <1>6, <2>1, <2>3
<1>8. /\ \A m : m \in Allocated' <=> m \in Allocated \/ m = r
      /\ Leaves' = Leaves
      /\ \A m : m \in Inner' <=> m \in Inner \/ m = r
      /\ \A m \in Node \ {r} : IsLeaf(m)' <=> IsLeaf(m)
      /\ ~IsLeaf(r)'
  <2>1. kind'[r] # "free" /\ kind'[r] # "leaf"
    BY <1>7
  <2>2. Leaves' = Leaves
    BY <1>4, <1>7, <2>1 DEF Leaves, IsLeaf
  <2> QED
    BY <1>4, <1>6, <1>7, <2>1, <2>2 DEF Allocated, Leaves, Inner, IsLeaf
<1>9. /\ Held'[r] = {a, x}
      /\ \A m \in Node \ {r} : Held'[m] = Held[m]
  <2>1. Held'[r] = DOMAIN children'[r]
    BY <1>1, <1>8 DEF Basic
  <2>2. \A m \in Node \ {r} : Held'[m] = Held[m]
    BY <1>1, <1>7, <1>8 DEF Held, KeysOf
  <2> QED
    BY <1>7, <2>1, <2>2
<1>10. PICK g : g = [h EXCEPT ![r] = h[n] + 1]
  OBVIOUS
<1>11. /\ g \in [Node -> Nat] /\ g[r] = h[n] + 1
       /\ \A m \in Allocated : g[m] = h[m] /\ h[m] \in Nat /\ h[m] =< h[n]
  <2>1. h \in [Node -> Nat] /\ \A m \in Allocated : h[m] =< h[n]
    BY <1>1, <1>6 DEF Sound, Kinds, Top
  <2> QED
    BY <1>1, <1>4, <1>6, <1>10, <2>1 DEF Basic
<1>12. \A m \in Inner : \A t \in Held[m] :
         /\ children[m][t] \in Allocated /\ children[m][t] \in Node
         /\ children[m][t] # d /\ children[m][t] # n /\ children[m][t] # r
         /\ parent[children[m][t]] = m /\ h[m] = h[children[m][t]] + 1
         /\ m \in Node /\ m \in Allocated /\ m # r /\ Held[m] = DOMAIN children[m]
  <2>1. \A m \in Inner : \A t \in Held[m] :
         /\ children[m][t] \in Allocated
         /\ parent[children[m][t]] = m /\ h[m] = h[children[m][t]] + 1
    BY <1>1, ChildFacts DEF Sound
  <2>2. \A m \in Inner : m \in Allocated /\ m \in Node /\ m # Null /\ Held[m] = DOMAIN children[m]
    BY <1>1 DEF Basic
  <2>3. \A m \in Allocated : m \in Node
    BY <1>1 DEF Basic
  <2> QED
    BY <1>1, <1>5, <1>6, <2>1, <2>2, <2>3
<1>13. \A m \in Inner' : \A t \in DOMAIN children'[m] :
         \/ m = r /\ t = a /\ children'[m][t] = n
         \/ m = r /\ t = x /\ children'[m][t] = d
         \/ m \in Inner /\ t \in Held[m] /\ children'[m][t] = children[m][t]
  <2>1. ASSUME NEW m \in Inner, NEW t \in DOMAIN children'[m]
        PROVE  t \in Held[m] /\ children'[m][t] = children[m][t]
    <3>1. m \in Node /\ Held[m] = DOMAIN children[m] /\ m # r
      BY <1>1, <1>6 DEF Basic
    <3> QED
      BY <1>7, <2>1, <3>1
  <2> QED
    BY <1>7, <1>8, <2>1
<1>14. Kinds(g)'
  <2>1. \A m \in Allocated' : (IsLeaf(m)' <=> g[m] = 0) /\ (kind'[m] = "low" <=> g[m] = 1)
    <3>1. \A m \in Allocated : (IsLeaf(m) <=> h[m] = 0) /\ (kind[m] = "low" <=> h[m] = 1)
      BY <1>1 DEF Sound, Kinds
    <3>2. \A m \in Allocated : m \in Node \ {r}
      BY <1>1, <1>6 DEF Basic
    <3>3. g[r] # 0 /\ (g[r] = 1 <=> h[n] = 0) /\ (kind'[r] = "low" <=> IsLeaf(n))
      BY <1>1, <1>7, <1>11
    <3> QED
      BY <1>1, <1>7, <1>8, <1>11, <3>1, <3>2, <3>3
  <2>2. \A m \in Node : IsLeaf(m)' \/ DOMAIN data'[m] = {}
    <3>1. \A m \in Node : IsLeaf(m) \/ DOMAIN data[m] = {}
      BY <1>1 DEF Sound, Kinds
    <3> QED
      BY <1>1, <1>6, <1>8, <3>1
  <2>3. \A m \in Node : m \in Inner' \/ DOMAIN children'[m] = {}
    <3>1. \A m \in Node : m \in Inner \/ DOMAIN children[m] = {}
      BY <1>1 DEF Sound, Kinds
    <3> QED
      BY <1>7, <1>8, <3>1
  <2>4. \A m \in Node \ Allocated' : parent'[m] = Null
    <3>1. \A m \in Node \ Allocated : parent[m] = Null
      BY <1>1 DEF Sound, Kinds
    <3> QED
      BY <1>1, <1>7, <1>8, <3>1
  <2>5. \A m \in Node \ Leaves' : nextLeaf'[m] = Null /\ prevLeaf'[m] = Null
    BY <1>1, <1>8 DEF Sound, Kinds, chain
  <2> QED
    BY <1>11, <2>1, <2>2, <2>3, <2>4, <2>5 DEF Kinds
<1>15. Top(g)'
  <2>1. parent'[r] = Null /\ r \in Allocated'
    BY <1>4, <1>6, <1>7, <1>8
  <2>2. \A m \in Allocated' : g[m] =< g[r]
    BY <1>1, <1>8, <1>11
  <2>3. IsLeaf(r)' = FALSE
    BY <1>7 DEF IsLeaf
  <2> QED
    BY <1>4, <1>5, <2>1, <2>2, <2>3 DEF Top
<1>16. Family(g, {})'
  <2>1. \A m \in Inner' : \A t \in DOMAIN children'[m] :
          /\ children'[m][t] \in Allocated'
          /\ parent'[children'[m][t]] = m
          /\ g[m] = g[children'[m][t]] + 1
    BY <1>1, <1>7, <1>8, <1>11, <1>12, <1>13
  <2>2. \A m \in Inner' : \A t, u \in DOMAIN children'[m] :
          children'[m][t] = children'[m][u] => t = u
    <3>1. \A m \in Inner : \A t, u \in Held[m] : children[m][t] = children[m][u] => t = u
      BY <1>1, <1>12 DEF Sound, Family
    <3> QED
      BY <1>1, <1>12, <1>13, <3>1
  <2>3. ASSUME NEW m \in Allocated', m # root'
        PROVE  parent'[m] \in Inner' /\ \E t \in DOMAIN children'[parent'[m]] :
                                         children'[parent'[m]][t] = m
    <3>1. CASE m = d
      BY <1>7, <1>8, <3>1
    <3>2. CASE m = n
      BY <1>7, <1>8, <3>2
    <3>3. CASE m # d /\ m # n
      <4>1. m \in Allocated /\ m # root /\ m \in Node
        BY <1>1, <1>4, <1>6, <1>8, <2>3, <3>3 DEF Basic
      <4>2. PICK t \in Held[parent[m]] : parent[m] \in Inner /\ children[parent[m]][t] = m
        BY <1>1, <3>3, <4>1, OwnParent DEF Sound
      <4>3. parent'[m] = parent[m]
        BY <1>7, <3>3, <4>1
      <4>4. t \in DOMAIN children'[parent[m]] /\ children'[parent[m]][t] = m
        BY <1>7, <1>12, <4>2
      <4> QED
        BY <1>8, <4>2, <4>3, <4>4
    <3> QED
      BY <3>1, <3>2, <3>3
  <2> QED
    BY ONLY <2>1, <2>2, <2>3 DEF Family
<1>17. SlotsHeld'
  <2>1. \A m \in Inner : \A t \in Held[m] : t \in Held'[children[m][t]]
    BY <1>1, <1>9, <1>12 DEF SlotsHeld
  <2>2. x \in Held'[d] /\ a \in Held'[n]
    BY <1>1, <1>6, <1>9 DEF First
  <2>3. \A m \in Inner' : Held'[m] = DOMAIN children'[m]
    BY <1>1 DEF Basic
  <2> QED
    BY <1>13, <2>1, <2>2, <2>3 DEF SlotsHeld
<1>18. Exact(Z)'
  <2> SUFFICES ASSUME NEW m \in Inner', NEW t \in DOMAIN children'[m], children'[m][t] \notin Z
               PROVE  t \in First(Held'[children'[m][t]])
    BY DEF Exact
  <2>1. CASE m = r /\ t = x /\ children'[m][t] = d
    BY <1>1, <1>6, <1>9, <2>1
  <2>2. CASE m = r /\ t = a /\ children'[m][t] = n
    BY <1>1, <1>6, <1>9, <2>2
  <2>3. CASE m \in Inner /\ t \in Held[m] /\ children'[m][t] = children[m][t]
    <3>1. t \in First(Held[children[m][t]])
      BY <1>1, <1>12, <2>3 DEF Sound, Exact
    <3> QED
      BY <1>9, <1>12, <2>3, <3>1
  <2> QED
    BY <1>13, <2>1, <2>2, <2>3
<1>19. \A m \in Allocated : Held'[m] = Held[m]
  BY <1>1, <1>6, <1>9 DEF Basic
<1>20. Levels(g)'
  <2> SUFFICES ASSUME NEW m \in Allocated', NEW j \in Allocated', m # j, g[m] = g[j]
               PROVE  Precedes(Held', m, j) \/ Precedes(Held', j, m)
    BY DEF Levels, Layered
  <2>1. m # r /\ j # r
    BY <1>1, <1>8, <1>11
  <2>2. m \in Allocated /\ j \in Allocated /\ h[m] = h[j]
    BY <1>8, <1>11, <2>1
  <2>3. Precedes(Held, m, j) \/ Precedes(Held, j, m)
    BY <1>1, <2>2 DEF Sound, Levels, Layered
  <2> QED
    BY <1>19, <2>2, <2>3 DEF Precedes
<1>21. Chained'
  <2>1. \A m, j \in Leaves : m # j /\ Precedes(Held, m, j) => Precedes(Held', m, j)
    BY <1>1, <1>19 DEF Precedes, Basic
  <2>2. Linked(Leaves, Held', nextLeaf, prevLeaf, leftmostLeaf, rightmostLeaf)
    BY <1>1, <2>1, LinksKept DEF Sound, Chained
  <2> QED
    BY <1>1, <1>8, <2>2 DEF Chained, chain
<1>22. Populated({})'
  <2>1. \A m \in Allocated : Held[m] # {} /\ \E u, v \in Held[m] : u # v
    BY <1>1, <1>6 DEF Sound, Populated
  <2> QED
    BY <1>4, <1>8, <1>9, <1>19, <2>1 DEF Populated
<1>23. StaleOK(g, Z)'
  BY <1>1, <1>8, <1>14, <1>16, <1>17, <1>18, <1>20, StaleLeafNext
<1>24. Shape(g)'
  <2>1. Sound(g, {}, Z, {})'
    BY <1>14, <1>15, <1>16, <1>18, <1>20, <1>21, <1>22, <1>23 DEF Sound
  <2>2. {node, sib} \subseteq Allocated' /\ it.leaf \in Leaves'
    BY <1>1, <1>8
  <2> QED
    BY <1>1, <1>5, <2>1, <2>2, AfterPromoteShape
<1>25. Counted'
  <2>1. Elements' = Elements
    <3>1. \A m \in Node : IsLeaf(m)' <=> IsLeaf(m)
      BY <1>6, <1>8 DEF Leaves
    <3> QED
      BY <1>1, <3>1 DEF Elements
  <2> QED
    BY <1>1, <2>1 DEF Counted
<1>s. KeepsSizes
  <2> SUFFICES ASSUME Sized PROVE Sized'
    BY DEF KeepsSizes
  <2>1. Light = {} /\ root' = r /\ pc' # "promote"
    BY <1>4, <1>5 DEF Light, AfterPromote
  <2>2. WellFilled(r)'
    <3>1. PICK S : S = {a}
      OBVIOUS
    <3>2. IsFiniteSet(S) /\ Cardinality(S) = 1 /\ x \notin S
      BY <1>4, <3>1, FS_Singleton
    <3>3. Cardinality(S \cup {x}) = Cardinality(S) + 1
      BY ONLY <3>2, FS_AddElement
    <3>5. Held'[r] = S \cup {x}
      BY <1>9, <3>1
    <3>4. Capacity(r)' = InternalNodeSize
      BY <1>8 DEF Capacity
    <3> QED
      BY <2>1, <3>2, <3>3, <3>4, <3>5, SizeAssumption DEF WellFilled
  <2>3. WellFilled(n)'
    <3>1. Held'[n] = Held[n] /\ (IsLeaf(n)' <=> IsLeaf(n))
      BY <1>6, <1>8, <1>9
    <3>2. Capacity(n)' = Capacity(n) /\ UnderflowThreshold(n)' = UnderflowThreshold(n)
      BY <3>1, SameSizes
    <3>3. WellFilled(n) /\ Cardinality(Held[n]) >= UnderflowThreshold(n)
      BY <1>1, <1>5 DEF Sized
    <3> QED
      BY <3>1, <3>2, <3>3 DEF WellFilled
  <2>4. PICK T : T = {r, n}
    OBVIOUS
  <2>5. /\ \A m \in Allocated' \ T :
             /\ m \in Allocated /\ (IsLeaf(m)' <=> IsLeaf(m)) /\ Held'[m] = Held[m]
             /\ m = root => m = root'
             /\ m \in Light => m \in Light'
        /\ \A m \in T : m \in Allocated' => WellFilled(m)'
    BY <1>1, <1>6, <1>8, <1>9, <2>1, <2>2, <2>3, <2>4 DEF Basic
  <2> QED
    BY ONLY <2>1, <2>5, SizesKept, Sized
<1> QED
  BY <1>s, <1>11, <1>24, <1>25

\* The parent pointers after a split of p: of its children S to q, of d to target.
LEMMA SplitParents ==
  ASSUME Basic, NEW h, NEW O, Family(h, O), parent \in [Node -> Pointer],
         NEW p \in Inner, NEW q, NEW S, S \subseteq Held[p], NEW d \in Node, parent[d] # p,
         NEW target, NEW par, par[d] = target,
         \A m \in Node \ {d} : par[m] = Reparent(S, p, q)[m]
  PROVE  /\ par[d] = target
         /\ \A t \in S : children[p][t] # d /\ par[children[p][t]] = q
         /\ \A t \in Held[p] \ S : children[p][t] # d /\ par[children[p][t]] = p
         /\ \A m \in Node : parent[m] # p /\ m # d => par[m] = parent[m]
<1>1. /\ Held[p] = DOMAIN children[p]
      /\ \A t \in Held[p] : children[p][t] \in Node /\ parent[children[p][t]] = p
      /\ \A t, u \in Held[p] : children[p][t] = children[p][u] => t = u
  BY ChildFacts DEF Basic
<1> DEFINE re == Reparent(S, p, q)
<1>2. re = [c \in Node |-> IF \E s \in S : children[p][s] = c THEN q ELSE parent[c]]
  <2>1. S \cap DOMAIN children[p] = S
    BY <1>1
  <2> QED
    BY <2>1 DEF Reparent
<1>3. par[d] = target /\ \A m \in Node : m # d => par[m] = re[m]
  OBVIOUS
<1> HIDE DEF re
<1>4. \A m \in Node : re[m] = IF \E s \in S : children[p][s] = m THEN q ELSE parent[m]
  BY <1>2
<1>5. \A t \in Held[p] : children[p][t] # d
  BY <1>1
<1>6. \A t \in S : par[children[p][t]] = q
  BY <1>1, <1>3, <1>4, <1>5
<1>7. \A t \in Held[p] \ S : par[children[p][t]] = p
  BY <1>1, <1>3, <1>4, <1>5
<1>8. \A m \in Node : parent[m] # p /\ m # d => par[m] = parent[m]
  BY <1>1, <1>3, <1>4
<1> QED
  BY <1>3, <1>5, <1>6, <1>7, <1>8

LEMMA PromoteSplitShape ==
  ASSUME IInv, IInv', NEW h, Shape(h), Counted, PromoteSplit
  PROVE  \E g \in [Node -> Nat] : Shape(g)' /\ Counted' /\ KeepsSizes
<1>1. PICK n, d, x, Z, l :
        /\ n = node /\ d = sib /\ x = k /\ Z = Stale /\ l = it.leaf /\ Z \subseteq {l}
        /\ Basic /\ Basic' /\ Sound(h, {d}, Z, {}) /\ SlotsHeld
        /\ n \in Allocated /\ d \in Allocated /\ l \in Leaves /\ n # d
        /\ h[d] = h[n] /\ h[n] \in Nat /\ d # root /\ parent[d] = Null
        /\ Neighbours(Level(h, n), Held, n, d)
        /\ x \in First(Held[d]) /\ x \in Int /\ \E y, z \in Held[n] : y # z
        /\ cont = "fixLeft" /\ IsLeaf(n) => l = n
        /\ cont = "fixLeft" /\ l # leftmostLeaf => Exact({})
        /\ n = root \/ parent[n] \in Inner
        /\ UNCHANGED <<size, leftmostLeaf, rightmostLeaf, data, chain, it>>
  BY PromoteStart DEF PromoteSplit
<1>2. PICK p : p = parent[n]
  OBVIOUS
<1>3. /\ parent[n] # Null /\ x \notin DOMAIN children[p] /\ pc = "promote"
      /\ InternalNodeSize =< Cardinality(DOMAIN children[p])
      /\ UNCHANGED <<root, rootIsLeaf, pc, cont>>
      /\ node' = p
  BY <1>1, <1>2 DEF PromoteSplit, Promote
<1>4. n # root /\ p \in Inner
  BY <1>1, <1>2, <1>3 DEF Sound, Top
<1>5. PICK s \in Held[p] : n = children[p][s]
  BY <1>1, <1>2, <1>4, OwnParent DEF Sound
<1>6. /\ p \in Node /\ d \in Node /\ n \in Node /\ h[p] = h[n] + 1 /\ p # n /\ p # d
      /\ Held[p] = DOMAIN children[p] /\ Held[p] \subseteq Int /\ p \in Allocated /\ p # Null
  <2>1. p \in Node /\ d \in Node /\ n \in Node /\ h[p] = h[n] + 1 /\ p \in Allocated
    BY <1>1, <1>4, <1>5, ChildFacts DEF Sound, Basic
  <2>2. p # n /\ p # d
    BY <1>1, <2>1
  <2> QED
    BY <1>1, <1>4, <2>1, <2>2 DEF Basic
<1>7. s < x /\ Fits(Allocated, h, Held, p, x)
  <2>1. PICK O : O = {d}
    OBVIOUS
  <2>2. Kinds(h) /\ Family(h, O) /\ Levels(h)
    BY <1>1, <2>1 DEF Sound
  <2> QED
    BY ONLY <1>1, <1>4, <1>5, <2>2, PromoteFits
<1>8. PICK rest : rest = DOMAIN children[p] \ LowestN(DOMAIN children[p], (InternalNodeSize + 1) \div 2)
  OBVIOUS
<1>9. PICK nw \in OneOf(Free), mid \in First(rest) :
        LET target == IF x < mid THEN p ELSE nw
        IN  /\ kind' = [kind EXCEPT ![nw] = kind[p]]
            /\ children' = [Move(children, p, nw, rest) EXCEPT ![target] = Insert(@, x, d)]
            /\ parent' = [Reparent(rest, p, nw) EXCEPT ![d] = target]
            /\ sib' = nw
            /\ k' = mid
  BY <1>1, <1>2, <1>8 DEF PromoteSplit
<1>10. PICK q, c, target : q = nw /\ c = mid /\ target = IF x < mid THEN p ELSE nw
  OBVIOUS
<1>11. /\ q \in Node /\ kind[q] = "free" /\ c \in First(rest)
       /\ target = IF x < c THEN p ELSE q
       /\ kind' = [kind EXCEPT ![q] = kind[p]]
       /\ children' = [Move(children, p, q, rest) EXCEPT
                         ![target] = Insert(Move(children, p, q, rest)[target], x, d)]
       /\ parent' = [Reparent(rest, p, q) EXCEPT ![d] = target]
       /\ sib' = q /\ k' = c
  BY <1>9, <1>10 DEF OneOf, Free
<1>12. /\ q \notin Allocated /\ q \notin Leaves /\ q \notin Inner /\ q # p /\ q # d /\ q # n /\ q # Null
       /\ DOMAIN children[q] = {} /\ DOMAIN data[q] = {} /\ parent[q] = Null
  <2>1. q \notin Allocated /\ q \notin Leaves /\ ~IsLeaf(q)
    BY <1>11 DEF Allocated, Leaves, IsLeaf
  <2>2. q \notin Inner
    BY <1>1, <2>1 DEF Basic
  <2> QED
    BY <1>1, <1>6, <1>11, <2>1, <2>2 DEF Sound, Kinds, Basic
<1>13. PICK lo, hi :
        /\ HalfSplit(Held[p], InternalNodeSize, x, c, lo, hi)
        /\ lo = (Held[p] \ rest) \cup (IF x < c THEN {x} ELSE {})
        /\ hi = rest \cup (IF x < c THEN {} ELSE {x})
  <2> DEFINE S == Held[p]
             half == LowestN(S, (InternalNodeSize + 1) \div 2)
             lo1 == half \cup (IF x < c THEN {x} ELSE {})
             hi1 == (S \ half) \cup (IF x < c THEN {} ELSE {x})
  <2>1. rest = S \ half
    BY <1>6, <1>8
  <2>2. HalfSplit(Held[p], InternalNodeSize, x, c, lo1, hi1)
    BY <1>11, <2>1 DEF HalfSplit
  <2>3. Held[p] \ (S \ half) = half
    <3>1. half \subseteq S
      BY DEF LowestN
    <3> QED
      BY <3>1
  <2> QED
    BY <2>1, <2>2, <2>3
<1>14. /\ lo \cup hi = Held[p] \cup {x} /\ \A y \in lo, z \in hi : y < z
       /\ \E y, z \in lo : y # z
       /\ \E y, z \in hi : y # z
       /\ c \in First(hi) /\ First(Held[p]) \subseteq lo
  <2>1. Held[p] \in SUBSET Int /\ IsFiniteSet(Held[p]) /\ x \in Int /\ x \notin Held[p]
    BY <1>1, <1>3, <1>6 DEF Basic
  <2>2. InternalNodeSize \in Nat /\ InternalNodeSize >= 4 /\ InternalNodeSize =< Cardinality(Held[p])
    BY <1>3, <1>6, SizeAssumption
  <2> QED
    BY ONLY <1>13, <2>1, <2>2, HalfSplitFacts
<1>15. rest \subseteq Held[p] /\ target \in {p, q} /\ (target = p <=> x < c)
  BY <1>6, <1>8, <1>11, <1>12
<1>16. /\ DOMAIN children'[p] = lo /\ DOMAIN children'[q] = hi
       /\ \A m \in Node \ {p, q} : children'[m] = children[m]
       /\ \A t \in Held[p] \ rest : children'[p][t] = children[p][t]
       /\ \A t \in rest : children'[q][t] = children[p][t]
       /\ children'[target][x] = d
  <2>1. Maps(children, Node)
    BY Parts DEF IInv, HeapOK
  <2>2. /\ children'[target] = Insert(Move(children, p, q, rest)[target], x, d)
        /\ \A m \in Node \ {target} : children'[m] = Move(children, p, q, rest)[m]
    <3>1. target \in Node /\ DOMAIN Move(children, p, q, rest) = Node
      BY <1>6, <1>11, <2>1 DEF Move, Maps
    <3> QED
      BY <1>11, <3>1
  <2>3. rest \subseteq DOMAIN children[p] /\ target \in {p, q}
    BY <1>6, <1>15
  <2>4. /\ DOMAIN children'[p] = (DOMAIN children[p] \ rest) \cup (IF target = p THEN {x} ELSE {})
        /\ DOMAIN children'[q] = rest \cup (IF target = p THEN {} ELSE {x})
        /\ \A m \in Node \ {p, q} : children'[m] = children[m]
        /\ \A t \in DOMAIN children[p] \ rest : children'[p][t] = children[p][t]
        /\ \A t \in rest : children'[q][t] = children[p][t]
        /\ children'[target][x] = d
    <3>1. p \in Node /\ q \in Node /\ p # q /\ DOMAIN children[q] = {} /\ x \notin DOMAIN children[p]
      BY <1>3, <1>6, <1>11, <1>12
    <3>2. SplitStep(children, children', p, q, rest, x, d, target)
      BY <2>2 DEF SplitStep
    <3>3. SplitDone(children, children', p, q, rest, x, d, target)
      BY ONLY <2>1, <2>3, <3>1, <3>2, SplitMap
    <3> QED
      BY <3>3 DEF SplitDone
  <2> QED
    BY <1>6, <1>13, <1>15, <2>4

<1>17. /\ \A m : m \in Allocated' <=> m \in Allocated \/ m = q
       /\ Leaves' = Leaves
       /\ \A m : m \in Inner' <=> m \in Inner \/ m = q
       /\ \A m \in Node : IsLeaf(m)' <=> IsLeaf(m)
       /\ kind'[q] = kind[p] /\ \A m \in Node \ {q} : kind'[m] = kind[m]
  <2>1. kind \in [Node -> {"free", "leaf", "low", "high"}]
    BY Parts DEF IInv, HeapOK
  <2>2. kind'[q] = kind[p] /\ \A m \in Node \ {q} : kind'[m] = kind[m]
    BY <1>11, <2>1
  <2>3. kind[p] # "free" /\ kind[p] # "leaf"
    BY <1>4, <1>6 DEF Inner, Allocated, Leaves, IsLeaf
  <2>4. \A m \in Node : IsLeaf(m)' <=> IsLeaf(m)
    BY <1>11, <2>2, <2>3 DEF IsLeaf
  <2>5. Leaves' = Leaves
    BY <2>4 DEF Leaves
  <2> QED
    BY <1>11, <1>12, <2>2, <2>3, <2>4, <2>5 DEF Allocated, Inner
<1>18. /\ Held'[p] = lo /\ Held'[q] = hi
       /\ \A m \in Node \ {p, q} : Held'[m] = Held[m]
  <2>1. Held'[p] = DOMAIN children'[p] /\ Held'[q] = DOMAIN children'[q]
    BY <1>1, <1>4, <1>17 DEF Basic
  <2>2. \A m \in Node \ {p, q} : Held'[m] = Held[m]
    BY <1>1, <1>16, <1>17 DEF Held, KeysOf
  <2> QED
    BY <1>16, <2>1, <2>2
<1>19. PICK g : g = [h EXCEPT ![q] = h[p]]
  OBVIOUS
<1>20. /\ g \in [Node -> Nat] /\ g[q] = h[p] /\ h[p] \in Nat
       /\ \A m \in Allocated : g[m] = h[m] /\ h[m] \in Nat
  <2>1. h \in [Node -> Nat]
    BY <1>1 DEF Sound, Kinds
  <2> QED
    BY <1>1, <1>6, <1>11, <1>12, <1>19, <2>1 DEF Basic
<1>21. /\ parent'[d] = target
       /\ \A t \in rest : children[p][t] # d /\ parent'[children[p][t]] = q
       /\ \A t \in Held[p] \ rest : children[p][t] # d /\ parent'[children[p][t]] = p
       /\ \A m \in Node : parent[m] # p /\ m # d => parent'[m] = parent[m]
  <2>1. parent \in [Node -> Pointer] /\ parent[d] # p
    BY <1>1, <1>6, Parts DEF IInv, HeapOK
  <2>2. PICK O : O = {d}
    OBVIOUS
  <2>3. Family(h, O)
    BY <1>1, <2>2 DEF Sound
  <2>4. PICK par : par = parent'
    OBVIOUS
  <2>5. par[d] = target /\ \A m \in Node \ {d} : par[m] = Reparent(rest, p, q)[m]
    <3>1. DOMAIN Reparent(rest, p, q) = Node
      BY DEF Reparent
    <3> QED
      BY <1>6, <1>11, <2>4, <3>1
  <2>6. /\ par[d] = target
        /\ \A t \in rest : children[p][t] # d /\ par[children[p][t]] = q
        /\ \A t \in Held[p] \ rest : children[p][t] # d /\ par[children[p][t]] = p
        /\ \A m \in Node : parent[m] # p /\ m # d => par[m] = parent[m]
    BY ONLY <1>1, <1>4, <1>6, <1>15, <2>1, <2>3, <2>5, SplitParents
  <2> QED
    BY <2>4, <2>6
<1>22. \A m \in Inner : \A t \in Held[m] :
         /\ children[m][t] \in Allocated /\ children[m][t] \in Node
         /\ children[m][t] # d /\ children[m][t] # q
         /\ parent[children[m][t]] = m /\ h[m] = h[children[m][t]] + 1
         /\ m \in Node /\ m \in Allocated /\ m # q /\ Held[m] = DOMAIN children[m]
  <2>1. \A m \in Inner : \A t \in Held[m] :
         /\ children[m][t] \in Allocated
         /\ parent[children[m][t]] = m /\ h[m] = h[children[m][t]] + 1
    BY <1>1, ChildFacts DEF Sound
  <2>2. \A m \in Inner : m \in Allocated /\ m \in Node /\ m # Null /\ Held[m] = DOMAIN children[m]
    BY <1>1 DEF Basic
  <2>3. \A m \in Allocated : m \in Node
    BY <1>1 DEF Basic
  <2> QED
    BY <1>1, <1>12, <2>1, <2>2, <2>3
<1>23. \A m \in Inner' : \A t \in DOMAIN children'[m] :
         \/ m = target /\ t = x /\ children'[m][t] = d
         \/ m = p /\ t \in Held[p] \ rest /\ children'[m][t] = children[p][t]
         \/ m = q /\ t \in rest /\ children'[m][t] = children[p][t]
         \/ m \in Inner \ {p} /\ t \in Held[m] /\ children'[m][t] = children[m][t]
  <2> SUFFICES ASSUME NEW m \in Inner', NEW t \in DOMAIN children'[m]
               PROVE  \/ m = target /\ t = x /\ children'[m][t] = d
                      \/ m = p /\ t \in Held[p] \ rest /\ children'[m][t] = children[p][t]
                      \/ m = q /\ t \in rest /\ children'[m][t] = children[p][t]
                      \/ m \in Inner \ {p} /\ t \in Held[m] /\ children'[m][t] = children[m][t]
    OBVIOUS
  <2>1. CASE m = p
    <3>1. t \in Held[p] \ rest \/ (x < c /\ t = x)
      BY <1>13, <1>16, <2>1
    <3> QED
      BY <1>15, <1>16, <2>1, <3>1
  <2>2. CASE m = q
    <3>1. t \in rest \/ (~(x < c) /\ t = x)
      BY <1>13, <1>16, <2>2
    <3> QED
      BY <1>15, <1>16, <2>2, <3>1
  <2>3. CASE m # p /\ m # q
    <3>1. m \in Inner /\ m \in Node /\ Held[m] = DOMAIN children[m]
      BY <1>1, <1>17, <2>3 DEF Basic
    <3> QED
      BY <1>16, <2>3, <3>1
  <2> QED
    BY <2>1, <2>2, <2>3
<1>24. Kinds(g)'
  <2>1. \A m \in Allocated' : (IsLeaf(m)' <=> g[m] = 0) /\ (kind'[m] = "low" <=> g[m] = 1)
    <3>1. \A m \in Allocated : (kind[m] = "leaf" <=> h[m] = 0) /\ (kind[m] = "low" <=> h[m] = 1)
      BY <1>1 DEF Sound, Kinds, IsLeaf
    <3>2. \A m \in Allocated : m \in Node \ {q}
      BY <1>1, <1>12 DEF Basic
    <3> QED
      BY <1>6, <1>17, <1>20, <3>1, <3>2 DEF IsLeaf
  <2>2. \A m \in Node : IsLeaf(m)' \/ DOMAIN data'[m] = {}
    BY <1>1, <1>17 DEF Sound, Kinds
  <2>3. \A m \in Node : m \in Inner' \/ DOMAIN children'[m] = {}
    <3>1. \A m \in Node : m \in Inner \/ DOMAIN children[m] = {}
      BY <1>1 DEF Sound, Kinds
    <3> QED
      BY <1>4, <1>16, <1>17, <3>1
  <2>4. \A m \in Node \ Allocated' : parent'[m] = Null
    <3>1. \A m \in Node \ Allocated : parent[m] = Null
      BY <1>1 DEF Sound, Kinds
    <3> QED
      BY <1>1, <1>6, <1>17, <1>21, <3>1
  <2>5. \A m \in Node \ Leaves' : nextLeaf'[m] = Null /\ prevLeaf'[m] = Null
    BY <1>1, <1>17 DEF Sound, Kinds, chain
  <2> QED
    BY <1>20, <2>1, <2>2, <2>3, <2>4, <2>5 DEF Kinds
<1>25. Top(g)'
  <2>1. root' = root /\ root \in Allocated /\ root \in Node /\ parent[root] = Null /\ root \in Allocated'
        /\ rootIsLeaf' = rootIsLeaf /\ rootIsLeaf = IsLeaf(root)
    BY <1>1, <1>3, <1>17 DEF Sound, Top, Basic
  <2>2. parent'[root] = Null
    BY <1>1, <1>6, <1>21, <2>1
  <2>3. \A m \in Allocated' : g[m] =< g[root]
    <3>1. \A m \in Allocated : h[m] =< h[root]
      BY <1>1 DEF Sound, Top
    <3> QED
      BY <1>6, <1>17, <1>20, <2>1, <3>1
  <2>4. IsLeaf(root)' = IsLeaf(root)
    BY <1>12, <1>17, <2>1 DEF IsLeaf
  <2> QED
    BY <2>1, <2>2, <2>3, <2>4 DEF Top
<1>26. Family(g, {q})'
  <2>1. \A m \in Inner' : \A t \in DOMAIN children'[m] :
          /\ children'[m][t] \in Allocated'
          /\ parent'[children'[m][t]] = m
          /\ g[m] = g[children'[m][t]] + 1
    <3> SUFFICES ASSUME NEW m \in Inner', NEW t \in DOMAIN children'[m]
                 PROVE  /\ children'[m][t] \in Allocated'
                        /\ parent'[children'[m][t]] = m
                        /\ g[m] = g[children'[m][t]] + 1
      OBVIOUS
    <3>1. CASE m = target /\ t = x /\ children'[m][t] = d
      <4>1. g[d] = h[n] /\ g[m] = h[p]
        BY <1>1, <1>6, <1>15, <1>20, <3>1
      <4> QED
        BY <1>1, <1>6, <1>17, <1>21, <3>1, <4>1
    <3>2. CASE m = p /\ t \in Held[p] \ rest /\ children'[m][t] = children[p][t]
      BY <1>4, <1>6, <1>17, <1>20, <1>21, <1>22, <3>2
    <3>3. CASE m = q /\ t \in rest /\ children'[m][t] = children[p][t]
      BY <1>4, <1>6, <1>15, <1>17, <1>20, <1>21, <1>22, <3>3
    <3>4. CASE m \in Inner \ {p} /\ t \in Held[m] /\ children'[m][t] = children[m][t]
      BY <1>17, <1>20, <1>21, <1>22, <3>4
    <3> QED
      BY <1>23, <3>1, <3>2, <3>3, <3>4
  <2>2. \A m \in Inner' : \A t, u \in DOMAIN children'[m] :
          children'[m][t] = children'[m][u] => t = u
    <3>1. \A m \in Inner : \A t, u \in Held[m] : children[m][t] = children[m][u] => t = u
      BY <1>1, <1>22 DEF Sound, Family
    <3> SUFFICES ASSUME NEW m \in Inner', NEW t \in DOMAIN children'[m],
                        NEW u \in DOMAIN children'[m], children'[m][t] = children'[m][u]
                 PROVE  t = u
      OBVIOUS
    <3>2. CASE m = p \/ m = q
      <4>1. /\ (t = x /\ children'[m][t] = d) \/ (t \in Held[p] /\ children'[m][t] = children[p][t])
            /\ (u = x /\ children'[m][u] = d) \/ (u \in Held[p] /\ children'[m][u] = children[p][u])
        BY <1>12, <1>15, <1>22, <1>23, <3>2
      <4> QED
        BY <1>4, <1>22, <3>1, <4>1
    <3>3. CASE m # p /\ m # q
      <4>1. /\ m \in Inner /\ t \in Held[m] /\ children'[m][t] = children[m][t]
            /\ u \in Held[m] /\ children'[m][u] = children[m][u]
        BY <1>15, <1>23, <3>3
      <4> QED
        BY <3>1, <4>1
    <3> QED
      BY <3>2, <3>3
  <2>3. ASSUME NEW m \in Allocated', m # root', m # q
        PROVE  parent'[m] \in Inner' /\ \E t \in DOMAIN children'[parent'[m]] :
                                         children'[parent'[m]][t] = m
    <3>1. CASE m = d
      <4>1. target \in Inner' /\ x \in DOMAIN children'[target]
        BY <1>4, <1>13, <1>15, <1>16, <1>17
      <4> QED
        BY <1>16, <1>21, <3>1, <4>1
    <3>2. CASE m # d
      <4>1. m \in Allocated /\ m # root /\ m \in Node
        BY <1>1, <1>3, <1>17, <2>3 DEF Basic
      <4>2. PICK t \in Held[parent[m]] : parent[m] \in Inner /\ children[parent[m]][t] = m
        BY <1>1, <3>2, <4>1, OwnParent DEF Sound
      <4>3. CASE parent[m] = p /\ t \in rest
        <5>1. parent'[m] = q /\ t \in DOMAIN children'[q] /\ children'[q][t] = m
          BY <1>13, <1>16, <1>21, <4>2, <4>3
        <5> QED
          BY <1>17, <5>1
      <4>4. CASE parent[m] = p /\ t \notin rest
        <5>1. parent'[m] = p /\ t \in DOMAIN children'[p] /\ children'[p][t] = m
          BY <1>13, <1>16, <1>21, <4>2, <4>4
        <5> QED
          BY <1>4, <1>17, <5>1
      <4>5. CASE parent[m] # p
        <5>1. parent'[m] = parent[m] /\ parent[m] \in Node /\ parent[m] # q
              /\ DOMAIN children[parent[m]] = Held[parent[m]]
          BY <1>21, <1>22, <3>2, <4>1, <4>2, <4>5
        <5>2. children'[parent[m]] = children[parent[m]]
          BY <1>16, <4>5, <5>1
        <5> QED
          BY <1>17, <4>2, <5>1, <5>2
      <4> QED
        BY <4>3, <4>4, <4>5
    <3> QED
      BY <3>1, <3>2
  <2>4. q \in Allocated' /\ q # root' /\ parent'[q] = Null
    <3>1. q # root'
      BY <1>1, <1>3, <1>12 DEF Sound, Top
    <3> QED
      BY <1>6, <1>11, <1>12, <1>17, <1>21, <3>1
  <2> QED
    BY ONLY <2>1, <2>2, <2>3, <2>4 DEF Family
<1>27. SlotsHeld'
  <2> SUFFICES ASSUME NEW m \in Inner', NEW t \in DOMAIN children'[m]
               PROVE  t \in Held'[children'[m][t]]
    BY <1>1 DEF SlotsHeld, Basic
  <2>1. CASE m = target /\ t = x /\ children'[m][t] = d
    BY <1>1, <1>6, <1>12, <1>18, <2>1 DEF First
  <2>2. CASE (m = p \/ m = q) /\ t \in Held[p] /\ children'[m][t] = children[p][t]
    <3>1. t \in Held[children[p][t]] /\ children[p][t] \in Node /\ children[p][t] # q
          /\ children[p][t] # p
      BY <1>1, <1>4, <1>6, <1>20, <1>22, <2>2 DEF SlotsHeld
    <3> QED
      BY <1>18, <2>2, <3>1
  <2>3. CASE m \in Inner \ {p} /\ t \in Held[m] /\ children'[m][t] = children[m][t]
    <3>1. t \in Held[children[m][t]] /\ children[m][t] \in Node /\ children[m][t] # q
      BY <1>1, <1>22, <2>3 DEF SlotsHeld
    <3>2. CASE children[m][t] = p
      <4>1. t \in First(Held[p])
        BY <1>1, <1>4, <1>22, <2>3, <3>2 DEF Sound, Exact, Basic
      <4> QED
        BY <1>14, <1>18, <2>3, <3>2, <4>1
    <3>3. CASE children[m][t] # p
      BY <1>18, <2>3, <3>1, <3>3
    <3> QED
      BY <3>2, <3>3
  <2> QED
    BY <1>15, <1>23, <2>1, <2>2, <2>3
<1>28. ASSUME NEW Y, Exact(Y)
       PROVE  Exact(Y)'
  <2> SUFFICES ASSUME NEW m \in Inner', NEW t \in DOMAIN children'[m], children'[m][t] \notin Y
               PROVE  t \in First(Held'[children'[m][t]])
    BY DEF Exact
  <2>1. CASE m = target /\ t = x /\ children'[m][t] = d
    BY <1>1, <1>6, <1>12, <1>18, <2>1
  <2>2. CASE (m = p \/ m = q) /\ t \in Held[p] /\ children'[m][t] = children[p][t]
    <3>1. t \in First(Held[children[p][t]]) /\ children[p][t] \in Node /\ children[p][t] # q
          /\ children[p][t] # p
      BY <1>4, <1>6, <1>20, <1>22, <1>28, <2>2 DEF Exact
    <3> QED
      BY <1>18, <2>2, <3>1
  <2>3. CASE m \in Inner \ {p} /\ t \in Held[m] /\ children'[m][t] = children[m][t]
    <3>1. t \in First(Held[children[m][t]]) /\ children[m][t] \in Node /\ children[m][t] # q
      BY <1>22, <1>28, <2>3 DEF Exact
    <3>2. CASE children[m][t] = p
      <4>1. t \in First(lo)
        BY <1>5, <1>6, <1>7, <1>1, <1>13, <1>14, <3>1, <3>2 DEF First
      <4> QED
        BY <1>18, <2>3, <3>2, <4>1
    <3>3. CASE children[m][t] # p
      BY <1>18, <2>3, <3>1, <3>3
    <3> QED
      BY <3>2, <3>3
  <2> QED
    BY <1>15, <1>23, <2>1, <2>2, <2>3
<1>29. Exact(Z)' /\ (cont' = "fixLeft" /\ it'.leaf # leftmostLeaf' => Exact({})')
  BY <1>1, <1>3, <1>28 DEF Sound
<1>30. SplitGrown(Allocated, Held, Held', p, q, x, lo, hi)
  <2>1. \A m \in Allocated \ {p} : Held'[m] = Held[m]
    BY <1>1, <1>12, <1>18 DEF Basic
  <2> QED
    BY <1>14, <1>18, <2>1 DEF SplitGrown
<1>31. Levels(g)' /\ Neighbours(Level(g, p), Held, p, q)'
  <2>1. p \in Allocated /\ q \notin Allocated /\ g[q] = h[p] /\ Layered(Allocated, h, Held)
        /\ \A m \in Allocated : g[m] = h[m]
    BY <1>1, <1>6, <1>12, <1>20 DEF Sound, Levels
  <2>2. \A m : m \in Level(g, p)' <=> m \in Allocated' /\ g[m] = g[p]
    BY DEF Level
  <2>3. Layered(Allocated', g, Held') /\ Neighbours(Level(g, p)', Held', p, q)
    <3>1. PICK A, B, T, K, K1 :
            A = Allocated /\ B = Allocated' /\ T = Level(g, p)' /\ K = Held /\ K1 = Held'
      OBVIOUS
    <3>2. \A m : m \in Allocated' <=> m \in Allocated \/ m = q
      BY <1>17
    <3>4. Fits(Allocated, h, Held, p, x)
      BY <1>7
    <3>5. Splits(A, h, g, K, K1, p, q, x, lo, hi, B, T)
      BY ONLY <1>30, <2>1, <2>2, <3>1, <3>2, <3>4 DEF Splits
    <3>3. Layered(B, g, K1) /\ Neighbours(T, K1, p, q)
      BY ONLY <3>5, SplitGrownLayers
    <3> QED
      BY <3>1, <3>3
  <2> QED
    BY <2>3 DEF Levels
<1>32. Chained'
  <2>1. \A m \in Leaves : Held'[m] = Held[m]
    BY <1>1, <1>4, <1>12, <1>18 DEF Basic
  <2>2. \A m, j \in Leaves : m # j /\ Precedes(Held, m, j) => Precedes(Held', m, j)
    BY <2>1 DEF Precedes
  <2>3. Linked(Leaves, Held', nextLeaf, prevLeaf, leftmostLeaf, rightmostLeaf)
    BY <1>1, <2>2, LinksKept DEF Sound, Chained
  <2> QED
    BY <1>1, <1>17, <2>3 DEF Chained, chain
<1>33. Populated({})'
  <2>1. \A m \in Allocated' : m # p /\ m # q => m \in Allocated /\ Held'[m] = Held[m]
    BY <1>1, <1>17, <1>18 DEF Basic
  <2>2. \A m \in Inner' : m # q => m \in Inner
    BY <1>17
  <2> QED
    BY <1>1, <1>3, <1>14, <1>17, <1>18, <2>1, <2>2 DEF Populated, Sound
<1>34. StaleOK(g, Z)'
  <2>1. l \in Leaves' /\ Z \subseteq {l}
    BY <1>1, <1>17
  <2>2. PICK O : O = {q}
    OBVIOUS
  <2>3. Family(g, O)'
    BY <1>26, <2>2
  <2> QED
    BY <1>1, <1>24, <1>27, <1>29, <1>31, <2>1, <2>3, StaleLeafNext
<1>35. Running(g)'
  <2>1. Known'
    BY <1>1, <1>3, <1>6, <1>11, <1>17 DEF Known, Basic
  <2>2. g[q] = g[p] /\ c \in First(Held'[q]) /\ it'.leaf = l /\ l \in Leaves'
        /\ p \in Allocated' /\ q \in Allocated' /\ node' = p /\ sib' = q /\ k' = c
    BY <1>1, <1>3, <1>6, <1>11, <1>14, <1>17, <1>18, <1>20
  <2>3. Neighbours(Level(g, node), Held, node, sib)'
    BY <1>31, <2>2
  <2>4. ~IsLeaf(p)' /\ \E y, z \in Held'[p] : y # z
    BY <1>4, <1>6, <1>14, <1>17, <1>18 DEF Inner, Leaves
  <2>5. Promoting(g)'
    BY <1>27, <1>29, <2>2, <2>3, <2>4 DEF Promoting
  <2> QED
    BY <1>3, <2>1, <2>5 DEF Running, Searching, Fixing, Erasing, Resting
<1>36. Shape(g)'
  <2>1. Sound(g, {q}, Z, {})'
    BY <1>24, <1>25, <1>26, <1>29, <1>31, <1>32, <1>33, <1>34 DEF Sound
  <2>2. Unplaced' = {q} /\ Light' = {} /\ Stale' = Z
    BY <1>1, <1>3, <1>11 DEF Unplaced, Light, Stale
  <2> QED
    BY <1>35, <2>1, <2>2 DEF Shape
<1>37. Counted'
  <2>1. Elements' = Elements
    BY <1>1, <1>17 DEF Elements
  <2> QED
    BY <1>1, <2>1 DEF Counted
<1>s. KeepsSizes
  <2> SUFFICES ASSUME Sized, SplitsBalance PROVE Sized'
    BY DEF KeepsSizes
  <2>1. Light = {} /\ root' = root /\ node' = p
    BY <1>3 DEF Light
  <2>2. PICK cap : cap = InternalNodeSize
    OBVIOUS
  <2>3. cap = Capacity(p) /\ cap =< Cardinality(Held[p]) /\ x \notin Held[p]
    BY <1>3, <1>4, <1>6, <2>2 DEF Capacity, Inner, Leaves
  <2>4. HalfSplit(Held[p], cap, x, c, lo, hi)
    BY <1>13, <2>2
  <2>5. /\ IsLeaf(p)' <=> IsLeaf(p)
        /\ IsLeaf(q)' <=> IsLeaf(p)
        /\ \A m \in Allocated \ {p, q} : Held'[m] = Held[m] /\ (IsLeaf(m)' <=> IsLeaf(m))
    BY <1>1, <1>6, <1>11, <1>17, <1>18 DEF IsLeaf, Basic
  <2> QED
    BY <1>1, <1>6, <1>17, <1>18, <2>1, <2>3, <2>4, <2>5, SplitSized
<1> QED
  BY <1>s, <1>20, <1>36, <1>37

----------------------------------------------------------------------------
(* Borrowing.  Entries B of node src go to its sibling dst. *)

LEMMA ShiftMap ==
  ASSUME NEW V, NEW f, Maps(f, V), NEW p \in Node, NEW q \in Node, p # q,
         NEW B, B \subseteq DOMAIN f[p], NEW f1, f1 = Move(f, p, q, B)
  PROVE  /\ DOMAIN f1[p] = DOMAIN f[p] \ B
         /\ DOMAIN f1[q] = DOMAIN f[q] \cup B
         /\ \A n \in Node \ {p, q} : f1[n] = f[n]
         /\ \A t \in DOMAIN f[p] \ B : f1[p][t] = f[p][t]
         /\ \A t \in DOMAIN f[q] : f1[q][t] = f[q][t]
         /\ \A t \in B \ DOMAIN f[q] : f1[q][t] = f[p][t]
<1> DEFINE low  == Without(f[p], B)
           part == Only(f[p], B)
           high == Join(f[q], part)
<1>1. f = [n \in Node |-> f[n]]
  BY DEF Maps
<1>2. f1[p] = low /\ f1[q] = high /\ \A n \in Node \ {p, q} : f1[n] = f[n]
  BY <1>1 DEF Move
<1>3. /\ DOMAIN low = DOMAIN f[p] \ B
      /\ \A t \in DOMAIN f[p] \ B : low[t] = f[p][t]
  BY DEF Without, Restrict
<1>4. DOMAIN part = B /\ \A t \in B : part[t] = f[p][t]
  BY DEF Only, Restrict
<1> HIDE DEF part
<1>5. /\ DOMAIN high = DOMAIN f[q] \cup B
      /\ \A t \in DOMAIN f[q] : high[t] = f[q][t]
      /\ \A t \in B \ DOMAIN f[q] : high[t] = f[p][t]
  BY <1>4 DEF Join
<1> HIDE DEF low, high
<1> QED
  BY <1>2, <1>3, <1>5

\* What the tree is after it.
Passed(src, dst, B) ==
  /\ Allocated' = Allocated /\ Leaves' = Leaves /\ Inner' = Inner
  /\ \A m : IsLeaf(m)' <=> IsLeaf(m)
  /\ Held'[src] = Held[src] \ B /\ Held'[dst] = Held[dst] \cup B
  /\ \A m \in Node \ {src, dst} : Held'[m] = Held[m]
  /\ \A m \in Node : IsLeaf(m)' \/ DOMAIN data'[m] = {}
  /\ \A m \in Node : m \in Inner' \/ DOMAIN children'[m] = {}
  /\ \A q \in Inner : \A t \in DOMAIN children'[q] :
       \/ q = dst /\ src \in Inner /\ t \in B /\ children'[q][t] = children[src][t]
       \/ t \in Held[q] /\ ~(q = src /\ t \in B) /\ children'[q][t] = children[q][t]
  /\ \A q \in Inner : \A t \in Held[q] :
       \/ /\ q = src /\ t \in B /\ dst \in Inner
          /\ t \in DOMAIN children'[dst] /\ children'[dst][t] = children[q][t]
       \/ /\ ~(q = src /\ t \in B)
          /\ t \in DOMAIN children'[q] /\ children'[q][t] = children[q][t]
  /\ \A t \in Held[src] : src \in Inner =>
       parent'[children[src][t]] = IF t \in B THEN dst ELSE src
  /\ \A m \in Node : parent[m] # src => parent'[m] = parent[m]

LEMMA BorrowPasses ==
  ASSUME Basic, Basic', HeapOK, NEW h, Kinds(h), Family(h, {}),
         NEW src \in Allocated, NEW dst \in Allocated, src # dst, IsLeaf(src) <=> IsLeaf(dst),
         NEW B, B \subseteq Held[src], B \cap Held[dst] = {}, Borrow(src, dst, B)
  PROVE  Passed(src, dst, B)
<1>1. /\ src \in Node /\ dst \in Node
      /\ Maps(data, Value) /\ Maps(children, Node) /\ parent \in [Node -> Pointer]
  BY DEF Basic, HeapOK
<1>2. /\ Allocated' = Allocated /\ Leaves' = Leaves /\ Inner' = Inner
      /\ \A m : IsLeaf(m)' <=> IsLeaf(m)
  BY DEF Borrow, Allocated, Leaves, Inner, IsLeaf
<1>3. parent' = Reparent(B, src, dst)
  BY DEF Borrow
<1>4. \A q \in Inner : \A t \in Held[q] :
        /\ children[q][t] \in Node /\ parent[children[q][t]] = q
        /\ q \in Node /\ Held[q] = DOMAIN children[q]
        /\ \A u \in Held[q] : children[q][t] = children[q][u] => t = u
  BY ChildFacts DEF Basic
<1>5. CASE IsLeaf(src)
  <2>1. data' = Move(data, src, dst, B) /\ children' = children
    BY <1>5 DEF Borrow
  <2>2. /\ src \in Leaves /\ dst \in Leaves /\ src \notin Inner /\ dst \notin Inner
        /\ DOMAIN children[src] = {}
    BY <1>1, <1>5 DEF Kinds, Basic, Leaves
  <2>3. B \subseteq DOMAIN data[src]
    BY <2>2 DEF Basic
  <2>4. /\ DOMAIN data'[src] = DOMAIN data[src] \ B
        /\ DOMAIN data'[dst] = DOMAIN data[dst] \cup B
        /\ \A m \in Node \ {src, dst} : data'[m] = data[m]
    BY <1>1, <2>1, <2>3, ShiftMap
  <2>5. Held'[src] = Held[src] \ B /\ Held'[dst] = Held[dst] \cup B
    BY <1>2, <2>2, <2>4 DEF Basic
  <2>6. \A m \in Node \ {src, dst} : Held'[m] = Held[m]
    BY <1>2, <2>1, <2>4 DEF Held, KeysOf
  <2>7. /\ \A m \in Node : IsLeaf(m)' \/ DOMAIN data'[m] = {}
        /\ \A m \in Node : m \in Inner' \/ DOMAIN children'[m] = {}
    BY <1>2, <1>5, <2>1, <2>4 DEF Kinds
  <2>8. \A m \in Node : parent'[m] = parent[m]
    BY <1>3, <2>2 DEF Reparent
  <2>9. /\ \A t \in Held[src] : src \in Inner =>
             parent'[children[src][t]] = IF t \in B THEN dst ELSE src
        /\ \A m \in Node : parent[m] # src => parent'[m] = parent[m]
    BY <2>2, <2>8
  <2>10. \A q \in Inner : \A t \in DOMAIN children'[q] :
           \/ q = dst /\ src \in Inner /\ t \in B /\ children'[q][t] = children[src][t]
           \/ t \in Held[q] /\ ~(q = src /\ t \in B) /\ children'[q][t] = children[q][t]
    BY <2>1, <2>2 DEF Basic
  <2>11. \A q \in Inner : \A t \in Held[q] :
           \/ /\ q = src /\ t \in B /\ dst \in Inner
              /\ t \in DOMAIN children'[dst] /\ children'[dst][t] = children[q][t]
           \/ /\ ~(q = src /\ t \in B)
              /\ t \in DOMAIN children'[q] /\ children'[q][t] = children[q][t]
    BY <1>4, <2>1, <2>2
  <2> QED
    BY ONLY <1>2, <2>5, <2>6, <2>7, <2>9, <2>10, <2>11, Zenon DEF Passed
<1>6. CASE ~IsLeaf(src)
  <2>1. children' = Move(children, src, dst, B) /\ data' = data
    BY <1>6 DEF Borrow
  <2>2. src \in Inner /\ dst \in Inner
    BY <1>1, <1>6 DEF Basic, Leaves
  <2>3. B \subseteq DOMAIN children[src] /\ Held[src] = DOMAIN children[src] /\ Held[dst] = DOMAIN children[dst]
    BY <2>2 DEF Basic
  <2>4. /\ DOMAIN children'[src] = DOMAIN children[src] \ B
        /\ DOMAIN children'[dst] = DOMAIN children[dst] \cup B
        /\ \A m \in Node \ {src, dst} : children'[m] = children[m]
        /\ \A t \in DOMAIN children[src] \ B : children'[src][t] = children[src][t]
        /\ \A t \in DOMAIN children[dst] : children'[dst][t] = children[dst][t]
        /\ \A t \in B \ DOMAIN children[dst] : children'[dst][t] = children[src][t]
    BY <1>1, <2>1, <2>3, ShiftMap
  <2>5. Held'[src] = Held[src] \ B /\ Held'[dst] = Held[dst] \cup B
    BY <1>2, <2>2, <2>4 DEF Basic
  <2>6. \A m \in Node \ {src, dst} : Held'[m] = Held[m]
    BY <1>2, <2>1, <2>4 DEF Held, KeysOf
  <2>7. /\ \A m \in Node : IsLeaf(m)' \/ DOMAIN data'[m] = {}
        /\ \A m \in Node : m \in Inner' \/ DOMAIN children'[m] = {}
    BY <1>1, <1>2, <2>1, <2>2, <2>4 DEF Kinds
  <2>8. \A m \in Node :
          parent'[m] = IF \E t \in B : children[src][t] = m THEN dst ELSE parent[m]
    BY <1>3, <2>3 DEF Reparent
  <2>9. /\ \A t \in Held[src] : parent'[children[src][t]] = IF t \in B THEN dst ELSE src
        /\ \A m \in Node : parent[m] # src => parent'[m] = parent[m]
    BY <1>4, <2>2, <2>3, <2>8
  <2>10. \A q \in Inner : \A t \in DOMAIN children'[q] :
           \/ q = dst /\ src \in Inner /\ t \in B /\ children'[q][t] = children[src][t]
           \/ t \in Held[q] /\ ~(q = src /\ t \in B) /\ children'[q][t] = children[q][t]
    <3> SUFFICES ASSUME NEW q \in Inner, NEW t \in DOMAIN children'[q]
                 PROVE  \/ q = dst /\ t \in B /\ children'[q][t] = children[src][t]
                        \/ t \in Held[q] /\ ~(q = src /\ t \in B) /\ children'[q][t] = children[q][t]
      BY <2>2
    <3>1. q \in Node /\ Held[q] = DOMAIN children[q]
      BY DEF Basic
    <3> QED
      BY <2>3, <2>4, <3>1
  <2>11. \A q \in Inner : \A t \in Held[q] :
           \/ /\ q = src /\ t \in B /\ dst \in Inner
              /\ t \in DOMAIN children'[dst] /\ children'[dst][t] = children[q][t]
           \/ /\ ~(q = src /\ t \in B)
              /\ t \in DOMAIN children'[q] /\ children'[q][t] = children[q][t]
    BY <1>4, <2>2, <2>3, <2>4
  <2> QED
    BY ONLY <1>2, <2>5, <2>6, <2>7, <2>9, <2>10, <2>11, Zenon DEF Passed
<1> QED
  BY <1>5, <1>6

\* No two nodes of a height change order.
OrderStays(h) ==
  \A m, j \in Allocated : m # j /\ h[m] = h[j] /\ Precedes(Held, m, j) => Precedes(Held', m, j)

\* Of src and dst, z alone has a separator that needs replacing, and can have it replaced.
StaleAfter(src, dst, z) ==
  /\ \A w \in {src, dst} \ {z} : First(Held[w]) \subseteq First(Held'[w])
  /\ \A p \in Inner : \A s \in Held[p] : children[p][s] = z =>
       s \notin First(Held[p]) /\ (s \in Held'[z] \/ First(Held'[z]) \subseteq Held[z])

\* Entries B of src have gone to dst; n is the one of them that may have had too few.
Borrowed(h, n, src, dst, z, B) ==
  /\ Sound(h, {}, {}, {n}) /\ UNCHANGED <<tree, kind, chain>>
  /\ src \in Allocated /\ dst \in Allocated /\ src # dst /\ h[src] = h[dst]
  /\ src # root /\ dst # root /\ n \in {src, dst} /\ z \in {src, dst}
  /\ B \subseteq Held[src] /\ Passed(src, dst, B) /\ OrderStays(h)
  /\ \E x, y \in Held'[src] : x # y
  /\ \E x, y \in Held'[dst] : x # y
  /\ StaleAfter(src, dst, z)

\* The tree after entries have gone to the sibling, while the separator of z, the one
\* of the two that comes after the other, is still the old one.
LEMMA PassedSound ==
  ASSUME Basic, Basic', NEW h, NEW n, NEW src, NEW dst, NEW z, NEW B, Borrowed(h, n, src, dst, z, B)
  PROVE  Sound(h, {}, {z}, {})'
<1> USE DEF Borrowed, StaleAfter
<1>1. PICK O : O = {}
  OBVIOUS
<1>2. /\ Kinds(h) /\ Top(h) /\ Family(h, O) /\ Exact(O) /\ Levels(h) /\ Populated({n}) /\ Chained
      /\ src \in Node /\ dst \in Node /\ h[src] \in Nat
  BY <1>1 DEF Sound, Basic, Kinds
<1>3. /\ Allocated' = Allocated /\ Leaves' = Leaves /\ Inner' = Inner
      /\ \A m : IsLeaf(m)' <=> IsLeaf(m)
      /\ Held'[src] = Held[src] \ B /\ Held'[dst] = Held[dst] \cup B
      /\ \A m \in Node \ {src, dst} : Held'[m] = Held[m]
  BY DEF Passed
<1>4. /\ \A q \in Inner : \A t \in DOMAIN children'[q] :
           \/ q = dst /\ src \in Inner /\ t \in B /\ children'[q][t] = children[src][t]
           \/ t \in Held[q] /\ ~(q = src /\ t \in B) /\ children'[q][t] = children[q][t]
      /\ \A q \in Inner : \A t \in Held[q] :
           \/ /\ q = src /\ t \in B /\ dst \in Inner
              /\ t \in DOMAIN children'[dst] /\ children'[dst][t] = children[q][t]
           \/ /\ ~(q = src /\ t \in B)
              /\ t \in DOMAIN children'[q] /\ children'[q][t] = children[q][t]
  BY DEF Passed
<1>5. /\ \A t \in Held[src] : src \in Inner =>
           parent'[children[src][t]] = IF t \in B THEN dst ELSE src
      /\ \A m \in Node : parent[m] # src => parent'[m] = parent[m]
  BY DEF Passed
<1>6. \A q \in Inner : \A t \in Held[q] :
        /\ children[q][t] \in Allocated /\ children[q][t] \in Node
        /\ parent[children[q][t]] = q /\ h[q] = h[children[q][t]] + 1
        /\ q \in Node /\ q \in Allocated /\ h[children[q][t]] \in Nat
        /\ \A u \in Held[q] : children[q][t] = children[q][u] => t = u
  BY <1>2, ChildFacts DEF Basic, Kinds
<1>7. Kinds(h)' /\ Top(h)'
  <2>1. /\ \A m \in Node : IsLeaf(m)' \/ DOMAIN data'[m] = {}
        /\ \A m \in Node : m \in Inner' \/ DOMAIN children'[m] = {}
    BY DEF Passed
  <2>2. \A m \in Node \ Allocated' : parent'[m] = Null
    <3>1. \A m \in Node \ Allocated : parent[m] = Null
      BY <1>2 DEF Kinds
    <3>2. src # Null
      BY <1>2 DEF Basic
    <3> QED
      BY <1>3, <1>5, <3>1, <3>2
  <2>3. Kinds(h)'
    BY <1>2, <1>3, <2>1, <2>2 DEF Kinds, chain
  <2>4. parent'[root] = Null /\ root' = root /\ rootIsLeaf' = rootIsLeaf
    BY <1>2, <1>5 DEF Top, Basic, tree
  <2>5. root \in Allocated /\ rootIsLeaf = IsLeaf(root) /\ \A m \in Allocated : h[m] =< h[root]
    BY <1>2 DEF Top
  <2>6. IsLeaf(root)' = IsLeaf(root)
    BY <2>4 DEF IsLeaf
  <2>7. Top(h)'
    BY ONLY <1>3, <2>4, <2>5, <2>6 DEF Top
  <2> QED
    BY <2>3, <2>7
<1>8. Family(h, O)'
  <2>1. \A q \in Inner : \A t \in DOMAIN children'[q] :
          /\ children'[q][t] \in Allocated
          /\ parent'[children'[q][t]] = q
          /\ h[q] = h[children'[q][t]] + 1
    <3> SUFFICES ASSUME NEW q \in Inner, NEW t \in DOMAIN children'[q]
                 PROVE  /\ children'[q][t] \in Allocated
                        /\ parent'[children'[q][t]] = q
                        /\ h[q] = h[children'[q][t]] + 1
      OBVIOUS
    <3>1. CASE q = dst /\ src \in Inner /\ t \in B /\ children'[q][t] = children[src][t]
      <4>1. t \in Held[src]
        BY <3>1
      <4> QED
        BY <1>5, <1>6, <3>1, <4>1
    <3>2. CASE t \in Held[q] /\ ~(q = src /\ t \in B) /\ children'[q][t] = children[q][t]
      BY <1>5, <1>6, <3>2
    <3> QED
      BY <1>4, <3>1, <3>2
  <2>2. \A q \in Inner : \A t, u \in DOMAIN children'[q] :
          children'[q][t] = children'[q][u] => t = u
    <3> SUFFICES ASSUME NEW q \in Inner, NEW t \in DOMAIN children'[q],
                        NEW u \in DOMAIN children'[q], children'[q][t] = children'[q][u]
                 PROVE  t = u
      OBVIOUS
    <3>1. PICK r \in Inner : t \in Held[r] /\ children'[q][t] = children[r][t]
      BY <1>4
    <3>2. PICK w \in Inner : u \in Held[w] /\ children'[q][u] = children[w][u]
      BY <1>4
    <3>3. children[r][t] = children[w][u]
      BY <3>1, <3>2, Zenon
    <3>4. parent[children[r][t]] = r /\ parent[children[w][u]] = w
      BY <1>6, <3>1, <3>2
    <3>5. r = w
      BY <3>3, <3>4, Zenon
    <3>6. u \in Held[r] /\ children[r][t] = children[r][u]
      BY <3>2, <3>3, <3>5, Zenon
    <3> QED
      BY ONLY <1>6, <3>1, <3>6
  <2>3. ASSUME NEW m \in Allocated, m # root
        PROVE  parent'[m] \in Inner /\ \E t \in DOMAIN children'[parent'[m]] :
                                         children'[parent'[m]][t] = m
    <3>1. PICK t \in Held[parent[m]] : parent[m] \in Inner /\ children[parent[m]][t] = m
      BY <1>1, <1>2, <2>3, OwnParent
    <3>2. m \in Node
      BY <2>3 DEF Basic
    <3> QED
      BY <1>4, <1>5, <3>1, <3>2
  <2> QED
    BY ONLY <1>1, <1>3, <2>1, <2>2, <2>3, UNCHANGED tree DEF Family, tree
<1>9. Exact({z})'
  <2>1. \A q \in Inner : \A t \in Held[q] : t \in First(Held[children[q][t]])
    BY <1>1, <1>2 DEF Exact, Basic
  <2>2. \A q \in Inner : \A t \in Held[q] : children[q][t] # z =>
          t \in First(Held'[children[q][t]])
    <3> SUFFICES ASSUME NEW q \in Inner, NEW t \in Held[q], children[q][t] # z
                 PROVE  t \in First(Held'[children[q][t]])
      OBVIOUS
    <3>1. t \in First(Held[children[q][t]]) /\ children[q][t] \in Node
      BY <1>6, <2>1
    <3>2. CASE children[q][t] \in {src, dst}
      BY <3>1, <3>2
    <3>3. CASE children[q][t] \notin {src, dst}
      BY <1>3, <3>1, <3>3
    <3> QED
      BY <3>2, <3>3
  <2>3. \A q \in Inner : \A t \in DOMAIN children'[q] :
          \E r \in Inner : t \in Held[r] /\ children'[q][t] = children[r][t]
    BY <1>4
  <2> SUFFICES ASSUME NEW q \in Inner, NEW t \in DOMAIN children'[q], children'[q][t] \notin {z}
               PROVE  t \in First(Held'[children'[q][t]])
    BY <1>3 DEF Exact
  <2>4. PICK r \in Inner : t \in Held[r] /\ children'[q][t] = children[r][t]
    BY <2>3
  <2> QED
    BY <2>2, <2>4
<1>10. Levels(h)'
  <2>1. Layered(Allocated, h, Held')
    BY <1>2, OrderKept DEF OrderStays, Levels
  <2> QED
    BY <1>3, <2>1 DEF Levels
<1>11. Chained'
  <2>1. \A m \in Leaves : m \in Allocated /\ h[m] = 0
    BY <1>2 DEF Kinds, Basic, Leaves
  <2>2. \A m, j \in Leaves : m # j /\ Precedes(Held, m, j) => Precedes(Held', m, j)
    BY <2>1 DEF OrderStays
  <2>3. Linked(Leaves, Held', nextLeaf, prevLeaf, leftmostLeaf, rightmostLeaf)
    BY <1>2, <2>2, LinksKept DEF Chained
  <2> QED
    BY <1>3, <2>3 DEF Chained, chain, tree
<1>12. Populated({})'
  <2>1. root' = root
    BY DEF tree
  <2>2. ASSUME NEW m \in Allocated, m # root \/ m \in Inner
        PROVE  Held'[m] # {} /\ \E x, y \in Held'[m] : x # y
    <3>1. CASE m \in {src, dst}
      BY <3>1
    <3>2. CASE m \notin {src, dst}
      <4>1. Held'[m] = Held[m] /\ m # n
        BY <1>2, <1>3, <3>2 DEF Basic
      <4> QED
        BY <1>2, <2>2, <4>1 DEF Populated
    <3> QED
      BY <3>1, <3>2
  <2> QED
    BY <1>3, <2>1, <2>2 DEF Populated
<1>13. StaleOK(h, {z})'
  <2> SUFFICES ASSUME NEW p \in Inner, NEW s \in DOMAIN children'[p], children'[p][s] = z,
                      NEW x \in First(Held'[z]), NEW q \in Inner, NEW t \in DOMAIN children'[q],
                      t # s, \/ h[q] = h[p]
                             \/ h[q] > h[p] /\ s \in First(DOMAIN children'[p])
               PROVE  t # x /\ (t < s <=> t < x)
    BY <1>3 DEF StaleOK
  <2>1. \A r \in Inner : \A u \in DOMAIN children'[r] : h[r] = h[src] + 1 =>
          /\ u \in Held[r] /\ children'[r][u] = children[r][u]
          /\ DOMAIN children'[r] = Held[r]
    <3> SUFFICES ASSUME NEW r \in Inner, NEW u \in DOMAIN children'[r], h[r] = h[src] + 1
                 PROVE  /\ u \in Held[r] /\ children'[r][u] = children[r][u]
                        /\ DOMAIN children'[r] = Held[r]
      OBVIOUS
    <3>1. r # src /\ r # dst
      BY <1>2
    <3>2. Held'[r] = DOMAIN children'[r] /\ r \in Node
      BY <1>3 DEF Basic
    <3> QED
      BY <1>3, <1>4, <3>1, <3>2
  <2>2. h[z] = h[src]
    OBVIOUS
  <2>3. h[p] = h[src] + 1
    BY <1>3, <1>8, <2>2 DEF Family
  <2>4. s \in Held[p] /\ children[p][s] = z /\ DOMAIN children'[p] = Held[p]
    BY <2>1, <2>3
  <2>5. s \notin First(Held[p]) /\ (s \in Held'[z] \/ x \in Held[z])
    BY <2>4
  <2>6. h[q] = h[src] + 1
    BY <2>3, <2>4, <2>5
  <2>7. PICK m : m = children[q][t]
    OBVIOUS
  <2>8. t \in Held[q] /\ m = children[q][t]
    BY <2>1, <2>6, <2>7
  <2>9. /\ m \in Allocated /\ m \in Node /\ parent[m] = q /\ h[m] = h[z]
        /\ t \in First(Held[m]) /\ s \in First(Held[z])
    <3>1. t \in First(Held[m]) /\ s \in First(Held[z])
      BY <1>1, <1>2, <2>4, <2>8 DEF Exact, Basic
    <3>2. h[q] = h[m] + 1 /\ h[m] \in Nat /\ m \in Allocated /\ m \in Node /\ parent[m] = q
      BY <1>6, <2>8
    <3> QED
      BY <1>2, <2>2, <2>6, <3>1, <3>2
  <2>10. m # z
    <3>1. parent[z] = p
      BY <1>6, <2>4
    <3> QED
      BY <1>6, <2>4, <2>8, <2>9, <3>1
  <2>11. CASE s \in Held'[z]
    <3>1. t \in Held'[m]
      <4>1. CASE m \in {src, dst}
        BY <2>9, <2>10, <4>1 DEF First
      <4>2. CASE m \notin {src, dst}
        BY <1>3, <2>9, <4>2 DEF First
      <4> QED
        BY <4>1, <4>2
    <3>2. Precedes(Held', z, m) \/ Precedes(Held', m, z)
      BY <1>3, <1>10, <2>9, <2>10 DEF Levels, Layered
    <3>3. x \in Held'[z] /\ Held'[z] \subseteq Int /\ Held'[m] \subseteq Int
      BY <1>2, <2>9 DEF First, Basic
    <3> QED
      BY <2>11, <3>1, <3>2, <3>3 DEF Precedes
  <2>12. CASE x \in Held[z]
    <3>1. t \in Held[m] /\ s \in Held[z]
      BY <2>9 DEF First
    <3> QED
      BY <1>2, <2>9, <2>10, <2>12, <3>1, SameSide
  <2> QED
    BY <2>5, <2>11, <2>12
<1> QED
  BY <1>1, <1>7, <1>8, <1>9, <1>10, <1>11, <1>12, <1>13 DEF Sound

----------------------------------------------------------------------------
(* handle_underflow. *)

\* m, at slot t of p, is a sibling of n.
IsSibling(h, n, p, m, t) ==
  /\ m \in Allocated /\ m # n /\ m # root /\ h[m] = h[n] /\ (IsLeaf(m) <=> IsLeaf(n))
  /\ t \in Held[p] /\ children[p][t] = m /\ t \in First(Held[m]) /\ t \in Int

LEMMA UnderflowStart ==
  ASSUME IInv, NEW h, Shape(h), Underflow
  PROVE  \E n, p, s :
           /\ n = node /\ p = parent[n] /\ Basic /\ HeapOK /\ Sound(h, {}, {}, {n})
           /\ n \in Allocated /\ n # root /\ p \in Inner /\ p # n
           /\ s \in Held[p] /\ children[p][s] = n /\ s \in First(Held[n]) /\ s \in Int
           /\ h[p] = h[n] + 1 /\ h[n] \in Nat
           /\ it.leaf \in Leaves /\ sib = Null /\ pc = "underflow"
           /\ OwnSlot(n) = {s}
           /\ Cardinality(KeysOf(n)) < UnderflowThreshold(n)
<1>1. PICK n, p : n = node /\ p = parent[n]
  OBVIOUS
<1>2. /\ Basic /\ HeapOK /\ Sound(h, {}, {}, {n}) /\ n \in Allocated
      /\ it.leaf \in Leaves /\ sib = Null /\ pc = "underflow" /\ p # Null
      /\ Cardinality(KeysOf(n)) < UnderflowThreshold(n)
  BY <1>1, HeldBasic, Parts
    DEF IInv, Underflow, Shape, Running, Erasing, Unplaced, Stale, Light
<1>3. PICK O : O = {}
  OBVIOUS
<1>4. Kinds(h) /\ Top(h) /\ Family(h, O) /\ Exact(O)
  BY <1>2, <1>3 DEF Sound
<1>5. n # root
  BY <1>1, <1>2, <1>4 DEF Top
<1>6. PICK s \in Held[p] : p \in Inner /\ children[p][s] = n /\ h[p] = h[n] + 1
  BY <1>1, <1>2, <1>3, <1>4, <1>5, OwnParent
<1>7. /\ s \in First(Held[n]) /\ s \in Int /\ h[n] \in Nat /\ p # n
      /\ Held[p] = DOMAIN children[p] /\ Held[n] = KeysOf(n) /\ Held[p] \subseteq Int
      /\ \A t \in Held[p] : children[p][t] = n => t = s
  <2>1. s \in First(Held[n]) /\ s \in Int /\ h[n] \in Nat
    BY <1>2, <1>3, <1>4, <1>6 DEF Exact, Basic, Kinds, First
  <2>2. p # n
    BY <1>6, <2>1
  <2>3. \A t \in Held[p] : children[p][t] = n => t = s
    BY <1>2, <1>4, <1>6, ChildFacts
  <2> QED
    BY <1>2, <1>6, <2>1, <2>2, <2>3 DEF Basic
<1>8. OwnSlot(n) = {s}
  <2>1. First(KeysOf(n)) = {s}
    <3>1. Held[n] \subseteq Int
      BY <1>2 DEF Basic
    <3> QED
      BY <1>7, <3>1 DEF First
  <2>2. SlotsOf(n, s) = {s}
    <3>1. s \in Ceil(DOMAIN children[p], s)
      BY <1>7 DEF Ceil
    <3>2. Ceil(DOMAIN children[p], s) \cup Floor(DOMAIN children[p], s) \subseteq Held[p]
      BY <1>7 DEF Ceil, Floor
    <3> QED
      BY <1>1, <1>6, <1>7, <3>1, <3>2 DEF SlotsOf
  <2> QED
    BY <1>1, <1>2, <2>1, <2>2 DEF OwnSlot
<1> QED
  BY <1>1, <1>2, <1>5, <1>6, <1>7, <1>8

\* The siblings are the nodes next to n.
LEMMA SiblingsOf ==
  ASSUME Basic, NEW h, NEW n \in Allocated, Sound(h, {}, {}, {n}), n # root, NEW p, p = parent[n],
         p \in Inner, NEW s \in Held[p], children[p][s] = n, OwnSlot(n) = {s}
  PROVE  /\ \A m \in LeftSibling(n) : \E t \in Held[p] :
              /\ IsSibling(h, n, p, m, t) /\ t < s
              /\ Neighbours(Level(h, m), Held, m, n)
         /\ \A m \in RightSibling(n) : \E t \in Held[p] :
              /\ IsSibling(h, n, p, m, t) /\ s < t
              /\ Neighbours(Level(h, n), Held, n, m)
<1>1. PICK O : O = {}
  OBVIOUS
<1>2. Kinds(h) /\ Top(h) /\ Family(h, O) /\ Exact(O) /\ Levels(h)
  BY <1>1 DEF Sound
<1>3. /\ Held[p] = DOMAIN children[p] /\ Held[p] \subseteq Int /\ s \in Int
      /\ h[p] = h[n] + 1 /\ h[n] \in Nat
  BY <1>2, ChildFacts DEF Basic, Kinds
<1>4. ASSUME NEW t \in Held[p], t # s
      PROVE  IsSibling(h, n, p, children[p][t], t)
  <2>1. PICK m : m = children[p][t]
    OBVIOUS
  <2>2. m \in Allocated /\ h[p] = h[m] + 1 /\ m # n /\ parent[m] = p
    BY <1>2, <1>4, <2>1, ChildFacts
  <2>3. t \in First(Held[m])
    BY <1>1, <1>2, <1>3, <2>1 DEF Exact
  <2>4. m # root
    BY <1>2, <2>1, RootHasNoSlot
  <2>5. h[m] = h[n]
    BY <1>2, <1>3, <2>2 DEF Kinds, Basic
  <2>6. IsLeaf(m) <=> IsLeaf(n)
    BY <1>2, <2>2, <2>5 DEF Kinds
  <2> QED
    BY <1>3, <2>1, <2>2, <2>3, <2>4, <2>5, <2>6 DEF IsSibling
<1>5. ASSUME NEW t \in Held[p], NEW u \in Held[p], t < u, \A v \in Held[p] : v =< t \/ u =< v
      PROVE  Neighbours(Level(h, children[p][t]), Held, children[p][t], children[p][u])
  BY <1>1, <1>2, <1>5, Siblings
<1>6. ASSUME NEW m \in LeftSibling(n)
      PROVE  \E t \in Held[p] : /\ IsSibling(h, n, p, m, t) /\ t < s
                                /\ Neighbours(Level(h, m), Held, m, n)
  <2>1. PICK t \in Floor(DOMAIN children[p], s) : m = children[p][t]
    BY DEF LeftSibling
  <2>2. t \in Held[p] /\ t < s /\ \A v \in Held[p] : v =< t \/ s =< v
    BY <1>3, <2>1 DEF Floor
  <2>3. Neighbours(Level(h, m), Held, m, n)
    BY <1>5, <2>1, <2>2
  <2> QED
    BY <1>3, <1>4, <2>1, <2>2, <2>3
<1>7. ASSUME NEW m \in RightSibling(n)
      PROVE  \E t \in Held[p] : /\ IsSibling(h, n, p, m, t) /\ s < t
                                /\ Neighbours(Level(h, n), Held, n, m)
  <2>1. PICK t \in Above(DOMAIN children[p], s) : m = children[p][t]
    BY DEF RightSibling
  <2>2. t \in Held[p] /\ s < t /\ \A v \in Held[p] : v =< s \/ t =< v
    BY <1>3, <2>1 DEF Above
  <2>3. Neighbours(Level(h, n), Held, n, m)
    BY <1>5, <2>1, <2>2
  <2> QED
    BY <1>3, <1>4, <2>1, <2>2, <2>3
<1> QED
  BY <1>6, <1>7

LEMMA PassedCounted ==
  ASSUME Basic, Basic', Counted, NEW src \in Allocated, NEW dst \in Allocated,
         IsLeaf(src) <=> IsLeaf(dst), NEW B, B \subseteq Held[src], Passed(src, dst, B), size' = size
  PROVE  Counted'
<1>1. /\ Leaves' = Leaves /\ Held'[src] = Held[src] \ B /\ Held'[dst] = Held[dst] \cup B
      /\ \A m \in Node \ {src, dst} : Held'[m] = Held[m]
  BY DEF Passed
<1>2. src \in Leaves <=> dst \in Leaves
  BY DEF Basic, Leaves
<1>3. \A x : x \in Elements <=> \E m \in Leaves : x \in Held[m]
  BY DEF Elements, Basic, Leaves
<1>4. \A x : x \in Elements' <=> \E m \in Leaves : x \in Held'[m]
  BY <1>1 DEF Elements, Basic, Leaves
<1>5. \A m \in Leaves : m \in Node
  BY DEF Basic
<1>6. ASSUME NEW x, NEW m \in Leaves, x \in Held[m] PROVE \E j \in Leaves : x \in Held'[j]
  BY <1>1, <1>2, <1>5, <1>6
<1>7. ASSUME NEW x, NEW m \in Leaves, x \in Held'[m] PROVE \E j \in Leaves : x \in Held[j]
  BY <1>1, <1>2, <1>5, <1>7
<1>8. Elements' = Elements
  BY <1>3, <1>4, <1>6, <1>7
<1> QED
  BY <1>8 DEF Counted

\* The separator of z is to be replaced by k.
LEMMA FixNext ==
  ASSUME NEW h, NEW z, Sound(h, {}, {z}, {})', pc' = "fix", cont' = "next", node' = z,
         sib' = Null, it'.leaf \in Leaves', z \in Allocated', k' \in First(Held'[z]), Basic'
  PROVE  Shape(h)'
<1>1. Unplaced' = {} /\ Stale' = {z} /\ Light' = {}
  BY DEF Unplaced, Stale, Light
<1>2. Fixing' /\ Known'
  BY DEF Fixing, Known, Basic
<1>3. Running(h)'
  BY <1>2 DEF Running, Searching, Promoting, Erasing, Resting
<1> QED
  BY <1>1, <1>3 DEF Shape

\* What is borrowed leaves the sibling its minimum.
LEMMA BorrowLeaves ==
  ASSUME NEW n, NEW m, Held[m] = KeysOf(m), IsFiniteSet(Held[m]), NEW c, c = BorrowCount(n, m), c > 0
  PROVE  /\ c \in Nat /\ c =< Cardinality(Held[m]) /\ Cardinality(Held[m]) - c >= 2
         /\ Cardinality(Held[m]) - c >= MinSize(n)
<1>1. Cardinality(Held[m]) \in Nat
  BY FS_CardinalityType
<1>2. PICK a, b, d : a = Cardinality(Held[m]) /\ b = MinSize(n) /\ d = Hysteresis(n)
  OBVIOUS
<1>3. a \in Nat /\ b \in Nat /\ b >= 2 /\ d \in Nat
  BY <1>1, <1>2, Thresholds
<1>4. c = LET target == IF d > 0 THEN d ELSE 1
              spare  == a - b
          IN  IF spare =< 0 THEN 0 ELSE IF target < spare THEN target ELSE spare
  BY <1>2 DEF BorrowCount
<1>5. c \in Nat /\ c =< a - b
  BY <1>3, <1>4
<1> QED
  BY <1>2, <1>3, <1>5

\* The sibling keeps its minimum, and n gets what it lacks.
LEMMA PassedSized ==
  ASSUME Sized, Basic, NEW n \in Allocated, NEW m \in Allocated, m # n, n # root, m # root,
         IsLeaf(m) <=> IsLeaf(n), NEW B, B \subseteq Held[m], B # {}, B \cap Held[n] = {},
         Passed(m, n, B), Cardinality(Held[m] \ B) >= MinSize(n),
         Cardinality(B) + Cardinality(Held[n]) =< Capacity(n),
         root' = root, pc = "underflow", n = node, pc' = "fix", cont' = "next"
  PROVE  Sized'
<1>1. Light = {n} /\ Light' = {}
  BY DEF Light
<1>2. /\ IsFiniteSet(Held[n]) /\ IsFiniteSet(Held[m]) /\ IsFiniteSet(B)
      /\ n \in Node /\ m \in Node
  BY FS_Subset DEF Basic
<1>3. PICK a, b, c, d \in Nat :
        /\ a = Cardinality(Held[n]) /\ b = Cardinality(B)
        /\ c = Cardinality(Held[m] \ B) /\ d = Cardinality(Held[m])
        /\ b >= 1 /\ c =< d
  <2>1. Cardinality(B) \in Nat /\ Cardinality(B) # 0
    BY <1>2, FS_CardinalityType, FS_EmptySet
  <2>2. Cardinality(Held[m] \ B) \in Nat /\ Cardinality(Held[m] \ B) =< Cardinality(Held[m])
    <3>1. PICK R : R = Held[m] \ B
      OBVIOUS
    <3>2. R \subseteq Held[m]
      BY <3>1
    <3>3. IsFiniteSet(R) /\ Cardinality(R) =< Cardinality(Held[m])
      BY ONLY <1>2, <3>2, FS_Subset
    <3> QED
      BY <3>1, <3>3, FS_CardinalityType
  <2> QED
    BY <1>2, <2>1, <2>2, FS_CardinalityType
<1>4. Cardinality(Held'[n]) = a + b
  <2>1. PICK S : S = Held[n] /\ S \cap B = {} /\ Held'[n] = S \cup B
    BY DEF Passed
  <2>2. Cardinality(S \cup B) = Cardinality(S) + Cardinality(B) - Cardinality(S \cap B)
    BY ONLY <1>2, <2>1, FS_Union
  <2>3. Cardinality(S \cap B) = 0
    BY <2>1, FS_EmptySet
  <2> QED
    BY ONLY <1>3, <2>1, <2>2, <2>3
<1>5. Cardinality(Held'[m]) = c
  BY <1>3 DEF Passed
<1>6. PICK u, v : u \in Nat /\ u = UnderflowThreshold(n) /\ v = Capacity(n) /\ u =< MinSize(n) /\ MinSize(n) \in Nat
  BY Thresholds
<1>7. UnderflowThreshold(m) = u /\ Capacity(m) = v
  BY <1>6 DEF UnderflowThreshold, MinSize, Hysteresis, Capacity
<1>8. /\ UnderflowThreshold(n)' = u /\ Capacity(n)' = v
      /\ UnderflowThreshold(m)' = u /\ Capacity(m)' = v
  <2>1. (IsLeaf(n)' <=> IsLeaf(n)) /\ (IsLeaf(m)' <=> IsLeaf(m))
    BY DEF Passed
  <2> QED
    BY <1>6, <1>7, <2>1, SameSizes
<1>9. a + 1 >= u /\ d =< v
  <2>1. WellFilled(n) /\ WellFilled(m)
    BY DEF Sized
  <2> QED
    BY <1>3, <1>6, <1>7, <2>1 DEF WellFilled
<1>10. WellFilled(n)'
  <2>1. v \in Nat
    BY <1>6, SizeAssumption DEF Capacity
  <2>2. a + b >= u /\ a + b =< v
    BY <1>3, <1>6, <1>9, <2>1
  <2> QED
    BY ONLY <1>4, <1>8, <2>2 DEF WellFilled
<1>11. WellFilled(m)'
  <2>1. v \in Nat
    BY <1>6, SizeAssumption DEF Capacity
  <2>2. c >= u /\ c =< v
    BY <1>3, <1>6, <1>9, <2>1
  <2> QED
    BY ONLY <1>5, <1>8, <2>2 DEF WellFilled
<1>12. PICK T : T = {m, n}
  OBVIOUS
<1>13. \A j \in Allocated' \ T :
         /\ j \in Allocated /\ (IsLeaf(j)' <=> IsLeaf(j)) /\ Held'[j] = Held[j]
         /\ j = root => j = root'
         /\ j \in Light => j \in Light'
  BY <1>1, <1>12 DEF Passed, Basic
<1>14. \A j \in T : j \in Allocated' => WellFilled(j)'
  BY <1>10, <1>11, <1>12
<1>15. pc' = "promote" => (Cardinality(Held[node]) >= UnderflowThreshold(node))'
  OBVIOUS
<1> QED
  BY ONLY <1>13, <1>14, <1>15, SizesKept, Sized

LEMMA HighestFacts ==
  ASSUME NEW S \in SUBSET Int, IsFiniteSet(S), NEW n \in Nat, n =< Cardinality(S)
  PROVE  /\ HighestN(S, n) \subseteq S /\ Cardinality(HighestN(S, n)) = n
         /\ Cardinality(S \ HighestN(S, n)) = Cardinality(S) - n
         /\ \A x \in S \ HighestN(S, n), y \in HighestN(S, n) : x < y
<1>1. PICK c \in Nat : c = Cardinality(S)
  BY FS_CardinalityType
<1>2. PICK m \in Nat : m = c - n /\ m =< c /\ c - m = n
  BY <1>1
<1>3. \A x : Rank(S, x) \in Nat
  BY RankOrder
<1>4. HighestN(S, n) = S \ LowestN(S, m)
  <2>1. \A r \in Nat : r + n >= c <=> ~(r < m)
    BY <1>1, <1>2
  <2> QED
    BY <1>1, <1>3, <2>1 DEF HighestN, LowestN
<1>5. /\ LowestN(S, m) \subseteq S /\ Cardinality(LowestN(S, m)) = m
      /\ Cardinality(S \ LowestN(S, m)) = c - m
      /\ \A x \in LowestN(S, m), y \in S \ LowestN(S, m) : x < y
  BY <1>1, <1>2, LowestFacts
<1>6. S \ HighestN(S, n) = LowestN(S, m)
  BY <1>4, <1>5
<1> QED
  BY <1>1, <1>2, <1>4, <1>5, <1>6

\* Below an internal node's level no node is empty.
LEMMA AllFilled ==
  ASSUME Basic, NEW h, NEW L, Kinds(h), Top(h), Populated(L), NEW p \in Inner
  PROVE  Filled(Allocated, Held)
<1>1. root \in Inner
  <2>1. p \in Allocated /\ p \in Node /\ ~IsLeaf(p) /\ root \in Allocated /\ root \in Node
    BY DEF Basic, Leaves, Top
  <2>2. h[p] \in Nat /\ h[p] # 0 /\ h[root] \in Nat /\ h[p] =< h[root]
    BY <2>1 DEF Kinds, Top
  <2>3. ~IsLeaf(root)
    BY <2>1, <2>2 DEF Kinds
  <2> QED
    BY <2>1, <2>3 DEF Basic, Leaves
<1> QED
  BY <1>1 DEF Populated, Filled, Basic

LEMMA BorrowFromLeftShape ==
  ASSUME IInv, IInv', NEW h, Shape(h), Counted, BorrowFromLeft
  PROVE  Shape(h)' /\ Counted' /\ KeepsSizes
<1>1. PICK n, p, s :
        /\ n = node /\ p = parent[n] /\ Basic /\ HeapOK /\ Sound(h, {}, {}, {n})
        /\ n \in Allocated /\ n # root /\ p \in Inner /\ p # n
        /\ s \in Held[p] /\ children[p][s] = n /\ s \in First(Held[n]) /\ s \in Int
        /\ h[p] = h[n] + 1 /\ h[n] \in Nat
        /\ it.leaf \in Leaves /\ sib = Null /\ pc = "underflow"
        /\ OwnSlot(n) = {s}
        /\ Cardinality(KeysOf(n)) < UnderflowThreshold(n)
  <2>1. Underflow
    BY DEF BorrowFromLeft
  <2> QED
    BY <2>1, UnderflowStart, Zenon
<1>2. Basic'
  BY HeldBasicNext
<1>3. PICK left \in LeftSibling(n) :
        LET c == BorrowCount(n, left)
            B == HighestN(KeysOf(left), c)
        IN  /\ c > 0
            /\ MayJoin(B, KeysOf(n), Capacity(n))
            /\ Borrow(left, n, B)
            /\ k' \in First(B)
            /\ Track(n, Shifted(c))
  BY <1>1 DEF BorrowFromLeft
<1>4. PICK m, c, B : m = left /\ c = BorrowCount(n, left) /\ B = HighestN(KeysOf(left), c)
  OBVIOUS
<1>5. /\ c > 0 /\ MayJoin(B, KeysOf(n), Capacity(n)) /\ Borrow(m, n, B) /\ k' \in First(B)
      /\ node' = n /\ sib' = Null /\ size' = size
      /\ it' = IF IsLeaf(n) THEN [leaf |-> n, idx |-> Shifted(c)] ELSE it
  BY <1>1, <1>3, <1>4 DEF BorrowFromLeft, Underflow, Track
<1>6. PICK t \in Held[p] :
        IsSibling(h, n, p, m, t) /\ t < s /\ Neighbours(Level(h, m), Held, m, n)
  BY <1>1, <1>3, <1>4, SiblingsOf
<1>7. /\ m \in Allocated /\ m # n /\ m # root /\ h[m] = h[n] /\ (IsLeaf(m) <=> IsLeaf(n))
      /\ m \in Node /\ n \in Node /\ t \in Int
      /\ Held[m] = KeysOf(m) /\ Held[m] \in SUBSET Int /\ IsFiniteSet(Held[m])
      /\ Held[n] = KeysOf(n) /\ Held[n] \in SUBSET Int /\ IsFiniteSet(Held[n])
  BY <1>1, <1>6 DEF IsSibling, Basic
<1>8. /\ B \subseteq Held[m] /\ B # {} /\ \A x \in Held[m] \ B, y \in B : x < y
      /\ \E x, y \in Held[m] \ B : x # y
      /\ \A x \in B, y \in Held[n] : x < y
      /\ B \cap Held[n] = {} /\ Cardinality(Held[m] \ B) >= MinSize(n)
  <2>1. /\ c \in Nat /\ c =< Cardinality(Held[m]) /\ Cardinality(Held[m]) - c >= 2
        /\ Cardinality(Held[m]) - c >= MinSize(n)
    BY <1>4, <1>5, <1>7, BorrowLeaves
  <2>2. /\ B \subseteq Held[m] /\ Cardinality(B) = c
        /\ Cardinality(Held[m] \ B) = Cardinality(Held[m]) - c
        /\ \A x \in Held[m] \ B, y \in B : x < y
    BY <1>4, <1>7, <2>1, HighestFacts
  <2>3. B # {}
    <3>1. c > 0 /\ Cardinality(B) = c
      BY <1>5, <2>2
    <3> QED
      BY ONLY <3>1, FS_EmptySet
  <2>4. \E x, y \in Held[m] \ B : x # y
    <3>1. IsFiniteSet(Held[m] \ B) /\ Cardinality(Held[m] \ B) >= 2
      BY <1>7, <2>1, <2>2, FS_Difference
    <3>2. Held[m] \ B # {} /\ Cardinality(Held[m] \ B) # 1
      BY <3>1, FS_EmptySet
    <3> QED
      BY <3>1, <3>2, TwoKeys
  <2>5. \A x \in B, y \in Held[n] : x < y
    BY <1>5, <1>7 DEF MayJoin
  <2>6. B \cap Held[n] = {}
    BY <1>7, <2>2, <2>5
  <2> QED
    BY <2>1, <2>2, <2>3, <2>4, <2>5, <2>6
<1>9. Passed(m, n, B)
  <2>1. Kinds(h) /\ Family(h, {})
    BY <1>1 DEF Sound
  <2> QED
    BY <1>1, <1>2, <1>5, <1>7, <1>8, <2>1, BorrowPasses
<1>10. /\ Held'[m] = Held[m] \ B /\ Held'[n] = Held[n] \cup B
       /\ \A j \in Node \ {m, n} : Held'[j] = Held[j]
       /\ Allocated' = Allocated /\ Leaves' = Leaves
  BY <1>9 DEF Passed
<1>11. PICK K, K1, A : K = Held /\ K1 = Held' /\ A = Allocated
  OBVIOUS
<1>12. OrderStays(h)
  <2>1. Filled(A, K)
    BY <1>1, <1>11, AllFilled DEF Sound
  <2>2. PICK T : T = Level(h, m)
    OBVIOUS
  <2>3. /\ \A j : j \in T <=> j \in A /\ h[j] = h[m]
        /\ Neighbours(T, K, m, n)
    BY <1>6, <1>11, <2>2 DEF Level
  <2>4. UpShift(A, K, K1, m, n, B)
    BY <1>1, <1>8, <1>10, <1>11 DEF UpShift, Basic
  <2>5. \A j, l \in A : j # l /\ h[j] = h[l] /\ Precedes(K, j, l) => Precedes(K1, j, l)
    BY ONLY <2>1, <2>3, <2>4, ShiftUpOrder
  <2> QED
    BY <1>11, <2>5 DEF OrderStays
<1>13. Sound(h, {}, {n}, {})'
  <2>1. \E x, y \in Held'[m] : x # y
    BY <1>8, <1>10
  <2>2. \E x, y \in Held'[n] : x # y
    <3>1. PICK y \in B : TRUE
      BY <1>8
    <3>2. s \in Held[n] /\ y # s
      BY <1>1, <1>8, <3>1 DEF First
    <3> QED
      BY <1>10, <3>1, <3>2
  <2>3. First(Held[m]) \subseteq First(Held'[m])
    <3>1. PICK y \in Held[m] \ B : TRUE
      BY <1>8
    <3>2. \A x \in First(Held[m]) : x \in Held[m] \ B
      BY <1>7, <1>8, <3>1 DEF First
    <3> QED
      BY <1>10, <3>2 DEF First
  <2>4. \A q \in Inner : \A u \in Held[q] : children[q][u] = n =>
           u \notin First(Held[q]) /\ u \in Held'[n]
    <3> SUFFICES ASSUME NEW q \in Inner, NEW u \in Held[q], children[q][u] = n
                 PROVE  u \notin First(Held[q]) /\ u \in Held'[n]
      OBVIOUS
    <3>1. q = p /\ u = s
      <4>1. Family(h, {})
        BY <1>1 DEF Sound
      <4>2. parent[children[q][u]] = q /\ \A v \in Held[q] : children[q][u] = children[q][v] => u = v
        BY <1>1, <4>1, ChildFacts
      <4> QED
        BY <1>1, <4>2
    <3>2. ~(s =< t)
      BY <1>1, <1>6, <1>7
    <3> QED
      BY <1>1, <1>6, <1>10, <3>1, <3>2 DEF First
  <2>5. UNCHANGED <<tree, kind, chain>>
    BY <1>5 DEF Borrow
  <2> QED
    <3>1. StaleAfter(m, n, n)
      BY <2>3, <2>4 DEF StaleAfter
    <3>2. Borrowed(h, n, m, n, n, B)
      BY ONLY <1>1, <1>7, <1>8, <1>9, <1>12, <2>1, <2>2, <2>5, <3>1 DEF Borrowed
    <3> QED
      BY ONLY <1>1, <1>2, <3>2, PassedSound, Zenon
<1>14. Shape(h)'
  <2>1. k' \in First(Held'[n])
    BY <1>5, <1>7, <1>8, <1>10 DEF First
  <2>2. pc' = "fix" /\ cont' = "next"
    BY <1>5 DEF Borrow
  <2>3. it'.leaf \in Leaves'
    BY <1>1, <1>5, <1>7, <1>10 DEF Leaves
  <2> QED
    BY <1>1, <1>2, <1>5, <1>10, <1>13, <2>1, <2>2, <2>3, FixNext
<1>15. Counted'
  BY <1>1, <1>2, <1>5, <1>7, <1>8, <1>9, PassedCounted
<1>16. KeepsSizes
  <2>1. root' = root /\ pc' = "fix" /\ cont' = "next"
    BY <1>5 DEF Borrow, tree
  <2>2. Cardinality(B) + Cardinality(Held[n]) =< Capacity(n)
    <3>1. IsFiniteSet(B)
      BY <1>7, <1>8, FS_Subset
    <3> QED
      BY <1>5, <1>7, <3>1, FS_CardinalityType DEF MayJoin
  <2>3. Sized => Sized'
    BY ONLY <1>1, <1>7, <1>8, <1>9, <2>1, <2>2, PassedSized
  <2> QED
    BY <2>3 DEF KeepsSizes
<1> QED
  BY <1>14, <1>15, <1>16

LEMMA BorrowFromRightShape ==
  ASSUME IInv, IInv', NEW h, Shape(h), Counted, BorrowFromRight
  PROVE  Shape(h)' /\ Counted' /\ KeepsSizes
<1>1. PICK n, p, s :
        /\ n = node /\ p = parent[n] /\ Basic /\ HeapOK /\ Sound(h, {}, {}, {n})
        /\ n \in Allocated /\ n # root /\ p \in Inner /\ p # n
        /\ s \in Held[p] /\ children[p][s] = n /\ s \in First(Held[n]) /\ s \in Int
        /\ h[p] = h[n] + 1 /\ h[n] \in Nat
        /\ it.leaf \in Leaves /\ sib = Null /\ pc = "underflow"
        /\ OwnSlot(n) = {s}
        /\ Cardinality(KeysOf(n)) < UnderflowThreshold(n)
  <2>1. Underflow
    BY DEF BorrowFromRight
  <2> QED
    BY <2>1, UnderflowStart, Zenon
<1>2. Basic'
  BY HeldBasicNext
<1>3. PICK right \in RightSibling(n) :
        LET c == BorrowCount(n, right)
            B == LowestN(KeysOf(right), c)
        IN  /\ c > 0
            /\ MayJoin(KeysOf(n), B, Capacity(n))
            /\ Borrow(right, n, B)
            /\ k' \in First(KeysOf(right) \ B)
            /\ Track(n, IF inNext THEN Cardinality(KeysOf(n)) ELSE it.idx)
            /\ node' = right
  BY <1>1 DEF BorrowFromRight
<1>4. PICK m, c, B : m = right /\ c = BorrowCount(n, right) /\ B = LowestN(KeysOf(right), c)
  OBVIOUS
<1>5. /\ c > 0 /\ MayJoin(KeysOf(n), B, Capacity(n)) /\ Borrow(m, n, B) /\ k' \in First(KeysOf(m) \ B)
      /\ node' = m /\ sib' = Null /\ size' = size
      /\ it'.leaf = IF IsLeaf(n) THEN n ELSE it.leaf
  BY <1>1, <1>3, <1>4 DEF BorrowFromRight, Underflow, Track
<1>6. PICK t \in Held[p] :
        IsSibling(h, n, p, m, t) /\ s < t /\ Neighbours(Level(h, n), Held, n, m)
  BY <1>1, <1>3, <1>4, SiblingsOf
<1>7. /\ m \in Allocated /\ m # n /\ m # root /\ h[m] = h[n] /\ (IsLeaf(m) <=> IsLeaf(n))
      /\ m \in Node /\ n \in Node /\ t \in Int
      /\ Held[m] = KeysOf(m) /\ Held[m] \in SUBSET Int /\ IsFiniteSet(Held[m])
      /\ Held[n] = KeysOf(n) /\ Held[n] \in SUBSET Int /\ IsFiniteSet(Held[n])
  BY <1>1, <1>6 DEF IsSibling, Basic
<1>8. /\ B \subseteq Held[m] /\ B # {} /\ \A x \in Held[m] \ B, y \in B : y < x
      /\ \E x, y \in Held[m] \ B : x # y
      /\ \A x \in Held[n], y \in B : x < y
      /\ B \cap Held[n] = {} /\ Cardinality(Held[m] \ B) >= MinSize(n)
  <2>1. /\ c \in Nat /\ c =< Cardinality(Held[m]) /\ Cardinality(Held[m]) - c >= 2
        /\ Cardinality(Held[m]) - c >= MinSize(n)
    BY <1>4, <1>5, <1>7, BorrowLeaves
  <2>2. /\ B \subseteq Held[m] /\ Cardinality(B) = c
        /\ Cardinality(Held[m] \ B) = Cardinality(Held[m]) - c
        /\ \A x \in Held[m] \ B, y \in B : y < x
    BY <1>4, <1>7, <2>1, LowestFacts
  <2>3. B # {}
    <3>1. c > 0 /\ Cardinality(B) = c
      BY <1>5, <2>2
    <3> QED
      BY ONLY <3>1, FS_EmptySet
  <2>4. \E x, y \in Held[m] \ B : x # y
    <3>1. IsFiniteSet(Held[m] \ B) /\ Cardinality(Held[m] \ B) >= 2
      BY <1>7, <2>1, <2>2, FS_Difference
    <3>2. Held[m] \ B # {} /\ Cardinality(Held[m] \ B) # 1
      BY <3>1, FS_EmptySet
    <3> QED
      BY <3>1, <3>2, TwoKeys
  <2>5. \A x \in Held[n], y \in B : x < y
    BY <1>5, <1>7 DEF MayJoin
  <2>6. B \cap Held[n] = {}
    BY <1>7, <2>2, <2>5
  <2> QED
    BY <2>1, <2>2, <2>3, <2>4, <2>5, <2>6
<1>9. Passed(m, n, B)
  <2>1. Kinds(h) /\ Family(h, {})
    BY <1>1 DEF Sound
  <2> QED
    BY <1>1, <1>2, <1>5, <1>7, <1>8, <2>1, BorrowPasses
<1>10. /\ Held'[m] = Held[m] \ B /\ Held'[n] = Held[n] \cup B
       /\ \A j \in Node \ {m, n} : Held'[j] = Held[j]
       /\ Allocated' = Allocated /\ Leaves' = Leaves
  BY <1>9 DEF Passed
<1>11. PICK K, K1, A : K = Held /\ K1 = Held' /\ A = Allocated
  OBVIOUS
<1>12. OrderStays(h)
  <2>1. Filled(A, K)
    BY <1>1, <1>11, AllFilled DEF Sound
  <2>2. PICK T : T = Level(h, n)
    OBVIOUS
  <2>3. /\ \A j : j \in T <=> j \in A /\ h[j] = h[n]
        /\ Neighbours(T, K, n, m)
    BY <1>6, <1>11, <2>2 DEF Level
  <2>4. DownShift(A, K, K1, n, m, B)
    BY <1>1, <1>8, <1>10, <1>11 DEF DownShift, Basic
  <2>5. \A j, l \in A : j # l /\ h[j] = h[l] /\ Precedes(K, j, l) => Precedes(K1, j, l)
    BY ONLY <2>1, <2>3, <2>4, ShiftDownOrder
  <2> QED
    BY <1>11, <2>5 DEF OrderStays
<1>13. Sound(h, {}, {m}, {})'
  <2>1. \E x, y \in Held'[m] : x # y
    BY <1>8, <1>10
  <2>2. \E x, y \in Held'[n] : x # y
    <3>1. PICK y \in B : TRUE
      BY <1>8
    <3>2. s \in Held[n] /\ y # s
      BY <1>1, <1>8, <3>1 DEF First
    <3> QED
      BY <1>10, <3>1, <3>2
  <2>3. First(Held[n]) \subseteq First(Held'[n])
    BY <1>7, <1>8, <1>10 DEF First
  <2>4. \A q \in Inner : \A u \in Held[q] : children[q][u] = m =>
           u \notin First(Held[q]) /\ First(Held'[m]) \subseteq Held[m]
    <3> SUFFICES ASSUME NEW q \in Inner, NEW u \in Held[q], children[q][u] = m
                 PROVE  u \notin First(Held[q]) /\ First(Held'[m]) \subseteq Held[m]
      OBVIOUS
    <3>1. q = p /\ u = t
      <4>1. Family(h, {})
        BY <1>1 DEF Sound
      <4>2. parent[children[q][u]] = q /\ \A v \in Held[q] : children[q][u] = children[q][v] => u = v
        BY <1>1, <4>1, ChildFacts
      <4>3. parent[children[p][t]] = p /\ children[p][t] = m
        BY <1>1, <1>6, <4>1, ChildFacts DEF IsSibling
      <4> QED
        BY <1>6, <4>2, <4>3
    <3>2. ~(t =< s)
      BY <1>1, <1>6, <1>7
    <3> QED
      BY <1>1, <1>6, <1>8, <1>10, <3>1, <3>2 DEF First
  <2>5. UNCHANGED <<tree, kind, chain>>
    BY <1>5 DEF Borrow
  <2> QED
    <3>1. StaleAfter(m, n, m)
      BY <2>3, <2>4 DEF StaleAfter
    <3>2. Borrowed(h, n, m, n, m, B)
      BY ONLY <1>1, <1>7, <1>8, <1>9, <1>12, <2>1, <2>2, <2>5, <3>1 DEF Borrowed
    <3> QED
      BY ONLY <1>1, <1>2, <3>2, PassedSound, Zenon
<1>14. Shape(h)'
  <2>1. k' \in First(Held'[m]) /\ m \in Allocated'
    BY <1>5, <1>7, <1>10
  <2>2. pc' = "fix" /\ cont' = "next"
    BY <1>5 DEF Borrow
  <2>3. it'.leaf \in Leaves'
    BY <1>1, <1>5, <1>7, <1>10 DEF Leaves
  <2> QED
    BY <1>2, <1>5, <1>13, <2>1, <2>2, <2>3, FixNext
<1>15. Counted'
  BY <1>1, <1>2, <1>5, <1>7, <1>8, <1>9, PassedCounted
<1>16. KeepsSizes
  <2>1. root' = root /\ pc' = "fix" /\ cont' = "next"
    BY <1>5 DEF Borrow, tree
  <2>2. Cardinality(B) + Cardinality(Held[n]) =< Capacity(n)
    <3>1. IsFiniteSet(B)
      BY <1>7, <1>8, FS_Subset
    <3> QED
      BY <1>5, <1>7, <3>1, FS_CardinalityType DEF MayJoin
  <2>3. Sized => Sized'
    BY ONLY <1>1, <1>7, <1>8, <1>9, <2>1, <2>2, PassedSized
  <2> QED
    BY <2>3 DEF KeepsSizes
<1> QED
  BY <1>14, <1>15, <1>16

----------------------------------------------------------------------------
(* Merging.  The entries of node from go to dst, its neighbour before it. *)

\* The tree once from, at slot x of p, has gone.
Joined(p, dst, from, x) ==
  /\ \A m : m \in Allocated' <=> m \in Allocated /\ m # from
  /\ \A m : m \in Leaves' <=> m \in Leaves /\ m # from
  /\ \A m : m \in Inner' <=> m \in Inner /\ m # from
  /\ \A m \in Node \ {from} : kind'[m] = kind[m]
  /\ Held'[dst] = Held[dst] \cup Held[from] /\ Held'[p] = Held[p] \ {x}
  /\ \A m \in Node \ {dst, from, p} : Held'[m] = Held[m]
  /\ \A m \in Node : IsLeaf(m)' \/ DOMAIN data'[m] = {}
  /\ \A m \in Node : m \in Inner' \/ DOMAIN children'[m] = {}
  /\ \A q \in Inner' : \A t \in DOMAIN children'[q] :
       \/ q = dst /\ from \in Inner /\ t \in Held[from] /\ children'[q][t] = children[from][t]
       \/ t \in Held[q] /\ ~(q = p /\ t = x) /\ children'[q][t] = children[q][t]
  /\ \A q \in Inner : \A t \in Held[q] : ~(q = p /\ t = x) =>
       \/ q = from /\ dst \in Inner' /\ t \in DOMAIN children'[dst] /\ children'[dst][t] = children[q][t]
       \/ q # from /\ t \in DOMAIN children'[q] /\ children'[q][t] = children[q][t]
  /\ \A t \in Held[from] : from \in Inner => parent'[children[from][t]] = dst
  /\ parent'[from] = Null
  /\ \A m \in Node : parent[m] # from /\ m # from => parent'[m] = parent[m]

\* The steps that do it.
Joins(p, dst, from, x) ==
  /\ data' = IF IsLeaf(dst) THEN Move(data, from, dst, Held[from]) ELSE data
  /\ children' = [IF IsLeaf(dst) THEN children ELSE Move(children, from, dst, Held[from])
                    EXCEPT ![p] = Without(@, {x})]
  /\ parent' = [Reparent(Held[from], from, dst) EXCEPT ![from] = Null]
  /\ kind' = [kind EXCEPT ![from] = "free"]

LEMMA MergeJoins ==
  ASSUME Basic, Basic', HeapOK, NEW h, Kinds(h), Family(h, {}),
         NEW from \in Allocated, NEW dst \in Allocated, from # dst, IsLeaf(from) <=> IsLeaf(dst),
         NEW p \in Inner, p # from, p # dst, NEW x \in Held[p], children[p][x] = from,
         Held[dst] \cap Held[from] = {}, Joins(p, dst, from, x)
  PROVE  Joined(p, dst, from, x)
<1>1. /\ from \in Node /\ dst \in Node /\ p \in Node
      /\ Maps(data, Value) /\ Maps(children, Node) /\ parent \in [Node -> Pointer]
      /\ kind \in [Node -> {"free", "leaf", "low", "high"}]
      /\ Held[p] = DOMAIN children[p]
  BY DEF Basic, HeapOK
<1>2. /\ kind'[from] = "free" /\ \A m \in Node \ {from} : kind'[m] = kind[m]
  BY <1>1 DEF Joins
<1>3. /\ \A m : m \in Allocated' <=> m \in Allocated /\ m # from
      /\ \A m : m \in Leaves' <=> m \in Leaves /\ m # from
      /\ \A m : m \in Inner' <=> m \in Inner /\ m # from
  BY <1>2 DEF Allocated, Leaves, Inner, IsLeaf
<1>4. \A q \in Inner : \A t \in Held[q] :
        /\ children[q][t] \in Node /\ parent[children[q][t]] = q
        /\ q \in Node /\ Held[q] = DOMAIN children[q]
        /\ \A u \in Held[q] : children[q][t] = children[q][u] => t = u
  BY ChildFacts DEF Basic
<1>5. PICK c : c = IF IsLeaf(dst) THEN children ELSE Move(children, from, dst, Held[from])
  OBVIOUS
<1>6. c = [m \in Node |-> c[m]]
  BY <1>1, <1>5, MoveMaps DEF Maps
<1>7. children'[p] = Without(c[p], {x}) /\ \A m \in Node \ {p} : children'[m] = c[m]
  <2>1. children' = [c EXCEPT ![p] = Without(c[p], {x})]
    BY <1>5 DEF Joins
  <2> QED
    BY <1>1, <1>6, <2>1
<1>8. /\ DOMAIN children'[p] = DOMAIN c[p] \ {x}
      /\ \A t \in DOMAIN c[p] \ {x} : children'[p][t] = c[p][t]
  BY <1>7 DEF Without, Restrict
<1>9. /\ Held'[p] = DOMAIN children'[p]
      /\ p \in Inner'
  BY <1>1, <1>3 DEF Basic
<1>10. /\ parent'[from] = Null
       /\ \A m \in Node \ {from} : parent'[m] = Reparent(Held[from], from, dst)[m]
  <2>1. DOMAIN Reparent(Held[from], from, dst) = Node
    BY DEF Reparent
  <2>2. parent' = [Reparent(Held[from], from, dst) EXCEPT ![from] = Null]
    BY DEF Joins
  <2> QED
    BY <1>1, <2>1, <2>2
<1>11. CASE IsLeaf(dst)
  <2>1. data' = Move(data, from, dst, Held[from]) /\ c = children
    BY <1>5, <1>11 DEF Joins
  <2>2. /\ from \in Leaves /\ dst \in Leaves /\ from \notin Inner /\ dst \notin Inner
        /\ DOMAIN children[from] = {} /\ DOMAIN data[from] = Held[from]
        /\ dst \in Leaves' /\ Held[dst] = DOMAIN data[dst]
    BY <1>1, <1>3, <1>11 DEF Kinds, Basic, Leaves
  <2>3. /\ DOMAIN data'[from] = {}
        /\ DOMAIN data'[dst] = DOMAIN data[dst] \cup Held[from]
        /\ \A m \in Node \ {from, dst} : data'[m] = data[m]
    <3>1. Held[from] \subseteq DOMAIN data[from]
      BY <2>2
    <3>2. /\ DOMAIN data'[from] = DOMAIN data[from] \ Held[from]
          /\ DOMAIN data'[dst] = DOMAIN data[dst] \cup Held[from]
          /\ \A m \in Node \ {from, dst} : data'[m] = data[m]
      BY <1>1, <2>1, <3>1, ShiftMap
    <3> QED
      BY <2>2, <3>2
  <2>4. Held'[dst] = Held[dst] \cup Held[from] /\ Held'[p] = Held[p] \ {x}
    BY <1>1, <1>8, <1>9, <2>1, <2>2, <2>3 DEF Basic
  <2>5. \A m \in Node \ {dst, from, p} : Held'[m] = Held[m]
    BY <1>2, <1>7, <2>1, <2>3 DEF Held, KeysOf, IsLeaf
  <2>6. /\ \A m \in Node : IsLeaf(m)' \/ DOMAIN data'[m] = {}
        /\ \A m \in Node : m \in Inner' \/ DOMAIN children'[m] = {}
    <3>1. \A m \in Node \ {from} : IsLeaf(m)' <=> IsLeaf(m)
      BY <1>2 DEF IsLeaf
    <3>2. \A m \in Node : IsLeaf(m)' \/ DOMAIN data'[m] = {}
      BY <1>11, <2>3, <3>1 DEF Kinds
    <3>3. \A m \in Node : m \in Inner' \/ DOMAIN children'[m] = {}
      BY <1>3, <1>7, <1>9, <2>1, <2>2 DEF Kinds
    <3> QED
      BY <3>2, <3>3
  <2>7. \A q \in Inner' : \A t \in DOMAIN children'[q] :
          t \in Held[q] /\ ~(q = p /\ t = x) /\ children'[q][t] = children[q][t]
    <3> SUFFICES ASSUME NEW q \in Inner', NEW t \in DOMAIN children'[q]
                 PROVE  t \in Held[q] /\ ~(q = p /\ t = x) /\ children'[q][t] = children[q][t]
      OBVIOUS
    <3>1. q \in Inner /\ q \in Node /\ Held[q] = DOMAIN children[q]
      BY <1>3 DEF Basic
    <3> QED
      BY <1>7, <1>8, <2>1, <3>1
  <2>8. \A q \in Inner : \A t \in Held[q] : ~(q = p /\ t = x) =>
          q # from /\ t \in DOMAIN children'[q] /\ children'[q][t] = children[q][t]
    <3> SUFFICES ASSUME NEW q \in Inner, NEW t \in Held[q], ~(q = p /\ t = x)
                 PROVE  q # from /\ t \in DOMAIN children'[q] /\ children'[q][t] = children[q][t]
      OBVIOUS
    <3>1. q \in Node /\ Held[q] = DOMAIN children[q] /\ q # from
      BY <2>2 DEF Basic
    <3>2. CASE q = p
      BY <1>8, <2>1, <3>1, <3>2
    <3>3. CASE q # p
      BY <1>7, <2>1, <3>1, <3>3
    <3> QED
      BY <3>2, <3>3
  <2>9. \A m \in Node : parent[m] # from /\ m # from => parent'[m] = parent[m]
    BY <1>10, <2>2 DEF Reparent
  <2>10. /\ \A t \in Held[from] : from \in Inner => parent'[children[from][t]] = dst
         /\ from \notin Inner
    BY <2>2
  <2>11. \A q \in Inner' : \A t \in DOMAIN children'[q] :
           \/ q = dst /\ from \in Inner /\ t \in Held[from] /\ children'[q][t] = children[from][t]
           \/ t \in Held[q] /\ ~(q = p /\ t = x) /\ children'[q][t] = children[q][t]
    BY ONLY <2>7
  <2>12. \A q \in Inner : \A t \in Held[q] : ~(q = p /\ t = x) =>
           \/ q = from /\ dst \in Inner' /\ t \in DOMAIN children'[dst] /\ children'[dst][t] = children[q][t]
           \/ q # from /\ t \in DOMAIN children'[q] /\ children'[q][t] = children[q][t]
    BY ONLY <2>8
  <2> QED
    BY ONLY <1>2, <1>3, <1>10, <2>4, <2>5, <2>6, <2>9, <2>10, <2>11, <2>12, Zenon DEF Joined
<1>12. CASE ~IsLeaf(dst)
  <2>1. data' = data /\ c = Move(children, from, dst, Held[from])
    BY <1>5, <1>12 DEF Joins
  <2>2. /\ from \in Inner /\ dst \in Inner /\ dst \in Inner'
        /\ DOMAIN children[from] = Held[from] /\ Held[dst] = DOMAIN children[dst]
    BY <1>1, <1>3, <1>12 DEF Basic, Leaves
  <2>3. /\ DOMAIN c[from] = {}
        /\ DOMAIN c[dst] = Held[dst] \cup Held[from]
        /\ \A m \in Node \ {from, dst} : c[m] = children[m]
        /\ \A t \in Held[dst] : c[dst][t] = children[dst][t]
        /\ \A t \in Held[from] : c[dst][t] = children[from][t]
    <3>1. Held[from] \subseteq DOMAIN children[from]
      BY <2>2
    <3>2. /\ DOMAIN c[from] = DOMAIN children[from] \ Held[from]
          /\ DOMAIN c[dst] = DOMAIN children[dst] \cup Held[from]
          /\ \A m \in Node \ {from, dst} : c[m] = children[m]
          /\ \A t \in DOMAIN children[dst] : c[dst][t] = children[dst][t]
          /\ \A t \in Held[from] \ DOMAIN children[dst] : c[dst][t] = children[from][t]
      BY <1>1, <2>1, <3>1, ShiftMap
    <3> QED
      BY <2>2, <3>2
  <2>4. Held'[dst] = Held[dst] \cup Held[from] /\ Held'[p] = Held[p] \ {x}
    BY <1>1, <1>7, <1>8, <1>9, <2>2, <2>3 DEF Basic
  <2>5. \A m \in Node \ {dst, from, p} : Held'[m] = Held[m]
    BY <1>2, <1>7, <2>1, <2>3 DEF Held, KeysOf, IsLeaf
  <2>6. /\ \A m \in Node : IsLeaf(m)' \/ DOMAIN data'[m] = {}
        /\ \A m \in Node : m \in Inner' \/ DOMAIN children'[m] = {}
    <3>1. \A m \in Node \ {from} : IsLeaf(m)' <=> IsLeaf(m)
      BY <1>2 DEF IsLeaf
    <3>2. \A m \in Node : IsLeaf(m)' \/ DOMAIN data'[m] = {}
      BY <1>12, <2>1, <3>1 DEF Kinds
    <3>3. \A m \in Node : m \in Inner' \/ DOMAIN children'[m] = {}
      BY <1>1, <1>3, <1>7, <1>9, <2>2, <2>3 DEF Kinds
    <3> QED
      BY <3>2, <3>3
  <2>7. \A q \in Inner' : \A t \in DOMAIN children'[q] :
          \/ q = dst /\ from \in Inner /\ t \in Held[from] /\ children'[q][t] = children[from][t]
          \/ t \in Held[q] /\ ~(q = p /\ t = x) /\ children'[q][t] = children[q][t]
    <3> SUFFICES ASSUME NEW q \in Inner', NEW t \in DOMAIN children'[q]
                 PROVE  \/ q = dst /\ t \in Held[from] /\ children'[q][t] = children[from][t]
                        \/ t \in Held[q] /\ ~(q = p /\ t = x) /\ children'[q][t] = children[q][t]
      BY <2>2
    <3>1. q \in Inner /\ q \in Node /\ Held[q] = DOMAIN children[q] /\ q # from
      BY <1>3 DEF Basic
    <3>2. CASE q = p
      BY <1>1, <1>8, <2>3, <3>1, <3>2
    <3>3. CASE q = dst
      BY <1>1, <1>7, <2>3, <3>1, <3>3
    <3>4. CASE q = from
      BY <1>1, <1>7, <2>2, <2>3, <3>1, <3>4
    <3>5. CASE q \notin {p, dst, from}
      BY <1>7, <2>3, <3>1, <3>5
    <3> QED
      BY <3>2, <3>3, <3>4, <3>5
  <2>8. \A q \in Inner : \A t \in Held[q] : ~(q = p /\ t = x) =>
          \/ q = from /\ dst \in Inner' /\ t \in DOMAIN children'[dst] /\ children'[dst][t] = children[q][t]
          \/ q # from /\ t \in DOMAIN children'[q] /\ children'[q][t] = children[q][t]
    <3> SUFFICES ASSUME NEW q \in Inner, NEW t \in Held[q], ~(q = p /\ t = x)
                 PROVE  \/ q = from /\ t \in DOMAIN children'[dst] /\ children'[dst][t] = children[q][t]
                        \/ q # from /\ t \in DOMAIN children'[q] /\ children'[q][t] = children[q][t]
      BY <2>2
    <3>1. q \in Node /\ Held[q] = DOMAIN children[q]
      BY DEF Basic
    <3>2. CASE q = p
      BY <1>1, <1>8, <2>3, <3>1, <3>2
    <3>3. CASE q = dst
      BY <1>1, <1>7, <2>3, <3>1, <3>3
    <3>4. CASE q = from
      BY <1>1, <1>7, <2>2, <2>3, <3>1, <3>4
    <3>5. CASE q \notin {p, dst, from}
      BY <1>7, <2>3, <3>1, <3>5
    <3> QED
      BY <3>2, <3>3, <3>4, <3>5
  <2>9. \A m \in Node \ {from} :
          parent'[m] = IF \E t \in Held[from] : children[from][t] = m THEN dst ELSE parent[m]
    BY <1>10, <2>2 DEF Reparent
  <2>10. /\ \A t \in Held[from] : from \in Inner => parent'[children[from][t]] = dst
         /\ \A m \in Node : parent[m] # from /\ m # from => parent'[m] = parent[m]
    <3>1. \A t \in Held[from] : children[from][t] # from
      <4>1. \A q \in Inner : h[q] \in Nat
        BY DEF Kinds, Basic
      <4> QED
        BY <2>2, <4>1, ChildFacts
    <3> QED
      BY <1>4, <2>2, <2>9, <3>1
  <2> QED
    BY ONLY <1>2, <1>3, <1>10, <2>2, <2>4, <2>5, <2>6, <2>7, <2>8, <2>10, Zenon DEF Joined
<1> QED
  BY <1>11, <1>12

\* A leaf that goes leaves the list.
Unlinked(dst, from) ==
  IF IsLeaf(dst)
  THEN /\ nextLeaf'[from] = Null /\ prevLeaf'[from] = Null
       /\ \A m \in Node \ {from} :
            /\ nextLeaf'[m] = IF m = dst THEN nextLeaf[from] ELSE nextLeaf[m]
            /\ prevLeaf'[m] = IF m = nextLeaf[from] THEN dst ELSE prevLeaf[m]
       /\ rightmostLeaf' = IF rightmostLeaf = from THEN dst ELSE rightmostLeaf
  ELSE UNCHANGED <<chain, rightmostLeaf>>

\* Node from, at slot x of p, is merged into dst, at slot s; n had too few entries.
Merged(h, n, p, dst, from, s, x) ==
  /\ Sound(h, {}, {}, {n}) /\ n \in {dst, from}
  /\ from \in Allocated /\ dst \in Allocated /\ from # dst /\ from # root /\ dst # root
  /\ h[from] = h[dst] /\ (IsLeaf(from) <=> IsLeaf(dst)) /\ h[p] = h[dst] + 1 /\ h[dst] \in Nat
  /\ p \in Inner /\ p # from /\ p # dst
  /\ x \in Held[p] /\ children[p][x] = from /\ s \in Held[p] /\ children[p][s] = dst /\ s < x
  /\ Neighbours(Level(h, dst), Held, dst, from) /\ Held[dst] \cap Held[from] = {}
  /\ Joined(p, dst, from, x) /\ Unlinked(dst, from)
  /\ UNCHANGED <<root, rootIsLeaf, leftmostLeaf, size>>

\* The tree after a merge: the parent may be left with a single entry.
LEMMA JoinedSound ==
  ASSUME Basic, Basic', NEW h, NEW n, NEW p, NEW dst, NEW from, NEW s, NEW x,
         Merged(h, n, p, dst, from, s, x)
  PROVE  Sound(h, {}, {}, {p})'
<1>1. PICK O : O = {}
  OBVIOUS
<1>2. /\ Kinds(h) /\ Top(h) /\ Family(h, O) /\ Exact(O) /\ Levels(h) /\ Populated({n}) /\ Chained
      /\ from \in Node /\ dst \in Node /\ p \in Node /\ p \in Allocated
      /\ Held[p] \subseteq Int /\ s \in Int /\ x \in Int
  BY <1>1 DEF Merged, Sound, Basic
<1>3. /\ n \in {dst, from} /\ from \in Allocated /\ dst \in Allocated /\ from # dst
      /\ from # root /\ dst # root /\ h[from] = h[dst] /\ (IsLeaf(from) <=> IsLeaf(dst))
      /\ h[p] = h[dst] + 1 /\ h[dst] \in Nat
      /\ p \in Inner /\ p # from /\ p # dst
      /\ x \in Held[p] /\ children[p][x] = from /\ s \in Held[p] /\ children[p][s] = dst /\ s < x
      /\ Neighbours(Level(h, dst), Held, dst, from) /\ Held[dst] \cap Held[from] = {}
      /\ root' = root /\ rootIsLeaf' = rootIsLeaf /\ leftmostLeaf' = leftmostLeaf /\ size' = size
  BY DEF Merged
<1>4. /\ \A m : m \in Allocated' <=> m \in Allocated /\ m # from
      /\ \A m : m \in Leaves' <=> m \in Leaves /\ m # from
      /\ \A m : m \in Inner' <=> m \in Inner /\ m # from
      /\ \A m \in Node \ {from} : kind'[m] = kind[m]
      /\ Held'[dst] = Held[dst] \cup Held[from] /\ Held'[p] = Held[p] \ {x}
      /\ \A m \in Node \ {dst, from, p} : Held'[m] = Held[m]
  BY DEF Merged, Joined
<1>5. /\ \A q \in Inner' : \A t \in DOMAIN children'[q] :
           \/ q = dst /\ from \in Inner /\ t \in Held[from] /\ children'[q][t] = children[from][t]
           \/ t \in Held[q] /\ ~(q = p /\ t = x) /\ children'[q][t] = children[q][t]
      /\ \A q \in Inner : \A t \in Held[q] : ~(q = p /\ t = x) =>
           \/ q = from /\ dst \in Inner' /\ t \in DOMAIN children'[dst] /\ children'[dst][t] = children[q][t]
           \/ q # from /\ t \in DOMAIN children'[q] /\ children'[q][t] = children[q][t]
  BY DEF Merged, Joined
<1>6. /\ \A t \in Held[from] : from \in Inner => parent'[children[from][t]] = dst
      /\ parent'[from] = Null
      /\ \A m \in Node : parent[m] # from /\ m # from => parent'[m] = parent[m]
  BY DEF Merged, Joined
<1>7. \A q \in Inner : \A t \in Held[q] :
        /\ children[q][t] \in Allocated /\ children[q][t] \in Node
        /\ parent[children[q][t]] = q /\ h[q] = h[children[q][t]] + 1
        /\ q \in Node /\ q \in Allocated /\ h[children[q][t]] \in Nat
        /\ \A u \in Held[q] : children[q][t] = children[q][u] => t = u
        /\ t \in First(Held[children[q][t]])
  BY <1>1, <1>2, ChildFacts DEF Basic, Kinds, Exact
<1>8. \A q \in Inner : \A t \in Held[q] : children[q][t] = from <=> q = p /\ t = x
  <2>1. \A q \in Inner : \A t \in Held[q] : children[q][t] = from => q = p /\ t = x
    <3> SUFFICES ASSUME NEW q \in Inner, NEW t \in Held[q], children[q][t] = from
                 PROVE  q = p /\ t = x
      OBVIOUS
    <3>1. parent[from] = q /\ parent[from] = p
      BY <1>3, <1>7
    <3> QED
      BY <1>3, <1>7, <3>1
  <2> QED
    BY <1>3, <2>1
<1>9. \A q \in Inner' : \A t \in DOMAIN children'[q] :
        \E r \in Inner : /\ t \in Held[r] /\ children'[q][t] = children[r][t] /\ children[r][t] # from
                         /\ (r = q \/ (r = from /\ q = dst))
  <2> SUFFICES ASSUME NEW q \in Inner', NEW t \in DOMAIN children'[q]
               PROVE  \E r \in Inner :
                         /\ t \in Held[r] /\ children'[q][t] = children[r][t] /\ children[r][t] # from
                         /\ (r = q \/ (r = from /\ q = dst))
    OBVIOUS
  <2>1. CASE q = dst /\ from \in Inner /\ t \in Held[from] /\ children'[q][t] = children[from][t]
    BY <1>3, <1>8, <2>1
  <2>2. CASE t \in Held[q] /\ ~(q = p /\ t = x) /\ children'[q][t] = children[q][t]
    BY <1>4, <1>8, <2>2
  <2> QED
    BY <1>5, <2>1, <2>2
<1>10. Kinds(h)'
  <2>1. /\ \A m \in Node : IsLeaf(m)' \/ DOMAIN data'[m] = {}
        /\ \A m \in Node : m \in Inner' \/ DOMAIN children'[m] = {}
    BY DEF Merged, Joined
  <2>2. \A m \in Node \ Allocated' : parent'[m] = Null
    <3>1. \A m \in Node \ Allocated : parent[m] = Null
      BY <1>2 DEF Kinds
    <3>2. from # Null
      BY <1>2 DEF Basic
    <3> QED
      BY <1>4, <1>6, <3>1, <3>2
  <2>3. \A m \in Node \ Leaves' : nextLeaf'[m] = Null /\ prevLeaf'[m] = Null
    <3>1. \A m \in Node \ Leaves : nextLeaf[m] = Null /\ prevLeaf[m] = Null
      BY <1>2 DEF Kinds
    <3>2. CASE ~IsLeaf(dst)
      <4>1. from \notin Leaves
        BY <1>3, <3>2 DEF Leaves
      <4> QED
        BY <1>4, <3>1, <3>2, <4>1 DEF Merged, Unlinked, chain
    <3>3. CASE IsLeaf(dst)
      <4>1. /\ nextLeaf'[from] = Null /\ prevLeaf'[from] = Null
            /\ \A m \in Node \ {from} :
                 /\ nextLeaf'[m] = IF m = dst THEN nextLeaf[from] ELSE nextLeaf[m]
                 /\ prevLeaf'[m] = IF m = nextLeaf[from] THEN dst ELSE prevLeaf[m]
        BY <3>3 DEF Merged, Unlinked
      <4>2. from \in Leaves /\ dst \in Leaves
        BY <1>2, <1>3, <3>3 DEF Leaves
      <4>3. nextLeaf[from] = Null \/ nextLeaf[from] \in Leaves
        BY <1>2, <4>2 DEF Chained, Linked, Neighbours
      <4>4. Null \notin Node
        BY DEF Basic
      <4> QED
        BY <1>4, <3>1, <4>1, <4>2, <4>3, <4>4
    <3> QED
      BY <3>2, <3>3
  <2>4. \A m \in Allocated' : (IsLeaf(m)' <=> h[m] = 0) /\ (kind'[m] = "low" <=> h[m] = 1)
    <3>1. \A m \in Allocated : (kind[m] = "leaf" <=> h[m] = 0) /\ (kind[m] = "low" <=> h[m] = 1)
      BY <1>2 DEF Kinds, IsLeaf
    <3> QED
      BY <1>4, <3>1 DEF IsLeaf, Basic
  <2> QED
    BY <1>2, <2>1, <2>2, <2>3, <2>4 DEF Kinds
<1>11. Top(h)'
  <2>1. parent'[root] = Null
    BY <1>2, <1>3, <1>6 DEF Top, Basic
  <2>2. root \in Allocated /\ rootIsLeaf = IsLeaf(root) /\ \A m \in Allocated : h[m] =< h[root]
    BY <1>2 DEF Top
  <2>3. IsLeaf(root)' = IsLeaf(root)
    BY <1>3, <1>4, <2>2 DEF IsLeaf, Basic
  <2> QED
    BY ONLY <1>3, <1>4, <2>1, <2>2, <2>3 DEF Top
<1>12. Family(h, O)'
  <2>1. \A q \in Inner' : \A t \in DOMAIN children'[q] :
          /\ children'[q][t] \in Allocated'
          /\ parent'[children'[q][t]] = q
          /\ h[q] = h[children'[q][t]] + 1
    <3> SUFFICES ASSUME NEW q \in Inner', NEW t \in DOMAIN children'[q]
                 PROVE  /\ children'[q][t] \in Allocated'
                        /\ parent'[children'[q][t]] = q
                        /\ h[q] = h[children'[q][t]] + 1
      OBVIOUS
    <3>1. PICK r \in Inner : /\ t \in Held[r] /\ children'[q][t] = children[r][t] /\ children[r][t] # from
                             /\ (r = q \/ (r = from /\ q = dst))
      BY <1>9
    <3>2. PICK c : c = children[r][t]
      OBVIOUS
    <3>3. c \in Allocated /\ c \in Node /\ parent[c] = r /\ h[r] = h[c] + 1 /\ c # from
      BY <1>7, <3>1, <3>2
    <3>4. c \in Allocated' /\ h[q] = h[c] + 1
      BY <1>3, <1>4, <3>1, <3>3
    <3>5. parent'[c] = q
      <4>1. CASE r = from
        BY <1>6, <3>1, <3>2, <4>1, <1>4, <1>3
      <4>2. CASE r # from
        BY <1>6, <3>1, <3>3, <4>2
      <4> QED
        BY <4>1, <4>2
    <3> QED
      BY <3>1, <3>2, <3>4, <3>5
  <2>2. \A q \in Inner' : \A t, u \in DOMAIN children'[q] :
          children'[q][t] = children'[q][u] => t = u
    <3> SUFFICES ASSUME NEW q \in Inner', NEW t \in DOMAIN children'[q],
                        NEW u \in DOMAIN children'[q], children'[q][t] = children'[q][u]
                 PROVE  t = u
      OBVIOUS
    <3>1. PICK r \in Inner : t \in Held[r] /\ children'[q][t] = children[r][t]
      BY <1>9
    <3>2. PICK w \in Inner : u \in Held[w] /\ children'[q][u] = children[w][u]
      BY <1>9
    <3>3. children[r][t] = children[w][u]
      BY <3>1, <3>2, Zenon
    <3>4. parent[children[r][t]] = r /\ parent[children[w][u]] = w
      BY <1>7, <3>1, <3>2
    <3>5. r = w
      BY <3>3, <3>4, Zenon
    <3>6. u \in Held[r] /\ children[r][t] = children[r][u]
      BY <3>2, <3>3, <3>5, Zenon
    <3> QED
      BY ONLY <1>7, <3>1, <3>6
  <2>3. ASSUME NEW m \in Allocated', m # root
        PROVE  parent'[m] \in Inner' /\ \E t \in DOMAIN children'[parent'[m]] :
                                          children'[parent'[m]][t] = m
    <3>1. m \in Allocated /\ m # from /\ m \in Node
      BY <1>4, <2>3 DEF Basic
    <3>2. PICK t \in Held[parent[m]] : parent[m] \in Inner /\ children[parent[m]][t] = m
      BY <1>1, <1>2, <2>3, <3>1, OwnParent
    <3>3. PICK q : q = parent[m]
      OBVIOUS
    <3>4. ~(q = p /\ t = x)
      BY <1>3, <3>1, <3>2, <3>3
    <3>5. CASE q = from
      <4>1. dst \in Inner' /\ t \in DOMAIN children'[dst] /\ children'[dst][t] = m
        BY <1>5, <3>2, <3>3, <3>4, <3>5
      <4>2. parent'[m] = dst
        BY <1>6, <3>2, <3>3, <3>5
      <4> QED
        BY <4>1, <4>2
    <3>6. CASE q # from
      <4>1. q \in Inner' /\ t \in DOMAIN children'[q] /\ children'[q][t] = m
        BY <1>4, <1>5, <3>2, <3>3, <3>4, <3>6
      <4>2. parent'[m] = q
        BY <1>6, <3>1, <3>3, <3>6
      <4> QED
        BY <4>1, <4>2
    <3> QED
      BY <3>5, <3>6
  <2> QED
    BY ONLY <1>1, <1>3, <2>1, <2>2, <2>3 DEF Family
<1>13. dst \in Allocated' /\ p \in Allocated' /\ First(Held[p]) \subseteq First(Held'[p])
       /\ First(Held[dst]) \subseteq First(Held'[dst]) /\ Held'[p] # {}
  <2>1. \A y \in Held[dst], z \in Held[from] : y < z
    BY <1>3 DEF Neighbours, Precedes
  <2>2. Held[dst] \subseteq Int /\ Held[from] \subseteq Int /\ s \in Held[dst]
    <3>1. s \in First(Held[dst])
      BY <1>3, <1>7
    <3> QED
      BY <1>2, <3>1 DEF Basic, First
  <2>3. First(Held[dst]) \subseteq First(Held'[dst])
    BY <1>4, <2>1, <2>2 DEF First
  <2>4. x \notin First(Held[p])
    BY <1>2, <1>3 DEF First
  <2>5. First(Held[p]) \subseteq First(Held'[p]) /\ Held'[p] # {}
    BY <1>2, <1>3, <1>4, <2>4 DEF First
  <2> QED
    BY <1>2, <1>3, <1>4, <2>3, <2>5
<1>14. Exact(O)'
  <2> SUFFICES ASSUME NEW q \in Inner', NEW t \in DOMAIN children'[q]
               PROVE  t \in First(Held'[children'[q][t]])
    BY DEF Exact
  <2>1. PICK r \in Inner : t \in Held[r] /\ children'[q][t] = children[r][t] /\ children[r][t] # from
    BY <1>9
  <2>2. PICK c : c = children[r][t]
    OBVIOUS
  <2>3. c \in Node /\ t \in First(Held[c]) /\ c # from
    BY <1>7, <2>1, <2>2
  <2>4. t \in First(Held'[c])
    <3>1. CASE c \in {p, dst}
      BY <1>13, <2>3, <3>1
    <3>2. CASE c \notin {p, dst}
      BY <1>4, <2>3, <3>2
    <3> QED
      BY <3>1, <3>2
  <2> QED
    BY <2>1, <2>2, <2>4
<1>15. \A m, j \in Allocated \ {from} :
         m # j /\ h[m] = h[j] /\ Precedes(Held, m, j) => Precedes(Held', m, j)
  <2>1. PICK A, K, K1, T : A = Allocated /\ K = Held /\ K1 = Held' /\ T = Level(h, dst)
    OBVIOUS
  <2>2. Filled(A, K)
    BY <1>2, <1>3, <2>1, AllFilled
  <2>3. (\A j : j \in T <=> j \in A /\ h[j] = h[dst]) /\ Neighbours(T, K, dst, from)
    BY <1>3, <2>1 DEF Level
  <2>4. JoinKeys(A, K, K1, dst, from)
    <3>1. \A m \in Allocated \ {dst, from} : Held'[m] \subseteq Held[m]
      BY <1>4 DEF Basic
    <3> QED
      BY <1>4, <2>1, <3>1 DEF JoinKeys
  <2>5. \A m, j \in A \ {from} : m # j /\ h[m] = h[j] /\ Precedes(K, m, j) => Precedes(K1, m, j)
    BY ONLY <2>2, <2>3, <2>4, MergeOrder
  <2> QED
    BY <2>1, <2>5
<1>16. Levels(h)'
  <2>1. \A m, j \in Allocated' : m # j /\ h[m] = h[j] => Precedes(Held', m, j) \/ Precedes(Held', j, m)
    BY <1>2, <1>4, <1>15 DEF Levels, Layered
  <2> QED
    BY <2>1 DEF Levels, Layered
<1>17. Populated({p})'
  <2>1. ASSUME NEW m \in Allocated', m # root \/ m \in Inner'
        PROVE  Held'[m] # {} /\ (m = p \/ \E y, z \in Held'[m] : y # z)
    <3>1. m \in Allocated /\ m # from /\ m \in Node /\ (m # root \/ m \in Inner)
      BY <1>4, <2>1 DEF Basic
    <3>2. CASE m = p
      BY <1>13, <3>2
    <3>3. CASE m = dst
      <4>1. PICK y \in Held[dst], z \in Held[from] : y # z
        <5>1. Held[dst] # {} /\ Held[from] # {}
          BY <1>2, <1>3 DEF Populated
        <5> QED
          BY <1>3, <5>1
      <4> QED
        BY <1>4, <3>3, <4>1
    <3>4. CASE m \notin {p, dst}
      <4>1. Held'[m] = Held[m] /\ m # n
        BY <1>3, <1>4, <3>1, <3>4
      <4> QED
        BY <1>2, <3>1, <4>1 DEF Populated
    <3> QED
      BY <3>2, <3>3, <3>4
  <2> QED
    BY <1>3, <2>1 DEF Populated
<1>18. Chained'
  <2>1. p \notin Leaves
    BY <1>3 DEF Inner
  <2>2. CASE ~IsLeaf(dst)
    <3>1. from \notin Leaves /\ dst \notin Leaves
      BY <1>3, <2>2 DEF Leaves
    <3>2. Leaves' = Leaves
      BY <1>4, <3>1
    <3>3. \A m \in Leaves : Held'[m] = Held[m]
      BY <1>4, <2>1, <3>1 DEF Basic
    <3>4. \A m, j \in Leaves : m # j /\ Precedes(Held, m, j) => Precedes(Held', m, j)
      BY <3>3 DEF Precedes
    <3>5. Linked(Leaves, Held', nextLeaf, prevLeaf, leftmostLeaf, rightmostLeaf)
      BY <1>2, <3>4, LinksKept DEF Chained
    <3> QED
      BY <1>3, <2>2, <3>2, <3>5 DEF Merged, Unlinked, chain, Chained
  <2>3. CASE IsLeaf(dst)
    <3>1. PICK S, K, K1, nxt, prv, nxt1, prv1, first, last :
            /\ S = Leaves /\ K = Held /\ K1 = Held' /\ nxt = nextLeaf /\ prv = prevLeaf
            /\ nxt1 = nextLeaf' /\ prv1 = prevLeaf' /\ first = leftmostLeaf /\ last = rightmostLeaf
      OBVIOUS
    <3>2. \A m : m \in Leaves <=> m \in Level(h, dst)
      <4>1. h[dst] = 0
        BY <1>2, <1>3, <2>3 DEF Kinds
      <4> QED
        BY <1>2, <4>1 DEF Level, Kinds, Basic, Leaves
    <3>3. Neighbours(S, K, dst, from)
      BY <1>3, <3>1, <3>2 DEF Neighbours
    <3>4. Filled(S, K) /\ Null \notin S
      <4>1. Filled(Allocated, Held)
        BY <1>2, <1>3, AllFilled
      <4> QED
        BY <3>1, <4>1 DEF Filled, Basic
    <3>5. JoinKeys(S, K, K1, dst, from)
      <4>1. \A m \in Leaves \ {dst, from} : Held'[m] \subseteq Held[m]
        BY <1>4, <2>1 DEF Basic
      <4> QED
        BY <1>4, <3>1, <4>1 DEF JoinKeys
    <3>6. Linked(S, K, nxt, prv, first, last)
      BY <1>2, <3>1 DEF Chained
    <3>7. PICK R, final : R = Leaves' /\ final = rightmostLeaf'
      OBVIOUS
    <3>8. LinkedOut(S, R, dst, from, nxt, prv, last, nxt1, prv1, final)
      <4>1. \A m : m \in R <=> m \in S /\ m # from
        BY <1>4, <3>1, <3>7
      <4>2. /\ \A m \in R : /\ nxt1[m] = IF m = dst THEN nxt[from] ELSE nxt[m]
                            /\ prv1[m] = IF m = nxt[from] THEN dst ELSE prv[m]
            /\ final = IF last = from THEN dst ELSE last
        BY <2>3, <3>1, <3>7, <4>1 DEF Merged, Unlinked, Basic
      <4> QED
        BY <4>1, <4>2 DEF LinkedOut
    <3>9. Linked(R, K1, nxt1, prv1, first, final)
      BY ONLY <3>3, <3>4, <3>5, <3>6, <3>8, MergeLinks
    <3>11. Linked(Leaves', Held', nextLeaf', prevLeaf', leftmostLeaf', rightmostLeaf')
      BY <1>3, <3>1, <3>7, <3>9, Zenon
    <3> QED
      BY <3>11 DEF Chained
  <2> QED
    BY <2>2, <2>3
<1>19. StaleOK(h, O)'
  BY <1>1 DEF StaleOK
<1> QED
  BY <1>1, <1>10, <1>11, <1>12, <1>14, <1>16, <1>17, <1>18, <1>19 DEF Sound

LEMMA MergeStep ==
  ASSUME Basic, Basic', HeapOK, NEW h, NEW n, n = node, Sound(h, {}, {}, {n}), size' = size,
         NEW dst \in Allocated, NEW from \in Allocated, n \in {dst, from},
         from # dst, from # root, dst # root, h[from] = h[dst], IsLeaf(from) <=> IsLeaf(dst),
         NEW p, p = parent[n], p \in Inner, h[p] = h[dst] + 1, h[dst] \in Nat,
         NEW s \in Held[p], NEW x \in Held[p], children[p][s] = dst, children[p][x] = from, s < x,
         Neighbours(Level(h, dst), Held, dst, from), Merge(dst, from)
  PROVE  /\ Merged(h, n, p, dst, from, s, x) /\ pc' = "parent" /\ node' = p
         /\ Cardinality(Held[dst]) + Cardinality(Held[from]) =< Capacity(dst)
<1>1. PICK O : O = {}
  OBVIOUS
<1>2. /\ Kinds(h) /\ Family(h, O) /\ Exact(O)
      /\ from \in Node /\ dst \in Node /\ p \in Node /\ p # from /\ p # dst
      /\ Held[p] = DOMAIN children[p]
      /\ Held[from] = KeysOf(from) /\ Held[dst] = KeysOf(dst)
      /\ Held[from] \subseteq Int /\ Held[dst] \subseteq Int
  BY <1>1 DEF Sound, Basic
<1>3. PICK y \in First(KeysOf(from)) :
        /\ y \in DOMAIN children[p] /\ children[p][y] = from
        /\ MayJoin(KeysOf(dst), KeysOf(from), Capacity(dst))
        /\ data' = IF IsLeaf(dst) THEN Move(data, from, dst, KeysOf(from)) ELSE data
        /\ children' = [IF IsLeaf(dst) THEN children ELSE Move(children, from, dst, KeysOf(from))
                          EXCEPT ![p] = Without(@, {y})]
        /\ parent' = [Reparent(KeysOf(from), from, dst) EXCEPT ![from] = Null]
        /\ kind' = [kind EXCEPT ![from] = "free"]
        /\ IF IsLeaf(dst) THEN Unlink(dst, from) ELSE UNCHANGED <<chain, rightmostLeaf>>
        /\ node' = p /\ pc' = "parent"
        /\ UNCHANGED <<root, rootIsLeaf, leftmostLeaf, k, cont>>
  BY DEF Merge
<1>4. y = x
  BY <1>2, <1>3, ChildFacts
<1>5. Joins(p, dst, from, x)
  BY <1>2, <1>3, <1>4 DEF Joins
<1>6. Held[dst] \cap Held[from] = {}
  BY <1>2, <1>3 DEF MayJoin
<1>7. Joined(p, dst, from, x)
  BY <1>1, <1>2, <1>5, <1>6, MergeJoins
<1>8. Unlinked(dst, from)
  <2>1. CASE ~IsLeaf(dst)
    BY <1>3, <2>1 DEF Unlinked
  <2>2. CASE IsLeaf(dst)
    <3>1. nextLeaf \in [Node -> Pointer] /\ prevLeaf \in [Node -> Pointer]
      BY DEF HeapOK
    <3>2. /\ nextLeaf' = [nextLeaf EXCEPT ![dst] = nextLeaf[from], ![from] = Null]
          /\ prevLeaf' = [c \in Node |-> IF c = from THEN Null
                                         ELSE IF c = nextLeaf[from] THEN dst
                                         ELSE prevLeaf[c]]
          /\ rightmostLeaf' = IF rightmostLeaf = from THEN dst ELSE rightmostLeaf
      BY <1>3, <2>2 DEF Unlink
    <3>3. nextLeaf'[from] = Null /\ prevLeaf'[from] = Null
      BY <1>2, <3>1, <3>2
    <3>4. \A m \in Node \ {from} :
            /\ nextLeaf'[m] = IF m = dst THEN nextLeaf[from] ELSE nextLeaf[m]
            /\ prevLeaf'[m] = IF m = nextLeaf[from] THEN dst ELSE prevLeaf[m]
      BY <1>2, <3>1, <3>2
    <3> QED
      BY <2>2, <3>2, <3>3, <3>4 DEF Unlinked
  <2> QED
    BY <2>1, <2>2
<1>9. Cardinality(Held[dst]) + Cardinality(Held[from]) =< Capacity(dst)
  BY <1>2, <1>3 DEF MayJoin
<1> QED
  BY ONLY <1>9, <1>2, <1>3, <1>6, <1>7, <1>8, dst \in Allocated, from \in Allocated, n \in {dst, from},
     Sound(h, {}, {}, {n}), size' = size, p \in Inner, s \in Held[p], x \in Held[p],
     from # dst, from # root, dst # root, h[from] = h[dst], IsLeaf(from) <=> IsLeaf(dst),
     h[p] = h[dst] + 1, h[dst] \in Nat, children[p][s] = dst, children[p][x] = from, s < x,
     Neighbours(Level(h, dst), Held, dst, from) DEF Merged

LEMMA MergedShape ==
  ASSUME Basic, Basic', Counted, NEW h, NEW n, NEW p, NEW dst, NEW from, NEW s, NEW x,
         Merged(h, n, p, dst, from, s, x), pc' = "parent", node' = p, sib' = Null, it'.leaf \in Leaves'
  PROVE  Shape(h)' /\ Counted'
<1>1. Sound(h, {}, {}, {p})'
  BY JoinedSound
<1>2. Unplaced' = {} /\ Stale' = {} /\ Light' = {p}
  BY DEF Unplaced, Stale, Light
<1>3. /\ \A m : m \in Leaves' <=> m \in Leaves /\ m # from
      /\ \A m : m \in Inner' <=> m \in Inner /\ m # from
      /\ Held'[dst] = Held[dst] \cup Held[from]
      /\ \A m \in Node \ {dst, from, p} : Held'[m] = Held[m]
      /\ p \in Inner /\ p # from /\ p # dst /\ size' = size
      /\ (IsLeaf(from) <=> IsLeaf(dst)) /\ from # dst /\ from \in Node /\ dst \in Node
  BY DEF Merged, Joined, Basic
<1>4. Erasing' /\ Known'
  BY <1>3 DEF Erasing, Known, Basic
<1>5. Running(h)'
  BY <1>4 DEF Running, Searching, Promoting, Fixing, Resting
<1>6. Elements' = Elements
  <2>1. \A y : y \in Elements <=> \E m \in Leaves : y \in Held[m]
    BY DEF Elements, Basic, Leaves
  <2>2. \A y : y \in Elements' <=> \E m \in Leaves' : y \in Held'[m]
    BY DEF Elements, Basic, Leaves
  <2>3. p \notin Leaves /\ (from \in Leaves <=> dst \in Leaves)
    BY <1>3 DEF Basic, Leaves
  <2>4. \A m \in Leaves : m \in Node
    BY DEF Basic
  <2>5. ASSUME NEW y, NEW m \in Leaves, y \in Held[m] PROVE \E j \in Leaves' : y \in Held'[j]
    BY <1>3, <2>3, <2>4, <2>5
  <2>6. ASSUME NEW y, NEW m \in Leaves', y \in Held'[m] PROVE \E j \in Leaves : y \in Held[j]
    BY <1>3, <2>3, <2>4, <2>6
  <2> QED
    BY <2>1, <2>2, <2>5, <2>6
<1>7. Counted'
  BY <1>3, <1>6 DEF Counted
<1>8. Shape(h)'
  BY <1>1, <1>2, <1>5 DEF Shape
<1> QED
  BY <1>7, <1>8

\* A merged node has the entries of a sibling that had enough, and the parent loses one.
LEMMA MergedSized ==
  ASSUME Sized, Basic, NEW h, NEW n, NEW p, NEW dst, NEW from, NEW s, NEW x,
         Merged(h, n, p, dst, from, s, x), n = node, pc = "underflow", pc' = "parent", node' = p,
         Cardinality(Held[dst]) + Cardinality(Held[from]) =< Capacity(dst)
  PROVE  Sized'
<1>1. Light = {n} /\ Light' = {p}
  BY DEF Light
<1>2. /\ dst \in Allocated /\ from \in Allocated /\ p \in Allocated /\ p \notin {dst, from}
      /\ dst # from /\ dst # root /\ from # root /\ n \in {dst, from}
      /\ (IsLeaf(from) <=> IsLeaf(dst)) /\ Held[dst] \cap Held[from] = {} /\ x \in Held[p]
      /\ Held'[dst] = Held[dst] \cup Held[from] /\ Held'[p] = Held[p] \ {x}
      /\ \A m : m \in Allocated' <=> m \in Allocated /\ m # from
      /\ \A m \in Node \ {dst, from, p} : Held'[m] = Held[m]
      /\ root' = root /\ \A m \in Node \ {from} : IsLeaf(m)' <=> IsLeaf(m)
  BY DEF Merged, Joined, Basic, IsLeaf
<1>3. /\ IsFiniteSet(Held[dst]) /\ IsFiniteSet(Held[from]) /\ IsFiniteSet(Held[p])
      /\ dst \in Node /\ from \in Node /\ p \in Node
  BY <1>2 DEF Basic
<1>4. PICK a, b, c \in Nat :
        a = Cardinality(Held[dst]) /\ b = Cardinality(Held[from]) /\ c = Cardinality(Held[p])
  BY <1>3, FS_CardinalityType
<1>5. Cardinality(Held'[dst]) = a + b
  <2>1. PICK S, T : S = Held[dst] /\ T = Held[from] /\ S \cap T = {} /\ Held'[dst] = S \cup T
    BY <1>2
  <2>2. Cardinality(S \cup T) = Cardinality(S) + Cardinality(T) - Cardinality(S \cap T)
    BY ONLY <1>3, <2>1, FS_Union
  <2>3. Cardinality(S \cap T) = 0
    BY <2>1, FS_EmptySet
  <2> QED
    BY ONLY <1>4, <2>1, <2>2, <2>3
<1>6. Cardinality(Held'[p]) = c - 1
  <2>1. Cardinality(Held[p] \ {x}) = Cardinality(Held[p]) - 1
    BY ONLY <1>2, <1>3, FS_RemoveElement
  <2> QED
    BY <1>2, <1>4, <2>1
<1>7. PICK u, w \in Nat, v, y \in Nat :
        /\ u = UnderflowThreshold(dst) /\ v = Capacity(dst)
        /\ w = UnderflowThreshold(p) /\ y = Capacity(p)
  BY Thresholds, SizeAssumption DEF Capacity
<1>8. UnderflowThreshold(from) = u
  BY <1>2, <1>7 DEF UnderflowThreshold, MinSize, Hysteresis, Capacity
<1>9. /\ UnderflowThreshold(dst)' = u /\ Capacity(dst)' = v
      /\ UnderflowThreshold(p)' = w /\ Capacity(p)' = y
  <2>1. (IsLeaf(dst)' <=> IsLeaf(dst)) /\ (IsLeaf(p)' <=> IsLeaf(p))
    BY <1>2, <1>3
  <2> QED
    BY <1>7, <2>1, SameSizes
<1>10. a >= u \/ b >= u
  BY <1>1, <1>2, <1>4, <1>7, <1>8, EnoughKeys
<1>11. c =< y /\ (p = root \/ c >= w)
  BY <1>1, <1>2, <1>4, <1>7 DEF Sized, WellFilled
<1>12. WellFilled(dst)'
  <2>1. a + b >= u /\ a + b =< v
    BY <1>4, <1>7, <1>10
  <2> QED
    BY ONLY <1>5, <1>9, <2>1 DEF WellFilled
<1>13. WellFilled(p)'
  <2>1. c - 1 =< y /\ (p = root' \/ (c - 1) + 1 >= w)
    BY <1>2, <1>7, <1>11
  <2>2. p \in Light'
    BY <1>1
  <2> QED
    BY ONLY <1>6, <1>9, <2>1, <2>2 DEF WellFilled
<1>14. PICK T : T = {dst, p}
  OBVIOUS
<1>15. \A j \in Allocated' \ T :
         /\ j \in Allocated /\ (IsLeaf(j)' <=> IsLeaf(j)) /\ Held'[j] = Held[j]
         /\ j = root => j = root'
         /\ j \in Light => j \in Light'
  BY <1>1, <1>2, <1>14 DEF Basic
<1>16. \A j \in T : j \in Allocated' => WellFilled(j)'
  BY <1>12, <1>13, <1>14
<1>17. pc' = "promote" => (Cardinality(Held[node]) >= UnderflowThreshold(node))'
  OBVIOUS
<1> QED
  BY ONLY <1>15, <1>16, <1>17, SizesKept, Sized

LEMMA MergeWithLeftShape ==
  ASSUME IInv, IInv', NEW h, Shape(h), Counted, MergeWithLeft
  PROVE  Shape(h)' /\ Counted' /\ KeepsSizes
<1>1. PICK n, p, s :
        /\ n = node /\ p = parent[n] /\ Basic /\ HeapOK /\ Sound(h, {}, {}, {n})
        /\ n \in Allocated /\ n # root /\ p \in Inner /\ p # n
        /\ s \in Held[p] /\ children[p][s] = n /\ s \in First(Held[n]) /\ s \in Int
        /\ h[p] = h[n] + 1 /\ h[n] \in Nat
        /\ it.leaf \in Leaves /\ sib = Null /\ pc = "underflow"
        /\ OwnSlot(n) = {s}
        /\ Cardinality(KeysOf(n)) < UnderflowThreshold(n)
  <2>1. Underflow
    BY DEF MergeWithLeft, MustMerge
  <2> QED
    BY <2>1, UnderflowStart, Zenon
<1>2. Basic'
  BY HeldBasicNext
<1>3. PICK m \in LeftSibling(n) :
        /\ Merge(m, n)
        /\ it'.leaf = IF IsLeaf(n) THEN m ELSE it.leaf
        /\ size' = size /\ sib' = Null
  BY <1>1 DEF MergeWithLeft, MustMerge, Underflow, Track
<1>4. PICK t \in Held[p] :
        /\ IsSibling(h, n, p, m, t) /\ t < s
        /\ Neighbours(Level(h, m), Held, m, n)
  BY <1>1, <1>3, SiblingsOf
<1>5. /\ m \in Allocated /\ m # n /\ m # root /\ h[m] = h[n] /\ (IsLeaf(m) <=> IsLeaf(n))
      /\ children[p][t] = m /\ n \in {m, n} /\ n \in {n, m} /\ h[p] = h[m] + 1 /\ h[m] \in Nat
  BY <1>1, <1>4 DEF IsSibling
<1>6. /\ Merged(h, n, p, m, n, t, s) /\ pc' = "parent" /\ node' = p
      /\ Cardinality(Held[m]) + Cardinality(Held[n]) =< Capacity(m)
  BY ONLY <1>1, <1>2, <1>3, <1>4, <1>5, MergeStep
<1>7. it'.leaf \in Leaves'
  <2>1. \A j : j \in Leaves' <=> j \in Leaves /\ j # n
    BY <1>6 DEF Merged, Joined
  <2> QED
    BY <1>1, <1>3, <1>5, <2>1 DEF Leaves, Basic
<1>8. Shape(h)' /\ Counted'
  BY <1>1, <1>2, <1>3, <1>6, <1>7, MergedShape
<1>9. KeepsSizes
  <2>1. Sized => Sized'
    BY ONLY <1>1, <1>6, MergedSized
  <2> QED
    BY <2>1 DEF KeepsSizes
<1> QED
  BY <1>8, <1>9

LEMMA MergeWithRightShape ==
  ASSUME IInv, IInv', NEW h, Shape(h), Counted, MergeWithRight
  PROVE  Shape(h)' /\ Counted' /\ KeepsSizes
<1>1. PICK n, p, s :
        /\ n = node /\ p = parent[n] /\ Basic /\ HeapOK /\ Sound(h, {}, {}, {n})
        /\ n \in Allocated /\ n # root /\ p \in Inner /\ p # n
        /\ s \in Held[p] /\ children[p][s] = n /\ s \in First(Held[n]) /\ s \in Int
        /\ h[p] = h[n] + 1 /\ h[n] \in Nat
        /\ it.leaf \in Leaves /\ sib = Null /\ pc = "underflow"
        /\ OwnSlot(n) = {s}
        /\ Cardinality(KeysOf(n)) < UnderflowThreshold(n)
  <2>1. Underflow
    BY DEF MergeWithRight, MustMerge
  <2> QED
    BY <2>1, UnderflowStart, Zenon
<1>2. Basic'
  BY HeldBasicNext
<1>3. PICK m \in RightSibling(n) :
        /\ Merge(n, m)
        /\ it'.leaf = IF IsLeaf(n) THEN n ELSE it.leaf
        /\ size' = size /\ sib' = Null
  BY <1>1 DEF MergeWithRight, MustMerge, Underflow, Track
<1>4. PICK t \in Held[p] :
        /\ IsSibling(h, n, p, m, t) /\ s < t
        /\ Neighbours(Level(h, n), Held, n, m)
  BY <1>1, <1>3, SiblingsOf
<1>5. /\ m \in Allocated /\ m # n /\ m # root /\ h[m] = h[n] /\ (IsLeaf(m) <=> IsLeaf(n))
      /\ children[p][t] = m /\ n \in {m, n} /\ n \in {n, m} /\ h[p] = h[m] + 1 /\ h[m] \in Nat
  BY <1>1, <1>4 DEF IsSibling
<1>6. /\ Merged(h, n, p, n, m, s, t) /\ pc' = "parent" /\ node' = p
      /\ Cardinality(Held[n]) + Cardinality(Held[m]) =< Capacity(n)
  BY ONLY <1>1, <1>2, <1>3, <1>4, <1>5, MergeStep
<1>7. it'.leaf \in Leaves'
  <2>1. \A j : j \in Leaves' <=> j \in Leaves /\ j # m
    BY <1>6 DEF Merged, Joined
  <2> QED
    BY <1>1, <1>3, <1>5, <2>1 DEF Leaves, Basic
<1>8. Shape(h)' /\ Counted'
  BY <1>1, <1>2, <1>3, <1>6, <1>7, MergedShape
<1>9. KeepsSizes
  <2>1. Sized => Sized'
    BY ONLY <1>1, <1>6, MergedSized
  <2> QED
    BY <2>1 DEF KeepsSizes
<1> QED
  BY <1>8, <1>9

----------------------------------------------------------------------------
(* The root's only child becomes the root. *)

LEMMA CollapseRootShape ==
  ASSUME IInv, IInv', NEW h, Shape(h), Counted, CollapseRoot
  PROVE  Shape(h)' /\ Counted' /\ KeepsSizes
<1>1. PICK r : r = root /\ r = node
  BY DEF CollapseRoot, ParentIsRoot
<1>2. /\ Basic /\ Basic' /\ HeapOK /\ Sound(h, {}, {}, {r}) /\ r \in Inner
      /\ it.leaf \in Leaves /\ sib = Null
  BY <1>1, HeldBasic, HeldBasicNext, Parts
    DEF IInv, CollapseRoot, AfterMerge, Shape, Running, Erasing, Unplaced, Stale, Light
<1>3. PICK heir \in Kids(r) :
        /\ root' = heir /\ parent' = [parent EXCEPT ![heir] = Null]
        /\ rootIsLeaf' = (kind[r] = "low")
        /\ kind' = [kind EXCEPT ![r] = "free"]
        /\ children' = [children EXCEPT ![r] = Empty]
        /\ Size(children[r]) = 1
        /\ pc' = "next" /\ node' = Null /\ it' = it /\ sib' = sib
        /\ UNCHANGED <<size, leftmostLeaf, rightmostLeaf, data, chain>>
  BY <1>1 DEF CollapseRoot, BecomesRoot, AfterMerge
<1>4. PICK O : O = {}
  OBVIOUS
<1>5. /\ Kinds(h) /\ Top(h) /\ Family(h, O) /\ Exact(O) /\ Levels(h) /\ Populated({r}) /\ Chained
      /\ r \in Node /\ r \in Allocated /\ Held[r] = DOMAIN children[r]
  BY <1>2, <1>4 DEF Sound, Basic
<1>6. PICK t \in Held[r] : heir = children[r][t] /\ Held[r] = {t}
  <2>1. PICK u \in Held[r] : heir = children[r][u]
    BY <1>3, <1>5 DEF Kids
  <2>2. IsFiniteSet(Held[r]) /\ Cardinality(Held[r]) = 1
    BY <1>2, <1>3, <1>5 DEF Size, Basic
  <2>3. Held[r] = {u}
    <3>1. IsFiniteSet({u}) /\ Cardinality({u}) = 1
      BY FS_Singleton
    <3>2. {u} \subseteq Held[r]
      OBVIOUS
    <3> QED
      BY <2>2, <3>1, <3>2, FS_Subset
  <2> QED
    BY <2>1, <2>3
<1>7. /\ heir \in Allocated /\ heir \in Node /\ heir # r /\ parent[heir] = r
      /\ h[r] = h[heir] + 1 /\ h[heir] \in Nat
  <2>1. /\ heir \in Allocated /\ heir \in Node /\ parent[heir] = r
        /\ h[r] = h[heir] + 1 /\ h[heir] \in Nat
    BY <1>2, <1>5, <1>6, ChildFacts DEF Basic, Kinds
  <2> QED
    BY <2>1
<1>8. /\ kind'[r] = "free" /\ \A m \in Node \ {r} : kind'[m] = kind[m]
      /\ parent'[heir] = Null /\ \A m \in Node \ {heir} : parent'[m] = parent[m]
      /\ DOMAIN children'[r] = {} /\ \A m \in Node \ {r} : children'[m] = children[m]
  <2>1. /\ kind \in [Node -> {"free", "leaf", "low", "high"}]
        /\ parent \in [Node -> Pointer] /\ children = [m \in Node |-> children[m]]
    BY <1>2 DEF HeapOK, Maps
  <2>2. children'[r] = Empty
    BY <1>3, <1>5, <2>1
  <2> QED
    BY <1>3, <1>5, <1>7, <2>1, <2>2 DEF Empty
<1>9. /\ \A m : m \in Allocated' <=> m \in Allocated /\ m # r
      /\ Leaves' = Leaves
      /\ \A m : m \in Inner' <=> m \in Inner /\ m # r
      /\ \A m \in Node \ {r} : IsLeaf(m)' <=> IsLeaf(m)
  <2>1. r \notin Leaves
    BY <1>2 DEF Basic
  <2>2. \A m \in Node \ {r} : IsLeaf(m)' <=> IsLeaf(m)
    BY <1>8 DEF IsLeaf
  <2>3. ~IsLeaf(r)' /\ ~IsLeaf(r)
    BY <1>5, <1>8, <2>1 DEF IsLeaf, Leaves
  <2>4. Leaves' = Leaves
    BY <2>2, <2>3 DEF Leaves
  <2>5. \A m : m \in Allocated' <=> m \in Allocated /\ m # r
    BY <1>8 DEF Allocated
  <2> QED
    BY <2>2, <2>4, <2>5 DEF Inner
<1>10. \A m \in Node \ {r} : Held'[m] = Held[m]
  BY <1>3, <1>8, <1>9 DEF Held, KeysOf
<1>11. \A m \in Allocated \ {r} : h[m] =< h[heir] /\ h[m] \in Nat
  <2>1. \A m \in Allocated \ {r} : h[m] < h[r]
    BY <1>1, <1>2, <1>4, <1>5, RootAlone
  <2>2. \A m \in Allocated : h[m] \in Nat
    BY <1>2, <1>5 DEF Kinds, Basic
  <2> QED
    BY <1>7, <2>1, <2>2
<1>12. Kinds(h)' /\ Top(h)'
  <2>1. \A m \in Allocated' : (IsLeaf(m)' <=> h[m] = 0) /\ (kind'[m] = "low" <=> h[m] = 1)
    BY <1>2, <1>5, <1>8, <1>9 DEF Kinds, Basic
  <2>2. \A m \in Node : IsLeaf(m)' \/ DOMAIN data'[m] = {}
    BY <1>2, <1>3, <1>5, <1>9 DEF Kinds, Basic, Leaves
  <2>3. \A m \in Node : m \in Inner' \/ DOMAIN children'[m] = {}
    BY <1>5, <1>8, <1>9 DEF Kinds
  <2>4. \A m \in Node \ Allocated' : parent'[m] = Null
    BY <1>1, <1>5, <1>7, <1>8, <1>9 DEF Kinds, Top
  <2>5. Kinds(h)'
    BY <1>3, <1>5, <1>9, <2>1, <2>2, <2>3, <2>4 DEF Kinds, chain
  <2>6. rootIsLeaf' = IsLeaf(root)'
    <3>1. kind[r] = "low" <=> h[r] = 1
      BY <1>5 DEF Kinds
    <3>2. IsLeaf(heir)' <=> h[heir] = 0
      BY <1>7, <1>9, <2>1
    <3>3. rootIsLeaf' \in BOOLEAN /\ IsLeaf(heir)' \in BOOLEAN
      BY <1>3 DEF IsLeaf
    <3>7. h[r] = 1 <=> h[heir] = 0
      BY <1>7
    <3>8. rootIsLeaf' <=> kind[r] = "low"
      BY <1>3, Zenon
    <3>4. rootIsLeaf' <=> IsLeaf(heir)'
      BY <3>1, <3>2, <3>7, <3>8, Zenon
    <3>5. rootIsLeaf' = IsLeaf(heir)'
      BY <3>3, <3>4
    <3>6. IsLeaf(root)' = IsLeaf(heir)'
      BY <1>3 DEF IsLeaf
    <3> QED
      BY <3>5, <3>6
  <2>7. Top(h)'
    BY <1>3, <1>7, <1>8, <1>9, <1>11, <2>6 DEF Top
  <2> QED
    BY <2>5, <2>7
<1>13. \A q \in Inner' : \A u \in DOMAIN children'[q] :
         /\ q \in Inner /\ q \in Node /\ q # r /\ u \in Held[q] /\ children'[q][u] = children[q][u]
         /\ children[q][u] \in Allocated /\ parent[children[q][u]] = q
         /\ children[q][u] \in Node /\ children[q][u] # r /\ children[q][u] # heir
         /\ h[q] = h[children[q][u]] + 1
  <2> SUFFICES ASSUME NEW q \in Inner', NEW u \in DOMAIN children'[q]
               PROVE  /\ q \in Inner /\ q \in Node /\ q # r /\ u \in Held[q]
                      /\ children'[q][u] = children[q][u]
                      /\ children[q][u] \in Allocated /\ parent[children[q][u]] = q
                      /\ children[q][u] \in Node /\ children[q][u] # r /\ children[q][u] # heir
                      /\ h[q] = h[children[q][u]] + 1
    OBVIOUS
  <2>1. q \in Inner /\ q # r /\ q \in Node
    BY <1>2, <1>9 DEF Basic
  <2>2. u \in Held[q] /\ children'[q][u] = children[q][u]
    BY <1>2, <1>8, <2>1 DEF Basic
  <2>3. PICK c : c = children[q][u]
    OBVIOUS
  <2>4. c \in Allocated /\ parent[c] = q /\ h[q] = h[c] + 1
    BY <1>2, <1>5, <2>1, <2>2, <2>3, ChildFacts
  <2>5. c \in Node /\ c # heir /\ c # r
    BY <1>1, <1>2, <1>5, <1>7, <2>1, <2>2, <2>3, <2>4, RootHasNoSlot DEF Basic
  <2> QED
    BY <2>1, <2>2, <2>3, <2>4, <2>5
<1>14. Family(h, O)'
  <2>1. \A q \in Inner' : \A u \in DOMAIN children'[q] :
          /\ children'[q][u] \in Allocated'
          /\ parent'[children'[q][u]] = q
          /\ h[q] = h[children'[q][u]] + 1
    BY <1>8, <1>9, <1>13
  <2>2. \A q \in Inner' : \A u, v \in DOMAIN children'[q] :
          children'[q][u] = children'[q][v] => u = v
    <3>1. \A q \in Inner : \A u, v \in Held[q] : children[q][u] = children[q][v] => u = v
      BY <1>2, <1>5, ChildFacts
    <3> QED
      BY <1>13, <3>1
  <2>3. ASSUME NEW m \in Allocated', m # heir
        PROVE  parent'[m] \in Inner' /\ \E u \in DOMAIN children'[parent'[m]] :
                                          children'[parent'[m]][u] = m
    <3>1. m \in Allocated /\ m # r /\ m \in Node /\ parent'[m] = parent[m]
      BY <1>2, <1>8, <1>9, <2>3 DEF Basic
    <3>2. PICK u \in Held[parent[m]] : parent[m] \in Inner /\ children[parent[m]][u] = m
      BY <1>1, <1>2, <1>4, <1>5, <3>1, OwnParent
    <3>3. parent[m] # r
      BY <1>6, <2>3, <3>2
    <3>4. /\ parent[m] \in Inner' /\ u \in DOMAIN children'[parent[m]]
          /\ children'[parent[m]][u] = m
      BY <1>2, <1>8, <1>9, <3>2, <3>3 DEF Basic
    <3> QED
      BY <3>1, <3>4
  <2> QED
    BY ONLY <1>3, <1>4, <2>1, <2>2, <2>3 DEF Family
<1>15. Exact(O)'
  <2>1. \A q \in Inner : \A u \in Held[q] : u \in First(Held[children[q][u]])
    BY <1>2, <1>4, <1>5 DEF Exact, Basic
  <2> QED
    BY <1>10, <1>13, <2>1 DEF Exact
<1>16. Levels(h)'
  <2>1. \A m \in Allocated' : m \in Allocated /\ Held'[m] = Held[m]
    BY <1>2, <1>9, <1>10 DEF Basic
  <2> QED
    BY <1>5, <2>1 DEF Levels, Layered, Precedes
<1>17. Chained'
  <2>1. \A m \in Leaves : Held'[m] = Held[m]
    BY <1>2, <1>10 DEF Basic
  <2>2. \A m, j \in Leaves : m # j /\ Precedes(Held, m, j) => Precedes(Held', m, j)
    BY <2>1 DEF Precedes
  <2>3. Linked(Leaves, Held', nextLeaf, prevLeaf, leftmostLeaf, rightmostLeaf)
    BY <1>5, <2>2, LinksKept DEF Chained
  <2> QED
    BY <1>3, <1>9, <2>3 DEF Chained, chain
<1>18. Populated(O)'
  <2>1. \A m \in Allocated' : m \in Allocated /\ m # r /\ Held'[m] = Held[m]
    BY <1>2, <1>9, <1>10 DEF Basic
  <2> QED
    BY <1>1, <1>5, <2>1 DEF Populated
<1>19. StaleOK(h, O)'
  BY <1>4 DEF StaleOK
<1>20. Sound(h, {}, {}, {})'
  BY <1>4, <1>12, <1>14, <1>15, <1>16, <1>17, <1>18, <1>19 DEF Sound
<1>21. Running(h)'
  <2>1. Erasing' /\ Known'
    BY <1>2, <1>3, <1>9 DEF Erasing, Known, Basic
  <2> QED
    BY <1>3, <2>1 DEF Running, Searching, Promoting, Fixing, Resting
<1>22. Shape(h)'
  BY <1>3, <1>20, <1>21, SettledNext
<1>23. Counted'
  <2>1. Elements' = Elements
    BY <1>3, <1>9 DEF Elements, Leaves
  <2> QED
    BY <1>3, <2>1 DEF Counted
<1>24. KeepsSizes
  <2>1. Light = {r}
    BY <1>1 DEF Light, CollapseRoot, AfterMerge
  <2>2. PICK T : T = {}
    OBVIOUS
  <2>3. \A m \in Allocated' \ T :
          /\ m \in Allocated /\ (IsLeaf(m)' <=> IsLeaf(m)) /\ Held'[m] = Held[m]
          /\ m = root => m = root'
          /\ m \in Light => m \in Light'
    BY <1>1, <1>2, <1>9, <1>10, <2>1 DEF Basic
  <2>4. \A m \in T : m \in Allocated' => WellFilled(m)'
    BY <2>2
  <2>5. pc' = "promote" => (Cardinality(Held[node]) >= UnderflowThreshold(node))'
    BY <1>3
  <2>6. Sized => Sized'
    BY ONLY <2>3, <2>4, <2>5, SizesKept
  <2> QED
    BY <2>6 DEF KeepsSizes
<1> QED
  BY <1>22, <1>23, <1>24

----------------------------------------------------------------------------
(* clear() of a tree with internal nodes. *)

\* A node at every height.
LEMMA EveryHeight ==
  ASSUME Basic, NEW h, NEW O, NEW Z, Sound(h, O, Z, {}), NEW i \in Nat, i =< h[root]
  PROVE  \E n \in Allocated : h[n] + i = h[root]
<1> DEFINE T == {j \in Nat : j =< h[root] => \E n \in Allocated : h[n] + j = h[root]}
<1>1. root \in Allocated /\ (\A n \in Allocated : h[n] \in Nat)
  BY DEF Sound, Kinds, Top, Basic
<1>2. 0 \in T
  BY <1>1
<1>3. ASSUME NEW j \in Nat, j \in T PROVE j + 1 \in T
  <2> SUFFICES ASSUME j + 1 =< h[root] PROVE \E n \in Allocated : h[n] + (j + 1) = h[root]
    OBVIOUS
  <2>1. PICK n \in Allocated : h[n] + j = h[root]
    BY <1>1, <1>3
  <2>2. h[n] # 0
    BY <1>1, <2>1
  <2>3. n \in Inner
    BY <2>1, <2>2 DEF Sound, Kinds, Inner, Leaves
  <2>4. PICK s : s \in Held[n]
    BY <2>1, <2>3 DEF Sound, Populated
  <2>5. children[n][s] \in Allocated /\ h[n] = h[children[n][s]] + 1
    BY <2>3, <2>4, ChildFacts DEF Sound
  <2>6. h[children[n][s]] + (j + 1) = h[root]
    BY <1>1, <2>1, <2>5
  <2> QED
    BY <2>5, <2>6
<1> HIDE DEF T
<1>4. Nat \subseteq T
  BY <1>2, <1>3, SetInduction
<1> QED
  BY <1>4 DEF T

\* So the tree is lower than it has nodes.
LEMMA HeightBound ==
  ASSUME Basic, NEW h, NEW O, NEW Z, Sound(h, O, Z, {})
  PROVE  h[root] < Cardinality(Node)
<1> DEFINE at(i) == {n \in Allocated : h[n] + i = h[root]}
           f == [i \in 0 .. h[root] |-> CHOOSE n \in Node : n \in at(i)]
<1>1. /\ root \in Allocated /\ h[root] \in Nat /\ Allocated \subseteq Node
      /\ \A n \in Allocated : h[n] \in Nat
  BY DEF Sound, Kinds, Top, Basic
<1>2. ASSUME NEW i \in 0 .. h[root]
      PROVE  f[i] \in Allocated /\ h[f[i]] + i = h[root]
  <2>1. PICK n \in Allocated : h[n] + i = h[root]
    BY <1>1, EveryHeight
  <2>2. n \in Node /\ n \in at(i)
    BY <1>1, <2>1
  <2>3. f[i] \in at(i)
    BY <2>2
  <2> QED
    BY <2>3
<1>3. f \in [0 .. h[root] -> Node]
  BY <1>1, <1>2
<1>4. \A i, j \in 0 .. h[root] : f[i] = f[j] => i = j
  <2> SUFFICES ASSUME NEW i \in 0 .. h[root], NEW j \in 0 .. h[root], f[i] = f[j] PROVE i = j
    OBVIOUS
  <2> HIDE DEF f
  <2> QED
    BY <1>1, <1>2
<1>5. f \in Injection(0 .. h[root], Node)
  BY <1>3, <1>4, Zenon DEF Injection, IsInjective
<1>6. Cardinality(0 .. h[root]) =< Cardinality(Node)
  BY <1>5, FS_Injection, NodeAssumption
<1>7. Cardinality(0 .. h[root]) = h[root] + 1
  BY <1>1, FS_Interval
<1>8. Cardinality(Node) \in Nat
  BY NodeAssumption, FS_CardinalityType
<1> QED
  BY <1>1, <1>6, <1>7, <1>8

\* deallocate_internal_subtree of the root frees every node.
LEMMA SubtreeOfRoot ==
  ASSUME Basic, NEW h, Sound(h, {}, {}, {})
  PROVE  Subtree(root) = Allocated
<1> DEFINE g == CHOOSE g : g = [i \in Nat |-> IF i = 0 THEN {root}
                                             ELSE UNION {Kids(m) : m \in g[i - 1]}]
           at(i) == {n \in Allocated : h[n] + i = h[root]}
           C == [i \in Nat |-> at(i)]
<1>1. Subtree(root) = {m \in Node : \E i \in 0 .. Cardinality(Node) : m \in g[i]}
  BY Zenon DEF Subtree
<1>2. /\ root \in Allocated /\ h[root] \in Nat /\ Allocated \subseteq Node
      /\ \A n \in Allocated : h[n] \in Nat /\ h[n] =< h[root]
  BY DEF Sound, Kinds, Top, Basic
<1>3. at(0) = {root}
  <2>1. \A n \in Allocated \ {root} : h[n] < h[root]
    BY RootAlone DEF Sound
  <2> QED
    BY <1>2, <2>1
<1>4. ASSUME NEW i \in Nat, i # 0
      PROVE  at(i) = UNION {Kids(m) : m \in at(i - 1)}
  <2>1. ASSUME NEW n \in at(i) PROVE \E m \in at(i - 1) : n \in Kids(m)
    <3>1. n \in Allocated /\ h[n] + i = h[root] /\ n # root
      BY <1>2, <1>4
    <3>2. PICK s \in Held[parent[n]] :
            parent[n] \in Inner /\ children[parent[n]][s] = n /\ h[parent[n]] = h[n] + 1
      BY <3>1, OwnParent DEF Sound
    <3>3. parent[n] \in Allocated /\ n \in Kids(parent[n])
      BY <3>2 DEF Kids, Basic
    <3>4. h[parent[n]] + (i - 1) = h[root]
      BY <1>2, <3>1, <3>2
    <3> QED
      BY <3>3, <3>4
  <2>2. ASSUME NEW m \in at(i - 1), NEW n \in Kids(m) PROVE n \in at(i)
    <3>1. PICK s \in DOMAIN children[m] : n = children[m][s]
      BY DEF Kids
    <3>2. m \in Inner
      BY <1>2, <3>1 DEF Sound, Kinds
    <3>3. n \in Allocated /\ h[m] = h[n] + 1
      BY <3>1, <3>2, ChildFacts DEF Sound, Basic
    <3>4. h[n] + i = h[root]
      BY <1>2, <3>3
    <3> QED
      BY <3>3, <3>4
  <2> QED
    BY <2>1, <2>2
<1>5. C = [i \in Nat |-> IF i = 0 THEN {root} ELSE UNION {Kids(m) : m \in C[i - 1]}]
  <2> SUFFICES ASSUME NEW i \in Nat
               PROVE  C[i] = IF i = 0 THEN {root} ELSE UNION {Kids(m) : m \in C[i - 1]}
    OBVIOUS
  <2> HIDE DEF at
  <2>1. CASE i = 0
    BY <1>3, <2>1
  <2>2. CASE i # 0
    <3>1. i - 1 \in Nat
      BY <2>2
    <3>2. C[i - 1] = at(i - 1) /\ C[i] = at(i)
      BY <3>1
    <3> QED
      BY <1>4, <2>2, <3>2
  <2> QED
    BY <2>1, <2>2
<1>6. g = [i \in Nat |-> IF i = 0 THEN {root} ELSE UNION {Kids(m) : m \in g[i - 1]}]
  BY <1>5
<1> HIDE DEF g
<1> DEFINE T == {i \in Nat : g[i] = C[i]}
<1>7. 0 \in T
  BY <1>5, <1>6
<1>8. ASSUME NEW i \in Nat, i \in T PROVE i + 1 \in T
  <2> HIDE DEF C
  <2>1. i + 1 \in Nat /\ i + 1 # 0 /\ (i + 1) - 1 = i /\ g[i] = C[i]
    BY <1>8
  <2>2. g[i + 1] = UNION {Kids(m) : m \in g[(i + 1) - 1]}
    BY <1>6, <2>1
  <2>3. C[i + 1] = UNION {Kids(m) : m \in C[(i + 1) - 1]}
    BY <1>5, <2>1
  <2> QED
    BY <2>1, <2>2, <2>3
<1>9. Nat \subseteq T
  <2> HIDE DEF T
  <2> QED
    BY <1>7, <1>8, SetInduction
<1>10. \A i \in Nat : g[i] = at(i)
  BY <1>9
<1>11. Cardinality(Node) \in Nat /\ h[root] < Cardinality(Node)
  BY NodeAssumption, FS_CardinalityType, HeightBound
<1>12. ASSUME NEW n \in Allocated
       PROVE  \E i \in 0 .. Cardinality(Node) : n \in g[i]
  <2>1. PICK i \in Nat : h[n] + i = h[root]
    <3>1. h[root] - h[n] \in Nat /\ h[n] + (h[root] - h[n]) = h[root]
      BY <1>2
    <3> QED
      BY <3>1
  <2>2. i \in 0 .. Cardinality(Node)
    BY <1>2, <1>11, <2>1
  <2> QED
    BY <1>10, <2>1, <2>2
<1>13. \A i \in 0 .. Cardinality(Node) : g[i] \subseteq Allocated
  BY <1>10, <1>11
<1> QED
  BY <1>1, <1>2, <1>12, <1>13

\* A root leaf without elements, and nothing else.
Bare ==
  /\ root \in Node /\ rootIsLeaf = TRUE /\ leftmostLeaf = root /\ rightmostLeaf = root
  /\ \A n \in Node : kind[n] = IF n = root THEN "leaf" ELSE "free"
  /\ \A n \in Node : DOMAIN data[n] = {} /\ DOMAIN children[n] = {}
  /\ \A n \in Node : nextLeaf[n] = Null /\ prevLeaf[n] = Null /\ parent[n] = Null

LEMMA BareTree == Bare => Elements = {} /\ Sound([n \in Node |-> 0], {}, {}, {})
<1> SUFFICES ASSUME Bare PROVE Elements = {} /\ Sound([n \in Node |-> 0], {}, {}, {})
  OBVIOUS
<1>0. PICK h : h = [n \in Node |-> 0]
  OBVIOUS
<1>1. Allocated = {root} /\ Leaves = {root} /\ Inner = {} /\ IsLeaf(root)
  BY DEF Bare, Allocated, Leaves, Inner, IsLeaf
<1>2. Elements = {}
  BY DEF Bare, Elements
<1>3. Kinds(h) /\ Top(h)
  BY <1>0, <1>1 DEF Kinds, Top, Bare
<1>4. Family(h, {}) /\ Exact({}) /\ Levels(h) /\ Populated({}) /\ StaleOK(h, {})
  BY <1>1 DEF Family, Exact, Levels, Layered, Populated, StaleOK
<1>5. Chained
  BY <1>1 DEF Chained, Linked, Bare
<1> QED
  BY <1>0, <1>2, <1>3, <1>4, <1>5 DEF Sound

LEMMA BareTreeNext == (Bare => Elements = {} /\ Sound([n \in Node |-> 0], {}, {}, {}))'
BY BareTree, PTL

LEMMA BareSized == Bare /\ pc # "promote" => Sized
<1> SUFFICES ASSUME Bare, pc # "promote", NEW n \in Allocated PROVE WellFilled(n)
  BY DEF Sized
<1>1. n = root /\ n \in Node /\ Held[n] = {}
  BY DEF Bare, Allocated, Held, KeysOf
<1>2. Cardinality(Held[n]) = 0 /\ Capacity(n) \in Nat
  BY <1>1, FS_EmptySet, SizeAssumption DEF Capacity
<1> QED
  BY <1>1, <1>2 DEF WellFilled

LEMMA BareSizedNext == (Bare /\ pc # "promote" => Sized)'
BY BareSized, PTL

\* deallocate_internal_subtree, then a new empty root leaf.
LEMMA ClearTreeShape ==
  ASSUME IInv, IInv', NEW h, Shape(h), Counted, ClearTree
  PROVE  \E g \in [Node -> Nat] : Shape(g)' /\ Counted' /\ KeepsSizes
<1>1. pc = "start" /\ pc' = "answer" /\ size' = 0 /\ it' = EndIt /\ UNCHANGED args
  BY DEF ClearTree, Clear, Start
<1>2. Sound(h, {}, {}, {}) /\ Basic /\ HeapOK
  BY <1>1, Settled, HeldBasic, Parts DEF IInv
<1>3. PICK gone : gone = Allocated
  OBVIOUS
<1>4. Subtree(root) = gone
  BY <1>2, <1>3, SubtreeOfRoot
<1>5. PICK new \in OneOf(Free \cup gone) :
        /\ kind' = [[n \in Node |-> IF n \in gone THEN "free" ELSE kind[n]] EXCEPT ![new] = "leaf"]
        /\ EmptyLeafRoot(new)
        /\ data' = [n \in Node |-> IF n \in gone THEN Empty ELSE data[n]]
        /\ children' = [n \in Node |-> IF n \in gone THEN Empty ELSE children[n]]
        /\ nextLeaf' = [n \in Node |-> IF n \in gone THEN Null ELSE nextLeaf[n]]
        /\ prevLeaf' = [n \in Node |-> IF n \in gone THEN Null ELSE prevLeaf[n]]
        /\ parent' = [n \in Node |-> IF n \in gone THEN Null ELSE parent[n]]
  BY <1>4 DEF ClearTree
<1>6. new \in Node
  BY <1>2, <1>3 DEF OneOf, Free, Basic
<1>7. \A n \in Node : n \notin gone => kind[n] = "free" /\ ~IsLeaf(n) /\ n \notin Inner /\ n \notin Leaves
  BY <1>2, <1>3 DEF Allocated, IsLeaf, Basic
<1>8. \A n \in Node : kind'[n] = IF n = new THEN "leaf" ELSE "free"
  BY <1>5, <1>6, <1>7
<1>9. \A n \in Node : DOMAIN data'[n] = {} /\ DOMAIN children'[n] = {}
  <2> TAKE n \in Node
  <2>1. CASE n \in gone
    BY <1>5, <2>1 DEF Empty
  <2>2. CASE n \notin gone
    BY <1>2, <1>5, <1>7, <2>2 DEF Sound, Kinds
  <2> QED
    BY <2>1, <2>2
<1>10. \A n \in Node : nextLeaf'[n] = Null /\ prevLeaf'[n] = Null /\ parent'[n] = Null
  <2> TAKE n \in Node
  <2>1. CASE n \in gone
    BY <1>5, <2>1
  <2>2. CASE n \notin gone
    BY <1>2, <1>3, <1>5, <1>7, <2>2 DEF Sound, Kinds
  <2> QED
    BY <2>1, <2>2
<1>11. Bare'
  <2>1. root' = new /\ leftmostLeaf' = new /\ rightmostLeaf' = new /\ rootIsLeaf' = TRUE
    BY <1>5 DEF EmptyLeafRoot
  <2> QED
    BY <1>6, <1>8, <1>9, <1>10, <2>1 DEF Bare
<1>12. PICK g : g = [n \in Node |-> 0]
  OBVIOUS
<1>13. Elements' = {} /\ Sound(g, {}, {}, {})'
  BY ONLY <1>11, <1>12, BareTreeNext, Zenon
<1>14. Counted'
  BY <1>1, <1>13, FS_EmptySet DEF Counted
<1>15. node' = Null /\ sib' = Null
  BY <1>1 DEF Shape, Running, Resting, args
<1>16. Running(g)'
  BY <1>1, <1>15
     DEF Running, Searching, Promoting, Fixing, Erasing, Resting, Known, EndIt
<1>17. Shape(g)'
  BY <1>1, <1>13, <1>16, SettledNext
<1>18. KeepsSizes
  BY <1>1, <1>11, BareSizedNext DEF KeepsSizes
<1> QED
  BY <1>12, <1>14, <1>17, <1>18

----------------------------------------------------------------------------
(* Every step keeps the shape. *)

\* The empty tree has it.
LEMMA InitShape == Init => SInv
<1> SUFFICES ASSUME Init PROVE SInv
  OBVIOUS
<1>1. IInv
  BY InitTypes
<1>2. Bare
  BY NodeAssumption DEF Init, Bare, Empty
<1>3. PICK g : g = [n \in Node |-> 0]
  OBVIOUS
<1>4. Elements = {} /\ Sound(g, {}, {}, {})
  BY ONLY <1>2, <1>3, BareTree, Zenon
<1>5. Counted
  BY <1>4, FS_EmptySet DEF Init, Counted
<1>6. Running(g)
  BY DEF Init, Running, Searching, Promoting, Fixing, Erasing, Resting, Known, EndIt
<1>7. Unplaced = {} /\ Stale = {} /\ Light = {}
  BY DEF Init, Unplaced, Stale, Light
<1>8. Shape(g)
  BY <1>4, <1>6, <1>7 DEF Shape
<1> QED
  BY <1>1, <1>3, <1>5, <1>8 DEF SInv

\* A step that changes nothing keeps it.
LEMMA StutterShape ==
  ASSUME NEW h, Shape(h), Counted, UNCHANGED vars
  PROVE  Shape(h)' /\ Counted'
<1>1. UNCHANGED shapeVars /\ UNCHANGED <<heap, size>> /\ UNCHANGED <<pc, args, it>>
  BY DEF vars, tree, shapeVars, heap, chain
<1>2. Unplaced' = Unplaced /\ Stale' = Stale /\ Light' = Light
  BY <1>1 DEF Unplaced, Stale, Light, args
<1>3. PICK O, Z, L : O = Unplaced /\ Z = Stale /\ L = Light
  OBVIOUS
<1>4. Sound(h, O, Z, L)'
  BY <1>1, <1>3, SameTree DEF Shape
<1>5. Counted'
  BY <1>1, SameElements
<1>6. /\ Held' = Held /\ Allocated' = Allocated /\ Leaves' = Leaves /\ Inner' = Inner
      /\ \A n : IsLeaf(n)' <=> IsLeaf(n)
  BY <1>1, SameNodes
<1>7. Searching(h)' /\ Promoting(h)'
  BY <1>1, <1>6
     DEF Shape, Running, Searching, Promoting, Covers, Level, SlotsHeld, Exact, args, shapeVars,
         heap
<1>8. Fixing' /\ Erasing' /\ Resting' /\ Known'
  BY <1>1, <1>6
     DEF Shape, Running, Fixing, Erasing, Resting, Known, args, shapeVars, heap
<1> QED
  BY <1>2, <1>3, <1>4, <1>5, <1>7, <1>8 DEF Shape, Running

\* So does every step of the code, if need be with other heights.
LEMMA RunShape ==
  ASSUME IInv, IInv', NEW h \in [Node -> Nat], Shape(h), Counted, Run
  PROVE  \E g \in [Node -> Nat] : Shape(g)' /\ Counted'
<1>1. CASE StartOnEmpty \/ StartSearch \/ ClearLeaf \/ Descend \/ Lookup
  BY <1>1, StartOnEmptyShape, StartSearchShape, ClearLeafShape, DescendShape, LookupShape
<1>2. CASE ClearTree
  BY <1>2, ClearTreeShape
<1>3. CASE InsertExisting \/ InsertRoom
  BY <1>3, InsertExistingShape, InsertRoomShape
<1>4. CASE SplitLeaf
  BY <1>4, SplitLeafShape
<1>5. CASE PromoteNewRoot
  BY <1>5, PromoteNewRootShape
<1>6. CASE PromoteSplit
  BY <1>6, PromoteSplitShape
<1>7. CASE PromoteRoom \/ FixSeparator \/ UpdateLeftmost
  BY <1>7, PromoteRoomShape, FixSeparatorShape, UpdateLeftmostShape
<1>8. CASE EraseFromRoot \/ EraseFromLeaf
  BY <1>8, EraseFromRootShape, EraseFromLeafShape
<1>9. CASE BorrowFromLeft \/ BorrowFromRight \/ MergeWithLeft \/ MergeWithRight
  BY <1>9, BorrowFromLeftShape, BorrowFromRightShape, MergeWithLeftShape, MergeWithRightShape
<1>10. CASE ParentUnderflows \/ CollapseRoot \/ ParentStands
  BY <1>10, ParentUnderflowsShape, CollapseRootShape, ParentStandsShape
<1>11. CASE NextElement \/ RangeErase \/ RangeFindLast \/ RangeEnd \/ Answer \/ Finish
  BY <1>11, NextElementShape, RangeEraseShape, RangeFindLastShape, RangeEndShape,
     AnswerShape, FinishShape
<1> QED
  BY <1>1, <1>2, <1>3, <1>4, <1>5, <1>6, <1>7, <1>8, <1>9, <1>10, <1>11 DEF Run

LEMMA NextShape == SInv /\ [Next]_vars => SInv'
<1> SUFFICES ASSUME SInv, [Next]_vars PROVE SInv'
  OBVIOUS
<1>1. IInv /\ Counted
  BY DEF SInv
<1>2. PICK h \in [Node -> Nat] : Shape(h)
  BY DEF SInv
<1>3. IInv'
  BY <1>1, LoadStep, ClientStep, RunTypes, StutterTypes DEF Next, Finished
<1>4. CASE Run
  BY <1>1, <1>2, <1>3, <1>4, RunShape DEF SInv
<1>5. CASE Load
  BY <1>1, <1>2, <1>3, <1>5, LoadShape DEF SInv
<1>6. CASE Client
  BY <1>1, <1>2, <1>3, <1>6, ClientShape DEF SInv
<1>7. CASE Finished \/ UNCHANGED vars
  <2>1. UNCHANGED vars
    BY <1>7 DEF Finished
  <2> QED
    BY <1>1, <1>2, <1>3, <2>1, StutterShape DEF SInv
<1> QED
  BY <1>4, <1>5, <1>6, <1>7 DEF Next

LEMMA ShapeHolds == Spec => []SInv
BY InitShape, NextShape, PTL DEF Spec

\* Steps between changes of the tree, and those up the parents after a merge.
LEMMA StandingSized ==
  ASSUME Sized, NEW h, Shape(h),
         \/ StartOnEmpty \/ StartSearch \/ Descend \/ Lookup \/ UpdateLeftmost
         \/ ParentUnderflows \/ ParentStands
         \/ NextElement \/ RangeErase \/ RangeFindLast \/ RangeEnd
         \/ Answer \/ Finish \/ Load \/ Client
  PROVE  Sized'
<1>1. CASE \/ StartOnEmpty \/ StartSearch \/ Descend \/ Lookup \/ UpdateLeftmost
           \/ NextElement \/ RangeErase \/ RangeFindLast \/ RangeEnd
           \/ Answer \/ Finish \/ Load \/ Client
  <2>1. UNCHANGED <<root, heap>> /\ pc' # "promote" /\ pc \notin {"underflow", "parent", "fix"}
    <3>1. CASE StartOnEmpty \/ StartSearch \/ Descend \/ UpdateLeftmost
      BY <3>1 DEF StartOnEmpty, StartSearch, Start, FindLeaf, Descend, UpdateLeftmost, tree
    <3>2. CASE Lookup
      BY <3>2 DEF Lookup, AtLeaf, tree
    <3>3. CASE NextElement \/ RangeErase \/ RangeFindLast \/ RangeEnd
      BY <3>3 DEF NextElement, RangeErase, RangeFindLast, RangeEnd, EraseRange, EraseReturns,
                  FindLeaf, tree
    <3>4. CASE Answer \/ Finish \/ Load \/ Client
      BY <3>4 DEF Answer, Finish, Load, Client, Invoke, tree
    <3> QED
      BY <1>1, <3>1, <3>2, <3>3, <3>4
  <2>2. Light = {}
    BY <2>1 DEF Light
  <2> QED
    BY <2>1, <2>2, SizesStand
<1>2. CASE ParentUnderflows \/ ParentStands
  <2>1. /\ UNCHANGED <<root, heap>> /\ pc' # "promote" /\ Light = {node} /\ node \in Inner
        /\ (pc' = "underflow" /\ node' = node) \/ ParentStands
    BY <1>2 DEF ParentUnderflows, ParentStands, AfterMerge, Light, heap, chain,
                Shape, Running, Erasing
  <2>2. CASE pc' = "underflow" /\ node' = node
    <3>1. Light' = {node}
      BY <2>2 DEF Light
    <3> QED
      BY <2>1, <3>1, SizesStand
  <2>3. CASE ParentStands
    <3>1. node = root \/ Size(children[node]) >= UnderflowThreshold(node)
      BY <2>3 DEF ParentStands, ParentIsRoot
    <3>2. Size(children[node]) = Cardinality(Held[node])
      BY <2>1 DEF Size, Held, KeysOf, Inner, Allocated, Leaves
    <3> QED
      BY <2>1, <3>1, <3>2, SizesStand
  <2> QED
    BY <2>1, <2>2, <2>3
<1> QED
  BY <1>1, <1>2

\* Every step keeps the sizes.
LEMMA NextSized == SInv /\ SInv' /\ SplitsBalance /\ Sized /\ [Next]_vars => Sized'
<1> SUFFICES ASSUME SInv, SInv', SplitsBalance, Sized, [Next]_vars PROVE Sized'
  OBVIOUS
<1>1. IInv /\ IInv' /\ Counted
  BY DEF SInv
<1>2. PICK h \in [Node -> Nat] : Shape(h)
  BY DEF SInv
<1>3. CASE ClearLeaf \/ ClearTree
  <2>1. KeepsSizes
    BY <1>1, <1>2, <1>3, ClearLeafShape, ClearTreeShape
  <2> QED
    BY <2>1 DEF KeepsSizes
<1>4. CASE InsertExisting \/ InsertRoom \/ SplitLeaf
  <2>1. KeepsSizes
    BY <1>1, <1>2, <1>4, InsertExistingShape, InsertRoomShape, SplitLeafShape
  <2> QED
    BY <2>1 DEF KeepsSizes
<1>5. CASE PromoteNewRoot \/ PromoteRoom \/ PromoteSplit \/ FixSeparator
  <2>1. KeepsSizes
    BY <1>1, <1>2, <1>5, PromoteNewRootShape, PromoteRoomShape, PromoteSplitShape,
       FixSeparatorShape
  <2> QED
    BY <2>1 DEF KeepsSizes
<1>6. CASE EraseFromRoot \/ EraseFromLeaf
  <2>1. KeepsSizes
    BY <1>1, <1>2, <1>6, EraseFromRootShape, EraseFromLeafShape
  <2> QED
    BY <2>1 DEF KeepsSizes
<1>7. CASE BorrowFromLeft \/ BorrowFromRight \/ MergeWithLeft \/ MergeWithRight \/ CollapseRoot
  <2>1. KeepsSizes
    BY <1>1, <1>2, <1>7, BorrowFromLeftShape, BorrowFromRightShape, MergeWithLeftShape,
       MergeWithRightShape, CollapseRootShape
  <2> QED
    BY <2>1 DEF KeepsSizes
<1>8. CASE \/ StartOnEmpty \/ StartSearch \/ Descend \/ Lookup \/ UpdateLeftmost
           \/ ParentUnderflows \/ ParentStands
           \/ NextElement \/ RangeErase \/ RangeFindLast \/ RangeEnd
           \/ Answer \/ Finish \/ Load \/ Client
  BY <1>2, <1>8, StandingSized
<1>9. CASE Finished \/ UNCHANGED vars
  <2>1. UNCHANGED <<root, heap, pc, node, cont, it>>
    BY <1>9 DEF Finished, vars, tree, args
  <2>2. Held' = Held /\ Allocated' = Allocated /\ \A m : IsLeaf(m)' <=> IsLeaf(m)
    BY <2>1 DEF Held, KeysOf, Allocated, IsLeaf, heap
  <2>3. Light' = Light
    BY <2>1 DEF Light
  <2>4. \A m : Capacity(m)' = Capacity(m) /\ UnderflowThreshold(m)' = UnderflowThreshold(m)
    BY <2>2, SameSizes
  <2> QED
    BY <2>1, <2>2, <2>3, <2>4 DEF Sized, WellFilled
<1> QED
  BY <1>3, <1>4, <1>5, <1>6, <1>7, <1>8, <1>9 DEF Next, Run

LEMMA SizesHold == SplitsBalance => (Spec => []Sized)
<1>1. Init => Sized
  <2>1. Init => Bare /\ pc # "promote"
    BY NodeAssumption DEF Init, Bare, Empty
  <2> QED
    BY <2>1, BareSized
<1> SUFFICES ASSUME SplitsBalance PROVE Spec => []Sized
  OBVIOUS
<1>2. SInv /\ SInv' /\ Sized /\ [Next]_vars => Sized'
  BY NextSized
<1> QED
  BY <1>1, <1>2, ShapeHolds, PTL DEF Spec

----------------------------------------------------------------------------
(* The theorems. *)

LEMMA ShapeDangles == SInv => NoDanglingPointer
<1> SUFFICES ASSUME SInv PROVE NoDanglingPointer
  OBVIOUS
<1>1. PICK h : Shape(h)
  BY DEF SInv
<1>2. PICK O, Z, L : O = Unplaced /\ Sound(h, O, Z, L)
  BY <1>1 DEF Shape
<1>3. Basic
  BY HeldBasic DEF SInv
<1>4. root \in Allocated /\ leftmostLeaf \in Leaves /\ rightmostLeaf \in Leaves
  BY <1>2 DEF Sound, Top, Chained, Linked
<1>5. ASSUME NEW n \in Allocated
      PROVE  /\ nextLeaf[n] \in Allocated \cup {Null} /\ prevLeaf[n] \in Allocated \cup {Null}
             /\ parent[n] \in Allocated \cup {Null} /\ Kids(n) \subseteq Allocated
  <2>1. nextLeaf[n] \in Leaves \cup {Null} /\ prevLeaf[n] \in Leaves \cup {Null}
    <3>1. CASE n \in Leaves
      BY <1>2, <3>1 DEF Sound, Chained, Linked, Neighbours
    <3>2. CASE n \notin Leaves
      BY <1>2, <1>3, <3>2 DEF Sound, Kinds, Basic
    <3> QED
      BY <3>1, <3>2
  <2>2. parent[n] \in Inner \cup {Null}
    BY <1>2 DEF Sound, Top, Family
  <2>3. Kids(n) \subseteq Allocated
    <3>1. CASE n \in Inner
      BY <1>2, <3>1 DEF Sound, Family, Kids
    <3>2. CASE n \notin Inner
      BY <1>2, <1>3, <3>2 DEF Sound, Kinds, Basic, Kids
    <3> QED
      BY <3>1, <3>2
  <2> QED
    BY <1>3, <2>1, <2>2, <2>3 DEF Basic
<1>6. {node, sib, it.leaf} \subseteq Allocated \cup {Null}
  BY <1>1 DEF Shape, Running, Known
<1> QED
  BY <1>3, <1>4, <1>5, <1>6 DEF NoDanglingPointer, Basic

\* At any step of any call, nothing points at a node that has been freed: not the tree,
\* not a node, not an argument of the running function.
THEOREM NothingDangles == Spec => []NoDanglingPointer
BY ShapeHolds, ShapeDangles, PTL

\* Between calls every node has its place.
LEMMA RestIsSound ==
  ASSUME SInv, AtRest
  PROVE  Basic /\ \E h \in [Node -> Nat] : Sound(h, {}, {}, {})
<1>1. PICK h \in [Node -> Nat] : Shape(h)
  BY DEF SInv
<1>2. Sound(h, {}, {}, {})
  BY <1>1, Settled DEF AtRest
<1> QED
  BY <1>2, HeldBasic DEF SInv

LEMMA ShapeParents == SInv => ParentsAgree
<1> SUFFICES ASSUME SInv, AtRest
             PROVE  /\ rootIsLeaf = IsLeaf(root) /\ parent[root] = Null
                    /\ \A n \in Allocated \ {root} :
                         /\ parent[n] \in Inner
                         /\ Cardinality({s \in DOMAIN children[parent[n]] :
                                           children[parent[n]][s] = n}) = 1
                    /\ \A p \in Inner : \A n \in Kids(p) :
                         parent[n] = p /\ (kind[p] = "low" <=> IsLeaf(n))
  BY DEF ParentsAgree
<1>1. PICK h \in [Node -> Nat] : Basic /\ Sound(h, {}, {}, {})
  BY RestIsSound
<1>2. rootIsLeaf = IsLeaf(root) /\ parent[root] = Null
  BY <1>1 DEF Sound, Top
<1>3. ASSUME NEW n \in Allocated \ {root}
      PROVE  /\ parent[n] \in Inner
             /\ Cardinality({s \in DOMAIN children[parent[n]] :
                               children[parent[n]][s] = n}) = 1
  <2> DEFINE S == {s \in DOMAIN children[parent[n]] : children[parent[n]][s] = n}
  <2>1. PICK s \in Held[parent[n]] : parent[n] \in Inner /\ children[parent[n]][s] = n
    BY <1>1, <1>3, OwnParent DEF Sound
  <2>2. S = {s}
    BY <1>1, <2>1, ChildFacts DEF Sound, Basic
  <2> QED
    BY <2>1, <2>2, FS_Singleton
<1>4. ASSUME NEW p \in Inner, NEW n \in Kids(p)
      PROVE  parent[n] = p /\ (kind[p] = "low" <=> IsLeaf(n))
  <2>1. PICK s \in Held[p] : n = children[p][s]
    BY <1>1 DEF Kids, Basic
  <2>2. n \in Allocated /\ parent[n] = p /\ h[p] = h[n] + 1
    BY <1>1, <2>1, ChildFacts DEF Sound
  <2>3. h[n] \in Nat /\ (IsLeaf(n) <=> h[n] = 0) /\ (kind[p] = "low" <=> h[p] = 1)
    BY <1>1, <2>2 DEF Sound, Kinds, Basic
  <2> QED
    BY <2>2, <2>3
<1> QED
  BY <1>2, <1>3, <1>4

\* Between calls the parent pointers and the children agree, no node has two places in
\* the tree and none is lost, and the cached kinds are right.
THEOREM ParentsAndChildren == Spec => []ParentsAgree
BY ShapeHolds, ShapeParents, PTL

LEMMA ShapeSeparators == SInv => SeparatorsExact
<1> SUFFICES ASSUME SInv, AtRest, NEW p \in Inner, NEW s \in DOMAIN children[p]
             PROVE  /\ s \in First(KeysOf(children[p][s]))
                    /\ \A t \in Above(DOMAIN children[p], s), x \in KeysOf(children[p][s]) :
                         x < t
  BY DEF SeparatorsExact
<1>1. PICK h \in [Node -> Nat] : Basic /\ Sound(h, {}, {}, {})
  BY RestIsSound
<1>2. s \in Held[p] /\ DOMAIN children[p] = Held[p] /\ Held[p] \subseteq Int
  BY <1>1 DEF Basic
<1>3. \A t \in Held[p] :
        /\ children[p][t] \in Allocated /\ children[p][t] \in Node
        /\ KeysOf(children[p][t]) = Held[children[p][t]]
        /\ t \in First(Held[children[p][t]])
  BY <1>1, ChildFacts DEF Sound, Exact, Basic
<1>4. ASSUME NEW t \in Held[p], t > s, NEW x \in Held[children[p][s]]
      PROVE  x < t
  <2>1. PICK c, d : c = children[p][s] /\ d = children[p][t]
    OBVIOUS
  <2>2. h[c] = h[d] /\ c # d
    <3>1. h[p] = h[c] + 1 /\ h[p] = h[d] + 1
      BY <1>1, <1>2, <2>1, ChildFacts DEF Sound
    <3>2. h[c] \in Nat /\ h[d] \in Nat
      BY <1>1, <1>2, <1>3, <2>1
    <3>3. c # d
      BY <1>1, <1>2, <1>4, <2>1, ChildFacts DEF Sound
    <3> QED
      BY <3>1, <3>2, <3>3
  <2>3. s \in Held[c] /\ t \in Held[d] /\ x \in Held[c] /\ s < t
    BY <1>2, <1>3, <1>4, <2>1 DEF First
  <2>4. Held[c] \subseteq Int /\ Held[d] \subseteq Int
    BY <1>1, <1>2, <1>3, <2>1 DEF Basic
  <2>5. Precedes(Held, c, d) \/ Precedes(Held, d, c)
    BY <1>1, <1>2, <1>3, <2>1, <2>2 DEF Sound, Levels, Layered
  <2> QED
    BY <2>3, <2>4, <2>5 DEF Precedes
<1> QED
  BY <1>2, <1>3, <1>4 DEF Above

\* Between calls a separator is the smallest key of its child, and the child's keys end
\* before the next one.
THEOREM SeparatorsAreExact == Spec => []SeparatorsExact
BY ShapeHolds, ShapeSeparators, PTL

LEMMA ShapeChain == SInv => LeafChain
<1> SUFFICES ASSUME SInv PROVE LeafChain
  OBVIOUS
<1>1. PICK h : Shape(h)
  BY DEF SInv
<1>2. PICK O, Z, L : O = Unplaced /\ Sound(h, O, Z, L)
  BY <1>1 DEF Shape
<1>3. Basic
  BY HeldBasic DEF SInv
<1>4. Chained
  BY <1>2 DEF Sound
<1>5. /\ \A l \in Leaves : prevLeaf[l] = Null <=> l = leftmostLeaf
      /\ \A l \in Leaves : nextLeaf[l] = Null <=> l = rightmostLeaf
  BY <1>4 DEF Chained, Linked
<1>6. ASSUME NEW l \in Leaves, nextLeaf[l] # Null
      PROVE  /\ nextLeaf[l] \in Leaves
             /\ prevLeaf[nextLeaf[l]] = l
             /\ \A x \in DOMAIN data[l], y \in DOMAIN data[nextLeaf[l]] : x < y
  <2>1. PICK m : m = nextLeaf[l]
    OBVIOUS
  <2>2. Neighbours(Leaves, Held, l, m)
    BY <1>4, <1>6, <2>1 DEF Chained, Linked
  <2>3. m \in Leaves /\ l # m /\ Precedes(Held, l, m)
    BY <2>2 DEF Neighbours
  <2>4. Filled(Leaves, Held)
    <3>1. PICK p \in Leaves : p # root
      BY <2>3
    <3>2. ASSUME root \in Leaves PROVE Held[root] # {}
      <4>1. h[root] = 0 /\ (\A n \in Leaves : h[n] = 0 /\ n \in Allocated)
        BY <1>2, <1>3, <3>2 DEF Sound, Kinds, Basic, Leaves
      <4>2. ASSUME NEW n \in Leaves, n # root PROVE n \in O
        <5> SUFFICES ASSUME n \notin O PROVE FALSE
          OBVIOUS
        <5>1. parent[n] \in Allocated /\ h[parent[n]] = h[n] + 1
          BY <1>2, <1>3, <4>1, <4>2, OwnParent DEF Sound, Basic
        <5> QED
          BY <1>2, <4>1, <4>2, <5>1 DEF Sound, Top
      <4>3. pc = "promote" /\ O = {sib} /\ p = sib
        BY <1>2, <3>1, <4>2 DEF Unplaced
      <4>4. /\ node \in Allocated /\ h[sib] = h[node] /\ node # sib
            /\ Held[node] # {}
        BY <1>1, <4>3 DEF Shape, Running, Promoting, Neighbours
      <4>5. node \in Leaves
        BY <1>2, <1>3, <3>1, <4>1, <4>3, <4>4 DEF Sound, Kinds, Basic, Leaves
      <4>6. node = root
        BY <4>2, <4>3, <4>4, <4>5
      <4> QED
        BY <4>4, <4>6
    <3> QED
      BY <1>2, <1>3, <3>2 DEF Sound, Populated, Filled, Basic
  <2>5. Neighbours(Leaves, Held, prevLeaf[m], m)
    <3>1. prevLeaf[m] # Null
      <4> SUFFICES ASSUME prevLeaf[m] = Null PROVE FALSE
        OBVIOUS
      <4>1. Precedes(Held, m, l)
        BY <1>4, <2>3 DEF Chained, Linked
      <4> QED
        BY <2>3, <2>4, <4>1, OrderFacts
    <3> QED
      BY <1>4, <2>3, <3>1 DEF Chained, Linked
  <2>6. prevLeaf[m] = l
    BY <2>2, <2>4, <2>5, OneNeighbour
  <2>7. DOMAIN data[l] = Held[l] /\ DOMAIN data[m] = Held[m]
    BY <1>3, <2>3 DEF Basic
  <2> QED
    BY <2>1, <2>3, <2>6, <2>7 DEF Precedes
<1> QED
  BY <1>5, <1>6 DEF LeafChain

\* At any step of any call the leaves form one list in key order, the same both ways.
THEOREM LeavesChained == Spec => []LeafChain
BY ShapeHolds, ShapeChain, PTL

\* At any step of any call size_ is the number of elements.
THEOREM SizeCounts == Spec => []SizeExact
<1>1. SInv => SizeExact
  BY DEF SInv, Counted, SizeExact
<1> QED
  BY <1>1, ShapeHolds, PTL

LEMMA SizedOccupancy ==
  ASSUME SInv, Sized
  PROVE  Occupancy
<1> SUFFICES ASSUME AtRest PROVE Occupancy
  BY DEF Occupancy
<1>1. PICK h \in [Node -> Nat] : Basic /\ Sound(h, {}, {}, {})
  BY RestIsSound
<1>2. \A n \in Allocated : Held[n] = KeysOf(n)
  BY <1>1 DEF Basic
<1>3. Light = {}
  BY DEF AtRest, Light
<1>4. \A n \in Allocated : Cardinality(KeysOf(n)) =< Capacity(n)
  BY <1>2 DEF Sized, WellFilled
<1>5. \A n \in Allocated \ {root} : Cardinality(KeysOf(n)) >= UnderflowThreshold(n)
  BY <1>2, <1>3 DEF Sized, WellFilled
<1>6. ASSUME root \in Inner PROVE Size(children[root]) >= 2
  <2>1. /\ Held[root] = DOMAIN children[root] /\ IsFiniteSet(Held[root]) /\ root \in Allocated
    BY <1>1, <1>6 DEF Basic, Inner
  <2>2. PICK x, y \in Held[root] : x # y
    BY <1>1, <1>6, <2>1 DEF Sound, Populated
  <2>3. Cardinality(Held[root]) \in Nat
    BY <2>1, FS_CardinalityType
  <2>4. Cardinality(Held[root]) # 0 /\ Cardinality(Held[root]) # 1
    <3>1. Cardinality(Held[root]) = 1 => \E z : Held[root] = {z}
      BY <2>1, FS_Singleton
    <3>2. Cardinality(Held[root]) = 0 => Held[root] = {}
      BY <2>1, FS_EmptySet
    <3> QED
      BY <2>2, <3>1, <3>2
  <2> QED
    BY <2>1, <2>3, <2>4 DEF Size
<1> QED
  BY <1>4, <1>5, <1>6 DEF Occupancy

\* Between calls no node is overfull, none but the root is below the threshold at which
\* handle_underflow rebalances it, and the root has not been left with a single child.
\* Nodes of five entries are the exception: one splits into three and two, and when the new
\* entry joins the three, the two are below the threshold of three.  The library's
\* static_asserts ask for sizes of 8 and more (btree.hpp:154-160).
THEOREM NodesKeepTheirSizes == ASSUME SplitsBalance PROVE Spec => []Occupancy
BY SizesHold, SizedOccupancy, ShapeHolds, PTL

\* The next state's first leaf, whatever the step.
LEMMA LeftmostKept ==
  ASSUME SInv, Next, call.op # "clear"
  PROVE  leftmostLeaf' = leftmostLeaf
<1>1. IInv /\ Counted
  BY DEF SInv
<1>2. PICK h \in [Node -> Nat] : Shape(h)
  BY DEF SInv
<1>3. CASE Load \/ Client \/ Finished
  BY <1>3 DEF Load, Client, Finished, Invoke, vars, tree
<1>4. CASE StartOnEmpty \/ StartSearch \/ Descend \/ Lookup \/ InsertExisting
  BY <1>4 DEF StartOnEmpty, StartSearch, Descend, Lookup, InsertExisting, tree
<1>5. CASE ClearLeaf \/ ClearTree
  BY <1>5 DEF ClearLeaf, ClearTree, Clear
<1>6. CASE InsertRoom
  BY <1>6 DEF InsertRoom
<1>7. CASE SplitLeaf
  BY <1>7 DEF SplitLeaf
<1>8. CASE PromoteNewRoot \/ PromoteRoom \/ PromoteSplit
  BY <1>8 DEF PromoteNewRoot, PromoteRoom, PromoteSplit, Promote
<1>9. CASE FixSeparator
  BY <1>9 DEF FixSeparator, Fix, tree
<1>10. CASE UpdateLeftmost
  BY <1>1, <1>2, <1>10, UpdateLeftmostShape
<1>11. CASE EraseFromRoot \/ EraseFromLeaf
  BY <1>11 DEF EraseFromRoot, EraseFromLeaf, Erase
<1>12. CASE BorrowFromLeft \/ BorrowFromRight
  BY <1>12 DEF BorrowFromLeft, BorrowFromRight, Borrow, tree
<1>13. CASE MergeWithLeft \/ MergeWithRight
  BY <1>13 DEF MergeWithLeft, MergeWithRight, Merge
<1>14. CASE ParentUnderflows \/ CollapseRoot \/ ParentStands
  BY <1>14 DEF ParentUnderflows, CollapseRoot, ParentStands, AfterMerge
<1>15. CASE NextElement \/ RangeErase \/ RangeFindLast \/ RangeEnd
  BY <1>15 DEF NextElement, RangeErase, RangeFindLast, RangeEnd, EraseRange, tree
<1>16. CASE Answer \/ Finish
  BY <1>16 DEF Answer, Finish, tree
<1> QED
  BY <1>3, <1>4, <1>5, <1>6, <1>7, <1>8, <1>9, <1>10, <1>11, <1>12, <1>13, <1>14, <1>15, <1>16
     DEF Next, Run

\* No operation but clear moves the first leaf: the code at the end of
\* split_leaf_and_insert that looks for a new one never finds it.
THEOREM LeftmostNeverMoves == Spec => LeftmostStays
<1>1. SInv /\ [Next]_vars => [leftmostLeaf' # leftmostLeaf => call.op = "clear"]_vars
  BY LeftmostKept
<1> QED
  BY <1>1, ShapeHolds, PTL DEF Spec, LeftmostStays
=============================================================================
