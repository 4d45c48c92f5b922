-------------------------- MODULE BTreeOutOfMemory --------------------------
(***************************************************************************)
(* btree when an allocation, or the construction of a mapped value, throws *)
(* (btree.ipp).  Nothing in the code catches: the call unwinds, and the    *)
(* tree keeps what the call had done to it.  A split allocates its leaf    *)
(* before it changes anything, but its internal nodes and its value only   *)
(* after the leaf has been split and linked, so the right half is left in  *)
(* the list of leaves with no parent: an orphan.                           *)
(***************************************************************************)
EXTENDS BTree

CONSTANT Faults \* what may throw: "leaf", "inner" (allocations), "value"

ASSUME FaultAssumption == Faults \subseteq {"leaf", "inner", "value"}

VARIABLE failed \* a call has thrown

oomVars == <<vars, failed>>

\* A call of the client runs, not the range constructor (whose failure destroys
\* the tree); one failure is enough to see what a failure leaves.
MayThrow(fault) == fault \in Faults /\ callsLeft < MaxCalls /\ ~failed

\* The exception leaves the call.
Unwind ==
  /\ failed' = TRUE
  /\ pc' = "idle" /\ call' = NoCall /\ ret' = NoRet
  /\ node' = Null /\ k' = None /\ sib' = Null /\ cont' = "answer"
  /\ it' = EndIt /\ inNext' = FALSE /\ flag' = FALSE
  /\ UNCHANGED client

InsertsAtLeaf == pc = "leaf" /\ call.op \in Inserts /\ k \notin DOMAIN data[node]
LeafIsFull    == Size(data[node]) >= LeafNodeSize

\* get_value for a leaf with room, or the leaf a split needs: nothing is done yet.
ThrowEarly ==
  /\ InsertsAtLeaf
  /\ MayThrow(IF LeafIsFull THEN "leaf" ELSE "value")
  /\ Unwind
  /\ UNCHANGED <<tree, heap>>

\* Mutant: the element is counted before its value is there.
ThrowInSplit_Counted ==
  /\ InsertsAtLeaf /\ LeafIsFull /\ MayThrow("value")
  /\ LET hi == DOMAIN data[node] \ LowestN(DOMAIN data[node], (LeafNodeSize + 1) \div 2)
     IN  \E new \in OneOf(Free) :
           /\ kind' = [kind EXCEPT ![new] = "leaf"]
           /\ data' = Move(data, node, new, hi)
           /\ LinkAfter(node, new)
  /\ Unwind
  /\ size' = size + 1
  /\ UNCHANGED <<root, rootIsLeaf, leftmostLeaf, children, parent>>

\* get_value in split_leaf_and_insert: the leaf is split, its right half linked.
ThrowInSplit ==
  /\ InsertsAtLeaf /\ LeafIsFull /\ MayThrow("value")
  /\ LET hi == DOMAIN data[node] \ LowestN(DOMAIN data[node], (LeafNodeSize + 1) \div 2)
     IN  \E new \in OneOf(Free) :
           /\ kind' = [kind EXCEPT ![new] = "leaf"]
           /\ data' = Move(data, node, new, hi)
           /\ LinkAfter(node, new)
  /\ Unwind
  /\ UNCHANGED <<root, rootIsLeaf, size, leftmostLeaf, children, parent>>

ParentIsFull == parent[node] # Null /\ Size(children[parent[node]]) >= InternalNodeSize

\* Mutant: split_internal takes the right half away before it has a node for it.
ThrowInPromotion_AfterSplit ==
  /\ pc = "promote" /\ ParentIsFull /\ MayThrow("inner")
  /\ LET p == parent[node]
     IN  children' = [children EXCEPT
           ![p] = Only(@, LowestN(DOMAIN @, (InternalNodeSize + 1) \div 2))]
  /\ Unwind
  /\ UNCHANGED <<tree, kind, data, chain, parent>>

\* The new root, or the node split_internal needs: sib stays without a parent,
\* and the separator of a smaller first key is not updated either.
ThrowInPromotion ==
  /\ pc = "promote" /\ (parent[node] = Null \/ ParentIsFull) /\ MayThrow("inner")
  /\ Unwind
  /\ UNCHANGED <<tree, heap>>

\* The new root leaf of clear: the tree has been freed, and still points at it.
ThrowInClear ==
  /\ pc = "start" /\ call.op = "clear" /\ size # 0 /\ ~rootIsLeaf /\ MayThrow("leaf")
  /\ LET gone == Subtree(root)
         blank(f, v) == [n \in Node |-> IF n \in gone THEN v ELSE f[n]]
     IN  /\ data' = blank(data, Empty) /\ children' = blank(children, Empty)
         /\ nextLeaf' = blank(nextLeaf, Null) /\ prevLeaf' = blank(prevLeaf, Null)
         /\ parent' = blank(parent, Null) /\ kind' = blank(kind, "free")
  /\ Unwind
  /\ UNCHANGED tree

Throw == ThrowEarly \/ ThrowInSplit \/ ThrowInPromotion \/ ThrowInClear

\* After a failure the client only looks around, and not at a tree that clear has
\* left without a root.
CallAgain == Client /\ (failed => call'.op \in Lookups /\ root \in Allocated)

\* The client gives up.
Stopped == failed /\ pc = "idle" /\ UNCHANGED oomVars

OomInit == Init /\ failed = FALSE

OomNext ==
  \/ (Load \/ CallAgain \/ Run \/ Finished) /\ UNCHANGED failed
  \/ Throw \/ Stopped

OomSpec == OomInit /\ [][OomNext]_oomVars /\ WF_oomVars(Run \/ Throw)

----------------------------------------------------------------------------
\* The child of n find_leaf_for_key(x) goes to; a leaf stays.
ChildFor(n, x) ==
  LET S == DOMAIN children[n]
      slot == IF x \in S THEN {x} ELSE IF Floor(S, x) # {} THEN Floor(S, x) ELSE First(S)
  IN  IF IsLeaf(n) THEN n ELSE children[n][CHOOSE s \in slot : TRUE]

LeafFor(x) ==
  LET down[i \in Nat] == IF i = 0 THEN root ELSE ChildFor(down[i - 1], x)
  IN  down[Cardinality(Node)]

Orphans  == {n \in Allocated \ {root} : parent[n] = Null}
Orphaned == UNION {Subtree(o) : o \in Orphans}

\* Between calls, an element that is not below an orphan is where find looks for
\* it, and one failure makes one orphan: the damage of an insert that throws is
\* one half of one node, although every node on the path may have been split and
\* the separators were not brought up to date.
FindsAllButOrphans ==
  AtRest =>
    /\ Cardinality(Orphans) =< (IF failed THEN 1 ELSE 0)
    /\ \A l \in Leaves \ Orphaned : \A x \in DOMAIN data[l] : LeafFor(x) = l

\* Whatever threw, the list of leaves and the count of elements are right, those of
\* an orphan included; or clear threw, and then it has freed every node.
IntactOrFreed == IF root \in Allocated THEN LeafChain /\ SizeExact ELSE Allocated = {}
=============================================================================
