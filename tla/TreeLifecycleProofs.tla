------------------------ MODULE TreeLifecycleProofs ------------------------
(***************************************************************************)
(* What construction, copies, moves, swaps and destruction keep, for any   *)
(* number of trees, nodes, pools and elements.                             *)
(***************************************************************************)
EXTENDS TreeLifecycle, FiniteSetTheorems, TLAPS

TreeRecord ==
  [alive : BOOLEAN, leafAlloc : Pool \cup {Null}, innerAlloc : Pool \cup {Null},
   root : Node \cup {Null}, rootIsLeaf : BOOLEAN, leaves : SUBSET Node, inners : SUBSET Node,
   elems : SUBSET Elem, stray : SUBSET Elem]

\* Memory m in which L are leaves and I internal nodes of trees, when P are the pools
\* that have been made, and leaves come from LP and internal nodes from IP.
SoundMemory(m, L, I, LP, IP, P) ==
  /\ m \in [home : [Node -> P \cup {Null}], type : [Node -> {"none", "leaf", "inner"}],
            free : [Pool -> SUBSET Node]]
  /\ P \subseteq Pool /\ LP \subseteq P /\ IP \subseteq P
  /\ \A b \in L : b \in Node /\ m.home[b] # Null /\ m.type[b] = "leaf"
  /\ \A b \in I : b \in Node /\ m.home[b] # Null /\ m.type[b] = "inner"
  /\ \A p \in Pool : \A b \in m.free[p] : m.home[b] = p /\ b \notin L /\ b \notin I
  /\ \A b \in Node : m.home[b] # Null => b \in L \/ b \in I \/ b \in m.free[m.home[b]]
  /\ \/ allocator = "multi"
     \/ /\ LP \cap IP = {}
        /\ \A b \in Node : m.home[b] \in LP => m.type[b] = "leaf"
        /\ \A b \in Node : m.home[b] \in IP => m.type[b] = "inner"

\* A tree whose nodes are in the pools of its allocators.
SoundTree(m, LP, IP, r) ==
  /\ r \in TreeRecord
  /\ ~r.alive => r = NoTree
  /\ r.alive => /\ r.leafAlloc \in LP /\ r.innerAlloc \in IP
                /\ \A b \in r.leaves : m.home[b] = r.leafAlloc
                /\ \A b \in r.inners : m.home[b] = r.innerAlloc
                /\ IF r.rootIsLeaf THEN r.leaves = {r.root} /\ r.inners = {}
                   ELSE r.root \in r.inners
                /\ Cardinality(r.elems) > LeafCapacity => ~r.rootIsLeaf

\* No node is in two of the trees T, or in one and lost: X are the lost nodes.
NothingShared(T, X) ==
  /\ \A t, s \in Tree : t # s => /\ T[t].leaves \cap T[s].leaves = {}
                                /\ T[t].inners \cap T[s].inners = {}
  /\ \A t \in Tree : /\ T[t].leaves \cap X.leaves = {}
                     /\ T[t].inners \cap X.inners = {}

Leaves(T, X) == X.leaves \cup UNION {T[t].leaves : t \in Tree}
Inners(T, X) == X.inners \cup UNION {T[t].inners : t \in Tree}

\* The trees T, the lost nodes X and the memory m that the nodes lie in.
Sound(T, X, m, LP, IP, P) ==
  /\ T \in [Tree -> TreeRecord]
  /\ SoundMemory(m, Leaves(T, X), Inners(T, X), LP, IP, P)
  /\ \A t \in Tree : SoundTree(m, LP, IP, T[t])
  /\ NothingShared(T, X)

\* The pools a client's new trees take leaves and internal nodes from, but for
\* those that make their own.
ClientPools == IF allocator = "policy" THEN TwoOf(held)
               ELSE {pq \in held \X held : allocator = "multi" /\ pq[1] = pq[2]}

\* Leaves come from the pools LP and internal nodes from IP, those of the client's
\* new trees too.
Sorted(LP, IP) ==
  /\ allocator \in DOMAIN Operations
  /\ held \subseteq made
  /\ Sound(tree, lost, Mem, LP, IP, made)
  /\ \A pq \in ClientPools : pq[1] \in LP /\ pq[2] \in IP

IInv == \E LP, IP \in SUBSET Pool : Sorted(LP, IP)

----------------------------------------------------------------------------
(* The pools' memory. *)

\* A block that is taken becomes a node of its kind: reused ones are of that kind.
LEMMA TakeSound ==
  ASSUME NEW m, NEW L, NEW I, NEW LP, NEW IP, NEW P, SoundMemory(m, L, I, LP, IP, P),
         NEW p, NEW kind, (p \in LP /\ kind = "leaf") \/ (p \in IP /\ kind = "inner"),
         NEW x \in Take(m, p, kind), NEW L2, NEW I2,
         L2 = IF kind = "leaf" THEN L \cup {x.node} ELSE L,
         I2 = IF kind = "inner" THEN I \cup {x.node} ELSE I
  PROVE  /\ x.node \in Node /\ x.node \notin L /\ x.node \notin I
         /\ x.mem.home[x.node] = p
         /\ \A b \in Node : m.home[b] # Null => x.mem.home[b] = m.home[b]
         /\ SoundMemory(x.mem, L2, I2, LP, IP, P)
<1> DEFINE reuse == {b \in m.free[p] : Fits(m, b, kind)}
           fresh == {b \in Node : m.home[b] = Null}
           n     == x.node
<1>1. /\ p \in P /\ p \in Pool /\ p # Null /\ Null \notin Node
      /\ m.home \in [Node -> P \cup {Null}] /\ m.type \in [Node -> {"none", "leaf", "inner"}]
      /\ m.free \in [Pool -> SUBSET Node]
      /\ m = [home |-> m.home, type |-> m.type, free |-> m.free]
  BY NullAssumption DEF SoundMemory
<1>2. CASE reuse # {}
  <2>1. PICK b \in reuse : x = [mem |-> [m EXCEPT !.free[p] = @ \ {b}], node |-> b]
    BY <1>2 DEF Take, OneOf
  <2>2. /\ n = b /\ b \in m.free[p] /\ b \in Node /\ Fits(m, b, kind)
        /\ x.mem = [home |-> m.home, type |-> m.type,
                    free |-> [m.free EXCEPT ![p] = @ \ {b}]]
    BY <1>1, <2>1
  <2>3. m.home[b] = p /\ b \notin L /\ b \notin I
    BY <1>1, <2>2 DEF SoundMemory
  <2>4. m.type[b] = kind
    BY <2>2, <2>3 DEF SoundMemory, Fits
  <2>5. /\ x.mem.home = m.home /\ x.mem.type = m.type
        /\ x.mem.free = [m.free EXCEPT ![p] = @ \ {b}]
        /\ x.mem.free \in [Pool -> SUBSET Node]
    BY <1>1, <2>2
  <2>6. \A q \in Pool : x.mem.free[q] = IF q = p THEN m.free[p] \ {b} ELSE m.free[q]
    BY <1>1, <2>5
  <2>7. \A c \in Node : m.home[c] # Null => m.home[c] \in Pool
    BY <1>1 DEF SoundMemory
  <2> HIDE DEF reuse, fresh
  <2>8. SoundMemory(x.mem, L2, I2, LP, IP, P)
    <3>1. x.mem \in [home : [Node -> P \cup {Null}], type : [Node -> {"none", "leaf", "inner"}],
                     free : [Pool -> SUBSET Node]]
      BY <1>1, <2>2, <2>5
    <3>2. /\ \A c \in L2 : c \in Node /\ x.mem.home[c] # Null /\ x.mem.type[c] = "leaf"
          /\ \A c \in I2 : c \in Node /\ x.mem.home[c] # Null /\ x.mem.type[c] = "inner"
      BY <1>1, <2>2, <2>3, <2>4, <2>5 DEF SoundMemory
    <3>3. \A q \in Pool : \A c \in x.mem.free[q] :
            x.mem.home[c] = q /\ c \notin L2 /\ c \notin I2
      BY <2>2, <2>3, <2>5, <2>6 DEF SoundMemory
    <3>4. \A c \in Node : x.mem.home[c] # Null =>
            c \in L2 \/ c \in I2 \/ c \in x.mem.free[x.mem.home[c]]
      <4>1. b \in L2 \/ b \in I2
        BY <2>2
      <4> QED
        BY <2>5, <2>6, <2>7, <4>1 DEF SoundMemory
    <3> QED
      BY <2>5, <3>1, <3>2, <3>3, <3>4 DEF SoundMemory
  <2> QED
    BY <2>2, <2>3, <2>5, <2>8
<1>3. CASE reuse = {}
  <2>1. PICK b \in fresh : x = [mem |-> [m EXCEPT !.home[b] = p, !.type[b] = kind], node |-> b]
    BY <1>3 DEF Take, OneOf
  <2>2. /\ n = b /\ b \in Node /\ m.home[b] = Null
        /\ x.mem = [home |-> [m.home EXCEPT ![b] = p], type |-> [m.type EXCEPT ![b] = kind],
                    free |-> m.free]
    BY <1>1, <2>1
  <2>3. /\ x.mem.home = [m.home EXCEPT ![b] = p] /\ x.mem.free = m.free
        /\ x.mem.type = [m.type EXCEPT ![b] = kind]
        /\ x.mem.home \in [Node -> P \cup {Null}]
        /\ x.mem.type \in [Node -> {"none", "leaf", "inner"}]
    BY <1>1, <2>2
  <2>4. \A c \in Node :
          /\ x.mem.home[c] = IF c = b THEN p ELSE m.home[c]
          /\ x.mem.type[c] = IF c = b THEN kind ELSE m.type[c]
    BY <1>1, <2>3
  <2>5. b \notin L /\ b \notin I /\ \A q \in Pool : b \notin m.free[q]
    BY <2>2, NullAssumption DEF SoundMemory
  <2>6. \A q \in Pool : m.free[q] \subseteq Node
    BY <1>1
  <2> HIDE DEF reuse, fresh
  <2>7. SoundMemory(x.mem, L2, I2, LP, IP, P)
    <3>1. x.mem \in [home : [Node -> P \cup {Null}], type : [Node -> {"none", "leaf", "inner"}],
                     free : [Pool -> SUBSET Node]]
      BY <1>1, <2>2, <2>3
    <3>2. /\ \A c \in L2 : c \in Node /\ x.mem.home[c] # Null /\ x.mem.type[c] = "leaf"
          /\ \A c \in I2 : c \in Node /\ x.mem.home[c] # Null /\ x.mem.type[c] = "inner"
      BY <1>1, <2>2, <2>4, <2>5 DEF SoundMemory
    <3>3. \A q \in Pool : \A c \in x.mem.free[q] :
            x.mem.home[c] = q /\ c \notin L2 /\ c \notin I2
      BY <2>2, <2>3, <2>4, <2>5, <2>6 DEF SoundMemory
    <3>4. \A c \in Node : x.mem.home[c] # Null =>
            c \in L2 \/ c \in I2 \/ c \in x.mem.free[x.mem.home[c]]
      <4>1. b \in L2 \/ b \in I2
        BY <2>2
      <4> QED
        BY <2>2, <2>3, <2>4, <4>1 DEF SoundMemory
    <3>5. \/ allocator = "multi"
          \/ /\ LP \cap IP = {}
             /\ \A c \in Node : x.mem.home[c] \in LP => x.mem.type[c] = "leaf"
             /\ \A c \in Node : x.mem.home[c] \in IP => x.mem.type[c] = "inner"
      BY <2>4 DEF SoundMemory
    <3> QED
      BY <3>1, <3>2, <3>3, <3>4, <3>5 DEF SoundMemory
  <2> QED
    BY <2>2, <2>4, <2>5, <2>7
<1> QED
  BY <1>2, <1>3

LEMMA TakeLeaf ==
  ASSUME NEW m, NEW L, NEW I, NEW LP, NEW IP, NEW P, SoundMemory(m, L, I, LP, IP, P),
         NEW p \in LP, NEW x \in Take(m, p, "leaf")
  PROVE  /\ x.node \in Node /\ x.node \notin L /\ x.node \notin I
         /\ x.mem.home[x.node] = p
         /\ \A b \in Node : m.home[b] # Null => x.mem.home[b] = m.home[b]
         /\ SoundMemory(x.mem, L \cup {x.node}, I, LP, IP, P)
<1>1. ("leaf" = "inner") = FALSE
  OBVIOUS
<1> QED
  BY <1>1, TakeSound

LEMMA TakeInner ==
  ASSUME NEW m, NEW L, NEW I, NEW LP, NEW IP, NEW P, SoundMemory(m, L, I, LP, IP, P),
         NEW p \in IP, NEW x \in Take(m, p, "inner")
  PROVE  /\ x.node \in Node /\ x.node \notin L /\ x.node \notin I
         /\ x.mem.home[x.node] = p
         /\ \A b \in Node : m.home[b] # Null => x.mem.home[b] = m.home[b]
         /\ SoundMemory(x.mem, L, I \cup {x.node}, LP, IP, P)
<1>1. ("inner" = "leaf") = FALSE
  OBVIOUS
<1> QED
  BY <1>1, TakeSound

\* What changes in the memory when a free list grows.
LEMMA Freed ==
  ASSUME NEW m, NEW h, NEW k, NEW f, m = [home |-> h, type |-> k, free |-> f], NEW p, NEW S
  PROVE  [m EXCEPT !.free[p] = @ \cup S]
           = [home |-> h, type |-> k, free |-> [f EXCEPT ![p] = @ \cup S]]
OBVIOUS

\* The nodes of a tree go back to the pools they came from.
LEMMA GiveSound ==
  ASSUME NEW m, NEW L, NEW I, NEW LP, NEW IP, NEW P, SoundMemory(m, L, I, LP, IP, P),
         NEW r, r.leaves \subseteq L, r.inners \subseteq I,
         r.leafAlloc \in LP, r.innerAlloc \in IP,
         \A b \in r.leaves : m.home[b] = r.leafAlloc,
         \A b \in r.inners : m.home[b] = r.innerAlloc
  PROVE  /\ Give(m, r).home = m.home
         /\ SoundMemory(Give(m, r), L \ r.leaves, I \ r.inners, LP, IP, P)
<1> DEFINE g  == Give(m, r)
           f1 == [m.free EXCEPT ![r.leafAlloc] = @ \cup r.leaves]
           f2 == [f1 EXCEPT ![r.innerAlloc] = @ \cup r.inners]
<1>1. /\ m.home \in [Node -> P \cup {Null}] /\ m.type \in [Node -> {"none", "leaf", "inner"}]
      /\ m.free \in [Pool -> SUBSET Node]
      /\ m = [home |-> m.home, type |-> m.type, free |-> m.free]
      /\ r.leafAlloc \in Pool /\ r.innerAlloc \in Pool
      /\ r.leaves \subseteq Node /\ r.inners \subseteq Node
  BY DEF SoundMemory
<1>2. g = [home |-> m.home, type |-> m.type, free |-> f2]
  <2> DEFINE toLeaf == [m EXCEPT !.free[r.leafAlloc] = @ \cup r.leaves]
  <2>1. toLeaf = [home |-> m.home, type |-> m.type, free |-> f1]
    <3>1. m = [home |-> m.home, type |-> m.type, free |-> m.free]
      BY <1>1
    <3> QED
      BY ONLY <3>1, Freed DEF toLeaf, f1
  <2>2. g = [toLeaf EXCEPT !.free[r.innerAlloc] = @ \cup r.inners]
    BY DEF Give
  <2> HIDE DEF toLeaf, g, f1
  <2> QED
    BY <2>1, <2>2, Freed
<1>3. f2 \in [Pool -> SUBSET Node]
  BY <1>1
<1>4. \A p \in Pool : f2[p] = m.free[p] \cup (IF p = r.leafAlloc THEN r.leaves ELSE {})
                                        \cup (IF p = r.innerAlloc THEN r.inners ELSE {})
  BY <1>1
<1>5. g.home = m.home /\ g.type = m.type /\ g.free = f2
  BY <1>2
<1>6. g \in [home : [Node -> P \cup {Null}], type : [Node -> {"none", "leaf", "inner"}],
             free : [Pool -> SUBSET Node]]
  BY <1>1, <1>2, <1>3
<1> HIDE DEF g, f1, f2
<1>7. \A b \in L : b \notin I
  BY DEF SoundMemory
<1>8. \A p \in Pool : \A b \in g.free[p] :
        g.home[b] = p /\ b \notin L \ r.leaves /\ b \notin I \ r.inners
  BY <1>4, <1>5, <1>7 DEF SoundMemory
<1>9. \A b \in Node : g.home[b] # Null =>
        b \in L \ r.leaves \/ b \in I \ r.inners \/ b \in g.free[g.home[b]]
  <2>1. \A b \in Node : m.home[b] # Null => m.home[b] \in Pool
    BY <1>1 DEF SoundMemory
  <2> QED
    BY <1>4, <1>5, <2>1 DEF SoundMemory
<1>10. SoundMemory(g, L \ r.leaves, I \ r.inners, LP, IP, P)
  BY <1>5, <1>6, <1>8, <1>9 DEF SoundMemory
<1> QED
  BY <1>5, <1>10 DEF g

----------------------------------------------------------------------------
(* The trees. *)

\* A tree gets other nodes, the rest stay as they are.
LEMMA ReplaceSound ==
  ASSUME NEW T, NEW X, NEW m, NEW LP, NEW IP, NEW P, Sound(T, X, m, LP, IP, P),
         NEW t \in Tree, NEW r, NEW m2,
         SoundMemory(m2, (Leaves(T, X) \ T[t].leaves) \cup r.leaves,
                         (Inners(T, X) \ T[t].inners) \cup r.inners, LP, IP, P),
         \A b \in Node : m.home[b] # Null => m2.home[b] = m.home[b],
         SoundTree(m2, LP, IP, r),
         r.leaves \cap (Leaves(T, X) \ T[t].leaves) = {},
         r.inners \cap (Inners(T, X) \ T[t].inners) = {}
  PROVE  Sound([T EXCEPT ![t] = r], X, m2, LP, IP, P)
<1> DEFINE T2 == [T EXCEPT ![t] = r]
<1>1. /\ T \in [Tree -> TreeRecord] /\ r \in TreeRecord
      /\ \A s \in Tree : SoundTree(m, LP, IP, T[s])
      /\ NothingShared(T, X)
      /\ SoundMemory(m, Leaves(T, X), Inners(T, X), LP, IP, P)
  BY DEF Sound, SoundTree
<1>2. T2 \in [Tree -> TreeRecord] /\ \A s \in Tree : T2[s] = IF s = t THEN r ELSE T[s]
  BY <1>1
<1> HIDE DEF T2
<1>3. /\ Leaves(T2, X) = (Leaves(T, X) \ T[t].leaves) \cup r.leaves
      /\ Inners(T2, X) = (Inners(T, X) \ T[t].inners) \cup r.inners
  <2>1. \A b \in Leaves(T2, X) : b \in (Leaves(T, X) \ T[t].leaves) \cup r.leaves
    BY <1>1, <1>2 DEF Leaves, NothingShared
  <2>2. \A b \in (Leaves(T, X) \ T[t].leaves) \cup r.leaves : b \in Leaves(T2, X)
    BY <1>1, <1>2 DEF Leaves
  <2>3. \A b \in Inners(T2, X) : b \in (Inners(T, X) \ T[t].inners) \cup r.inners
    BY <1>1, <1>2 DEF Inners, NothingShared
  <2>4. \A b \in (Inners(T, X) \ T[t].inners) \cup r.inners : b \in Inners(T2, X)
    BY <1>1, <1>2 DEF Inners
  <2> QED
    BY <2>1, <2>2, <2>3, <2>4
<1>4. NothingShared(T2, X)
  <2>1. \A s \in Tree : T[s].leaves \subseteq Leaves(T, X) /\ T[s].inners \subseteq Inners(T, X)
    BY DEF Leaves, Inners
  <2>2. \A s \in Tree \ {t} : /\ T[s].leaves \subseteq Leaves(T, X) \ T[t].leaves
                              /\ T[s].inners \subseteq Inners(T, X) \ T[t].inners
    BY <1>1, <2>1 DEF NothingShared
  <2>3. /\ X.leaves \subseteq Leaves(T, X) \ T[t].leaves
        /\ X.inners \subseteq Inners(T, X) \ T[t].inners
    BY <1>1 DEF NothingShared, Leaves, Inners
  <2>4. \A s \in Tree \ {t} : /\ T[s].leaves \cap r.leaves = {}
                              /\ T[s].inners \cap r.inners = {}
    BY <2>2
  <2>5. X.leaves \cap r.leaves = {} /\ X.inners \cap r.inners = {}
    BY <2>3
  <2>6. \A s \in Tree, u \in Tree : s # u => /\ T2[s].leaves \cap T2[u].leaves = {}
                                           /\ T2[s].inners \cap T2[u].inners = {}
    BY <1>1, <1>2, <2>4 DEF NothingShared
  <2>7. \A s \in Tree : /\ T2[s].leaves \cap X.leaves = {}
                        /\ T2[s].inners \cap X.inners = {}
    BY <1>1, <1>2, <2>5 DEF NothingShared
  <2> QED
    BY <2>6, <2>7 DEF NothingShared
<1>5. \A s \in Tree : SoundTree(m2, LP, IP, T2[s])
  <2>1. ASSUME NEW s \in Tree, s # t PROVE SoundTree(m2, LP, IP, T[s])
    <3>1. SoundTree(m, LP, IP, T[s])
      BY <1>1
    <3>2. /\ \A b \in T[s].leaves : b \in Node /\ m.home[b] # Null
          /\ \A b \in T[s].inners : b \in Node /\ m.home[b] # Null
      BY <1>1 DEF SoundMemory, Leaves, Inners
    <3>3. /\ \A b \in T[s].leaves : m2.home[b] = m.home[b]
          /\ \A b \in T[s].inners : m2.home[b] = m.home[b]
      BY <3>2
    <3> QED
      BY <3>1, <3>3 DEF SoundTree
  <2> QED
    BY <1>2, <2>1
<1> QED
  BY <1>2, <1>3, <1>4, <1>5 DEF Sound, T2

\* Two trees exchange everything; one of them may be no tree.
LEMMA ExchangeSound ==
  ASSUME NEW T, NEW X, NEW m, NEW LP, NEW IP, NEW P, Sound(T, X, m, LP, IP, P),
         NEW t \in Tree, NEW s \in Tree, t # s
  PROVE  Sound([T EXCEPT ![t] = T[s], ![s] = T[t]], X, m, LP, IP, P)
<1> DEFINE T2 == [T EXCEPT ![t] = T[s], ![s] = T[t]]
<1>1. /\ T \in [Tree -> TreeRecord] /\ NothingShared(T, X)
      /\ \A u \in Tree : SoundTree(m, LP, IP, T[u])
  BY DEF Sound
<1>2. /\ T2 \in [Tree -> TreeRecord]
      /\ \A u \in Tree : T2[u] = IF u = t THEN T[s] ELSE IF u = s THEN T[t] ELSE T[u]
  BY <1>1
<1> HIDE DEF T2
<1>3. Leaves(T2, X) = Leaves(T, X) /\ Inners(T2, X) = Inners(T, X)
  <2>1. Leaves(T2, X) = Leaves(T, X)
    BY <1>2 DEF Leaves
  <2>2. Inners(T2, X) = Inners(T, X)
    BY <1>2 DEF Inners
  <2> QED
    BY <2>1, <2>2
<1>4. NothingShared(T2, X)
  BY <1>1, <1>2 DEF NothingShared
<1>5. \A u \in Tree : SoundTree(m, LP, IP, T2[u])
  BY <1>1, <1>2
<1> QED
  BY <1>2, <1>3, <1>4, <1>5 DEF Sound, T2

\* The destructor leaves no tree.
LEMMA DestroySound ==
  ASSUME NEW T, NEW X, NEW m, NEW LP, NEW IP, NEW P, Sound(T, X, m, LP, IP, P),
         NEW t \in Tree, T[t].alive
  PROVE  Sound([T EXCEPT ![t] = NoTree], X, Give(m, T[t]), LP, IP, P)
<1> DEFINE r == T[t]
           g == Give(m, r)
<1>1. /\ r \in TreeRecord /\ r.leafAlloc \in LP /\ r.innerAlloc \in IP
      /\ \A b \in r.leaves : m.home[b] = r.leafAlloc
      /\ \A b \in r.inners : m.home[b] = r.innerAlloc
      /\ SoundMemory(m, Leaves(T, X), Inners(T, X), LP, IP, P)
  BY DEF Sound, SoundTree
<1>2. r.leaves \subseteq Leaves(T, X) /\ r.inners \subseteq Inners(T, X)
  BY DEF Leaves, Inners
<1>3. g.home = m.home /\ SoundMemory(g, Leaves(T, X) \ r.leaves, Inners(T, X) \ r.inners, LP, IP, P)
  BY <1>1, <1>2, GiveSound
<1>4. /\ NoTree.leaves = {} /\ NoTree.inners = {} /\ ~NoTree.alive
      /\ NoTree \in TreeRecord
  BY DEF NoTree, TreeRecord
<1>5. SoundTree(g, LP, IP, NoTree)
  BY <1>4 DEF SoundTree
<1>6. SoundMemory(g, (Leaves(T, X) \ r.leaves) \cup NoTree.leaves,
                     (Inners(T, X) \ r.inners) \cup NoTree.inners, LP, IP, P)
  BY <1>3, <1>4
<1> HIDE DEF g
<1> QED
  BY <1>3, <1>4, <1>5, <1>6, ReplaceSound DEF g

\* Inserts into a tree whose root is a leaf.
LEMMA FillSound ==
  ASSUME NEW T, NEW X, NEW m, NEW LP, NEW IP, NEW P, Sound(T, X, m, LP, IP, P),
         NEW t \in Tree, T[t].alive, T[t].rootIsLeaf, NEW E \in SUBSET Elem,
         NEW q, q.leafAlloc = T[t].leafAlloc, q.innerAlloc = T[t].innerAlloc,
         q.stray \in SUBSET Elem,
         NEW f \in Fill(m, q, T[t].root, E)
  PROVE  /\ Sound([T EXCEPT ![t] = f.tree], X, f.mem, LP, IP, P)
         /\ f.tree.alive
         /\ f.tree.leafAlloc = T[t].leafAlloc /\ f.tree.innerAlloc = T[t].innerAlloc
         /\ Cardinality(E) =< LeafCapacity => f.tree.rootIsLeaf
<1> DEFINE r == T[t]
           l == r.root
<1>1. /\ r \in TreeRecord /\ r.leafAlloc \in LP /\ r.innerAlloc \in IP
      /\ \A b \in r.leaves : m.home[b] = r.leafAlloc
      /\ r.leaves = {l} /\ r.inners = {}
      /\ SoundMemory(m, Leaves(T, X), Inners(T, X), LP, IP, P)
  BY DEF Sound, SoundTree
<1>2. l \in Node /\ l \in Leaves(T, X) /\ m.home[l] = r.leafAlloc /\ m.home[l] # Null
  BY <1>1 DEF Leaves, SoundMemory
<1>3. Cardinality(E) \in Nat /\ LeafCapacity \in Nat
  BY ShapeAssumption, FS_Subset, FS_CardinalityType
<1>4. CASE Cardinality(E) =< LeafCapacity
  <2>1. f = [mem |-> m, tree |-> LeafTree(q, l, E)]
    BY <1>1, <1>4 DEF Fill
  <2>2. f.mem = m /\ f.tree = LeafTree(q, l, E)
    BY <2>1
  <2>3. /\ f.tree \in TreeRecord /\ f.tree.leaves = {l} /\ f.tree.inners = {}
        /\ f.tree.alive /\ f.tree.rootIsLeaf /\ f.tree.root = l /\ f.tree.elems = E
        /\ f.tree.leafAlloc = r.leafAlloc /\ f.tree.innerAlloc = r.innerAlloc
    BY <1>1, <1>2, <2>2 DEF LeafTree, TreeRecord
  <2>4. SoundTree(f.mem, LP, IP, f.tree)
    BY <1>1, <1>2, <1>3, <1>4, <2>2, <2>3 DEF SoundTree
  <2>5. /\ (Leaves(T, X) \ r.leaves) \cup f.tree.leaves = Leaves(T, X)
        /\ (Inners(T, X) \ r.inners) \cup f.tree.inners = Inners(T, X)
        /\ f.tree.leaves \cap (Leaves(T, X) \ r.leaves) = {}
        /\ f.tree.inners \cap (Inners(T, X) \ r.inners) = {}
    BY <1>1, <1>2, <2>3
  <2>6. Sound([T EXCEPT ![t] = f.tree], X, f.mem, LP, IP, P)
    BY <1>1, <2>2, <2>4, <2>5, ReplaceSound
  <2> QED
    BY <2>3, <2>6
<1>5. CASE ~(Cardinality(E) =< LeafCapacity)
  <2>1. f \in UNION {{[mem |-> i.mem, tree |-> InnerTree(q, l, s.node, i.node, E)] :
                        i \in Take(s.mem, q.innerAlloc, "inner")} :
                      s \in Take(m, q.leafAlloc, "leaf")}
    BY <1>1, <1>5 DEF Fill
  <2>2. PICK s \in Take(m, q.leafAlloc, "leaf") : \E i \in Take(s.mem, q.innerAlloc, "inner") :
          f = [mem |-> i.mem, tree |-> InnerTree(q, l, s.node, i.node, E)]
    BY <2>1
  <2>3. PICK i \in Take(s.mem, q.innerAlloc, "inner") :
          f = [mem |-> i.mem, tree |-> InnerTree(q, l, s.node, i.node, E)]
    BY <2>2
  <2>4. f.mem = i.mem /\ f.tree = InnerTree(q, l, s.node, i.node, E)
    BY <2>3
  <2>5. /\ s.node \in Node /\ s.node \notin Leaves(T, X) /\ s.node \notin Inners(T, X)
        /\ s.mem.home[s.node] = r.leafAlloc
        /\ \A b \in Node : m.home[b] # Null => s.mem.home[b] = m.home[b]
        /\ SoundMemory(s.mem, Leaves(T, X) \cup {s.node}, Inners(T, X), LP, IP, P)
    BY <1>1, TakeLeaf
  <2>6. /\ i.node \in Node /\ i.node \notin Leaves(T, X) \cup {s.node} /\ i.node \notin Inners(T, X)
        /\ i.mem.home[i.node] = r.innerAlloc
        /\ \A b \in Node : s.mem.home[b] # Null => i.mem.home[b] = s.mem.home[b]
        /\ SoundMemory(i.mem, Leaves(T, X) \cup {s.node}, Inners(T, X) \cup {i.node}, LP, IP, P)
    <3> DEFINE L1 == Leaves(T, X) \cup {s.node}
    <3>1. SoundMemory(s.mem, L1, Inners(T, X), LP, IP, P) /\ q.innerAlloc \in IP
      BY <1>1, <2>5
    <3> HIDE DEF L1
    <3>2. /\ i.node \in Node /\ i.node \notin L1 /\ i.node \notin Inners(T, X)
          /\ i.mem.home[i.node] = q.innerAlloc
          /\ \A b \in Node : s.mem.home[b] # Null => i.mem.home[b] = s.mem.home[b]
          /\ SoundMemory(i.mem, L1, Inners(T, X) \cup {i.node}, LP, IP, P)
      BY <3>1, TakeInner
    <3> QED
      BY <1>1, <3>2 DEF L1
  <2>7. /\ f.tree \in TreeRecord /\ f.tree.leaves = {l, s.node} /\ f.tree.inners = {i.node}
        /\ f.tree.alive /\ ~f.tree.rootIsLeaf /\ f.tree.root = i.node /\ f.tree.elems = E
        /\ f.tree.leafAlloc = r.leafAlloc /\ f.tree.innerAlloc = r.innerAlloc
    BY <1>1, <1>2, <2>4, <2>5, <2>6 DEF InnerTree, TreeRecord
  <2>8. Null \notin LP
    BY <1>1, NullAssumption DEF SoundMemory
  <2>9. /\ i.mem.home[l] = r.leafAlloc /\ i.mem.home[s.node] = r.leafAlloc
        /\ \A b \in Node : m.home[b] # Null => i.mem.home[b] = m.home[b]
    BY <1>1, <1>2, <2>5, <2>6, <2>8
  <2>10. SoundTree(f.mem, LP, IP, f.tree)
    BY <1>1, <2>4, <2>6, <2>7, <2>9 DEF SoundTree
  <2>11. /\ (Leaves(T, X) \ r.leaves) \cup f.tree.leaves = Leaves(T, X) \cup {s.node}
         /\ (Inners(T, X) \ r.inners) \cup f.tree.inners = Inners(T, X) \cup {i.node}
         /\ f.tree.leaves \cap (Leaves(T, X) \ r.leaves) = {}
         /\ f.tree.inners \cap (Inners(T, X) \ r.inners) = {}
    BY <1>1, <1>2, <2>5, <2>6, <2>7
  <2>12. Sound([T EXCEPT ![t] = f.tree], X, f.mem, LP, IP, P)
    BY <2>4, <2>6, <2>9, <2>10, <2>11, ReplaceSound
  <2> QED
    BY <1>5, <2>7, <2>12
<1> QED
  BY <1>4, <1>5

\* The trees T with an empty root leaf l for tree t, which has the allocators of r.
Rooted(T, t, r, l) == [T EXCEPT ![t] = LeafTree(r, l, {})]

\* A root leaf is made where there was no tree.
LEMMA RootSound ==
  ASSUME NEW T, NEW X, NEW m, NEW LP, NEW IP, NEW P, Sound(T, X, m, LP, IP, P),
         NEW t \in Tree, T[t] = NoTree,
         NEW r \in TreeRecord, r.leafAlloc \in LP, r.innerAlloc \in IP,
         NEW l \in Take(m, r.leafAlloc, "leaf")
  PROVE  /\ Sound(Rooted(T, t, r, l.node), X, l.mem, LP, IP, P)
         /\ Rooted(T, t, r, l.node)[t].alive /\ Rooted(T, t, r, l.node)[t].rootIsLeaf
         /\ Rooted(T, t, r, l.node)[t].root = l.node
         /\ Rooted(T, t, r, l.node)[t].leafAlloc = r.leafAlloc
         /\ Rooted(T, t, r, l.node)[t].innerAlloc = r.innerAlloc
<1> DEFINE small == LeafTree(r, l.node, {})
<1>1. /\ SoundMemory(m, Leaves(T, X), Inners(T, X), LP, IP, P)
      /\ NoTree.leaves = {} /\ NoTree.inners = {} /\ T \in [Tree -> TreeRecord]
  BY DEF Sound, NoTree
<1>2. /\ l.node \in Node /\ l.node \notin Leaves(T, X) /\ l.node \notin Inners(T, X)
      /\ l.mem.home[l.node] = r.leafAlloc
      /\ \A c \in Node : m.home[c] # Null => l.mem.home[c] = m.home[c]
      /\ SoundMemory(l.mem, Leaves(T, X) \cup {l.node}, Inners(T, X), LP, IP, P)
  <2>1. r.leafAlloc \in LP /\ l \in Take(m, r.leafAlloc, "leaf")
    OBVIOUS
  <2> QED
    BY ONLY <1>1, <2>1, TakeLeaf
<1>3. /\ small \in TreeRecord /\ small.leaves = {l.node} /\ small.inners = {}
      /\ small.alive /\ small.rootIsLeaf /\ small.root = l.node /\ small.elems = {}
      /\ small.leafAlloc = r.leafAlloc /\ small.innerAlloc = r.innerAlloc
  BY <1>2 DEF LeafTree, TreeRecord
<1> DEFINE T1 == Rooted(T, t, r, l.node)
<1>4. T1 = [T EXCEPT ![t] = small]
  BY DEF Rooted
<1> HIDE DEF small, T1
<1>5. Cardinality({}) = 0 /\ LeafCapacity \in Nat
  BY FS_EmptySet, ShapeAssumption
<1>6. SoundTree(l.mem, LP, IP, small)
  BY <1>2, <1>3, <1>5 DEF SoundTree
<1>7. Sound([T EXCEPT ![t] = small], X, l.mem, LP, IP, P)
  <2>1. /\ (Leaves(T, X) \ T[t].leaves) \cup small.leaves = Leaves(T, X) \cup {l.node}
        /\ (Inners(T, X) \ T[t].inners) \cup small.inners = Inners(T, X)
        /\ small.leaves \cap (Leaves(T, X) \ T[t].leaves) = {}
        /\ small.inners \cap (Inners(T, X) \ T[t].inners) = {}
    BY <1>1, <1>2, <1>3
  <2> QED
    BY <1>2, <1>6, <2>1, ReplaceSound
<1>8. T1[t] = small
  BY <1>1, <1>4
<1> QED
  BY <1>3, <1>4, <1>7, <1>8 DEF T1

\* A tree is made where there was none.
LEMMA BuildSound ==
  ASSUME NEW T, NEW X, NEW m, NEW LP, NEW IP, NEW P, Sound(T, X, m, LP, IP, P),
         NEW t \in Tree, T[t] = NoTree, NEW E \in SUBSET Elem,
         NEW r \in TreeRecord, r.leafAlloc \in LP, r.innerAlloc \in IP, NEW b \in Build(m, r, E)
  PROVE  /\ Sound([T EXCEPT ![t] = b.tree], X, b.mem, LP, IP, P)
         /\ b.tree.alive
         /\ b.tree.leafAlloc = r.leafAlloc /\ b.tree.innerAlloc = r.innerAlloc
         /\ Cardinality(E) =< LeafCapacity => b.tree.rootIsLeaf
<1>1. PICK l \in Take(m, r.leafAlloc, "leaf") : b \in Fill(l.mem, r, l.node, E)
  BY DEF Build
<1> DEFINE T1 == Rooted(T, t, r, l.node)
<1>2. T1 = [T EXCEPT ![t] = LeafTree(r, l.node, {})]
  BY DEF Rooted
<1>3. /\ Sound(T1, X, l.mem, LP, IP, P)
      /\ T1[t].alive /\ T1[t].rootIsLeaf /\ T1[t].root = l.node
      /\ T1[t].leafAlloc = r.leafAlloc /\ T1[t].innerAlloc = r.innerAlloc
  BY RootSound
<1> HIDE DEF T1
<1>4. [T1 EXCEPT ![t] = b.tree] = [T EXCEPT ![t] = b.tree]
  <2>1. T \in [Tree -> TreeRecord]
    BY DEF Sound
  <2> QED
    BY <1>2, <2>1
<1>5. b \in Fill(l.mem, r, T1[t].root, E) /\ r.stray \in SUBSET Elem
  BY <1>1, <1>3 DEF TreeRecord
<1>6. /\ Sound([T1 EXCEPT ![t] = b.tree], X, b.mem, LP, IP, P)
      /\ b.tree.alive
      /\ b.tree.leafAlloc = T1[t].leafAlloc /\ b.tree.innerAlloc = T1[t].innerAlloc
      /\ Cardinality(E) =< LeafCapacity => b.tree.rootIsLeaf
  BY <1>3, <1>5, FillSound
<1> QED
  BY <1>3, <1>6, <1>4

\* clear() leaves a tree of the same allocators whose root is a leaf.
LEMMA ClearSound ==
  ASSUME NEW T, NEW X, NEW m, NEW LP, NEW IP, NEW P, Sound(T, X, m, LP, IP, P),
         NEW t \in Tree, T[t].alive, NEW c \in Clear(m, T[t])
  PROVE  /\ Sound([T EXCEPT ![t] = c.tree], X, c.mem, LP, IP, P)
         /\ c.tree.alive /\ c.tree.rootIsLeaf
<1> DEFINE T1 == [T EXCEPT ![t] = NoTree]
<1>1. {} \in SUBSET Elem /\ Cardinality({}) =< LeafCapacity
  BY FS_EmptySet, ShapeAssumption
<1>2. CASE T[t].rootIsLeaf
  <2>1. c \in Fill(m, T[t], T[t].root, {}) /\ T[t].stray \in SUBSET Elem
    BY <1>2 DEF Clear, Sound, TreeRecord
  <2> QED
    BY <1>1, <1>2, <2>1, FillSound
<1>3. CASE ~T[t].rootIsLeaf
  <2> DEFINE r == [T[t] EXCEPT !.stray = {}]
  <2>1. c \in Build(Give(m, T[t]), r, {})
    BY <1>3 DEF Clear
  <2>2. Sound(T1, X, Give(m, T[t]), LP, IP, P)
    BY DestroySound
  <2>3. /\ T[t] \in TreeRecord /\ T[t].leafAlloc \in LP /\ T[t].innerAlloc \in IP
        /\ T \in [Tree -> TreeRecord]
    BY DEF Sound, SoundTree
  <2>5. r \in TreeRecord /\ r.leafAlloc \in LP /\ r.innerAlloc \in IP
    BY <2>3 DEF TreeRecord
  <2>4. T1[t] = NoTree /\ [T1 EXCEPT ![t] = c.tree] = [T EXCEPT ![t] = c.tree]
    BY <2>3
  <2> HIDE DEF T1, r
  <2> QED
    BY <1>1, <2>1, <2>2, <2>4, <2>5, BuildSound
<1> QED
  BY <1>2, <1>3

\* The lost nodes X and more of them.
WithLost(X, L, I) == [leaves |-> X.leaves \cup L, inners |-> X.inners \cup I]

\* A leaf that is taken for a split and left without a parent.
LEMMA LoseLeaf ==
  ASSUME NEW T, NEW X, NEW m, NEW LP, NEW IP, NEW P, Sound(T, X, m, LP, IP, P),
         NEW p \in LP, NEW s \in Take(m, p, "leaf")
  PROVE  Sound(T, WithLost(X, {s.node}, {}), s.mem, LP, IP, P)
<1> DEFINE Y == WithLost(X, {s.node}, {})
<1>1. /\ SoundMemory(m, Leaves(T, X), Inners(T, X), LP, IP, P)
      /\ T \in [Tree -> TreeRecord] /\ NothingShared(T, X)
      /\ \A u \in Tree : SoundTree(m, LP, IP, T[u])
  BY DEF Sound
<1>2. /\ s.node \notin Leaves(T, X)
      /\ \A b \in Node : m.home[b] # Null => s.mem.home[b] = m.home[b]
      /\ SoundMemory(s.mem, Leaves(T, X) \cup {s.node}, Inners(T, X), LP, IP, P)
  BY <1>1, TakeLeaf
<1>3. Y.leaves = X.leaves \cup {s.node} /\ Y.inners = X.inners
  BY DEF WithLost
<1> HIDE DEF Y
<1>4. Leaves(T, Y) = Leaves(T, X) \cup {s.node} /\ Inners(T, Y) = Inners(T, X)
  BY <1>3 DEF Leaves, Inners
<1>5. NothingShared(T, Y)
  <2>1. \A u \in Tree : s.node \notin T[u].leaves
    BY <1>2 DEF Leaves
  <2> QED
    BY <1>1, <1>3, <2>1 DEF NothingShared
<1>6. ASSUME NEW u \in Tree PROVE SoundTree(s.mem, LP, IP, T[u])
  <2>1. SoundTree(m, LP, IP, T[u])
    BY <1>1
  <2>2. /\ \A b \in T[u].leaves : b \in Node /\ m.home[b] # Null
        /\ \A b \in T[u].inners : b \in Node /\ m.home[b] # Null
    BY <1>1 DEF SoundMemory, Leaves, Inners
  <2>3. /\ \A b \in T[u].leaves : s.mem.home[b] = m.home[b]
        /\ \A b \in T[u].inners : s.mem.home[b] = m.home[b]
    BY <1>2, <2>2
  <2> QED
    BY <2>1, <2>3 DEF SoundTree
<1>7. SoundMemory(s.mem, Leaves(T, Y), Inners(T, Y), LP, IP, P)
  BY <1>2, <1>4
<1>8. Sound(T, Y, s.mem, LP, IP, P)
  BY <1>1, <1>5, <1>6, <1>7 DEF Sound
<1> QED
  BY <1>8 DEF Y

\* A tree goes without a destructor.
LEMMA LoseTree ==
  ASSUME NEW T, NEW X, NEW m, NEW LP, NEW IP, NEW P, Sound(T, X, m, LP, IP, P),
         NEW t \in Tree
  PROVE  Sound([T EXCEPT ![t] = NoTree], WithLost(X, T[t].leaves, T[t].inners), m, LP, IP, P)
<1> DEFINE T2 == [T EXCEPT ![t] = NoTree]
           Y  == WithLost(X, T[t].leaves, T[t].inners)
<1>1. /\ SoundMemory(m, Leaves(T, X), Inners(T, X), LP, IP, P)
      /\ T \in [Tree -> TreeRecord] /\ NothingShared(T, X)
      /\ \A u \in Tree : SoundTree(m, LP, IP, T[u])
  BY DEF Sound
<1>2. /\ NoTree.leaves = {} /\ NoTree.inners = {} /\ ~NoTree.alive
      /\ NoTree \in TreeRecord
  BY DEF NoTree, TreeRecord
<1>3. T2 \in [Tree -> TreeRecord] /\ \A u \in Tree : T2[u] = IF u = t THEN NoTree ELSE T[u]
  BY <1>1, <1>2
<1>4. Y.leaves = X.leaves \cup T[t].leaves /\ Y.inners = X.inners \cup T[t].inners
  BY DEF WithLost
<1> HIDE DEF T2, Y
<1>5. Leaves(T2, Y) = Leaves(T, X)
  BY <1>2, <1>3, <1>4 DEF Leaves
<1>6. Inners(T2, Y) = Inners(T, X)
  BY <1>2, <1>3, <1>4 DEF Inners
<1>7. NothingShared(T2, Y)
  BY <1>1, <1>2, <1>3, <1>4 DEF NothingShared
<1>8. \A u \in Tree : SoundTree(m, LP, IP, T2[u])
  <2>1. SoundTree(m, LP, IP, NoTree)
    BY <1>2 DEF SoundTree
  <2> QED
    BY <1>1, <1>3, <2>1
<1>9. Sound(T2, Y, m, LP, IP, P)
  BY <1>1, <1>3, <1>5, <1>6, <1>7, <1>8 DEF Sound
<1> QED
  BY <1>9 DEF T2, Y

\* An insert that throws leaves a tree of the nodes it was made of, and loses a leaf or
\* nothing.
LEMMA ThrowsSound ==
  ASSUME NEW T, NEW X, NEW m, NEW LP, NEW IP, NEW P, Sound(T, X, m, LP, IP, P),
         NEW t \in Tree, T[t].alive, NEW x \in Elem, NEW o \in Throws(m, T[t], x)
  PROVE  /\ Sound([T EXCEPT ![t] = o.tree], WithLost(X, o.lost, {}), o.mem, LP, IP, P)
         /\ o.tree.alive
<1> DEFINE r == T[t]
<1>1. /\ T \in [Tree -> TreeRecord] /\ r \in TreeRecord /\ r.leafAlloc \in LP
      /\ SoundTree(m, LP, IP, r)
  BY DEF Sound, SoundTree
<1>2. CASE o = [mem |-> m, tree |-> r, lost |-> {}]
  <2>1. o.mem = m /\ o.tree = r /\ o.lost = {}
    BY <1>2
  <2>2. [T EXCEPT ![t] = o.tree] = T
    BY <1>1, <2>1
  <2> DEFINE Y == WithLost(X, o.lost, {})
  <2>3. Y.leaves = X.leaves /\ Y.inners = X.inners
    BY <2>1 DEF WithLost
  <2> HIDE DEF Y
  <2>4. Leaves(T, Y) = Leaves(T, X) /\ Inners(T, Y) = Inners(T, X)
    BY <2>3 DEF Leaves, Inners
  <2>5. NothingShared(T, Y)
    BY <2>3 DEF NothingShared, Sound
  <2>6. Sound(T, Y, m, LP, IP, P)
    BY <2>4, <2>5 DEF Sound
  <2> QED
    BY <2>1, <2>2, <2>6 DEF Y
<1>3. ASSUME NEW s \in Take(m, r.leafAlloc, "leaf"),
             NEW h \in Halves(r.elems) \cup Halves(r.elems \cup {x}),
             Cardinality(r.elems) >= LeafCapacity,
             o = [mem |-> s.mem, lost |-> {s.node},
                  tree |-> [r EXCEPT !.elems = h[1], !.stray = @ \cup h[2]]]
      PROVE  /\ Sound([T EXCEPT ![t] = o.tree], WithLost(X, o.lost, {}), o.mem, LP, IP, P)
             /\ o.tree.alive
  <2>1. /\ o.mem = s.mem /\ o.lost = {s.node}
        /\ o.tree = [r EXCEPT !.elems = h[1], !.stray = @ \cup h[2]]
    BY <1>3
  <2>2. /\ h[1] \in SUBSET Elem /\ h[2] \in SUBSET Elem
        /\ \/ h[1] \subseteq r.elems /\ h[1] # r.elems
           \/ h[1] \subseteq r.elems \cup {x} /\ h[1] # r.elems \cup {x}
    BY <1>1 DEF Halves, TreeRecord
  <2>3. /\ o.tree \in TreeRecord /\ o.tree.elems = h[1] /\ o.tree.alive
        /\ o.tree.leafAlloc = r.leafAlloc /\ o.tree.innerAlloc = r.innerAlloc
        /\ o.tree.leaves = r.leaves /\ o.tree.inners = r.inners
        /\ o.tree.root = r.root /\ o.tree.rootIsLeaf = r.rootIsLeaf
    <3> DEFINE Stray == r.stray \cup h[2]
    <3> HIDE DEF r
    <3>1. Stray \in SUBSET Elem /\ r.alive
      BY <1>1, <2>2 DEF TreeRecord, r
    <3>2. o.tree = [r EXCEPT !.elems = h[1], !.stray = Stray]
      BY <2>1
    <3> HIDE DEF Stray
    <3>3. /\ r \in TreeRecord /\ r.alive
          /\ h[1] \in SUBSET Elem /\ Stray \in SUBSET Elem
      BY <1>1, <2>2, <3>1 DEF r
    <3> QED
      BY ONLY <3>2, <3>3 DEF TreeRecord
  <2>4. ASSUME r.rootIsLeaf PROVE Cardinality(h[1]) =< LeafCapacity
    <3>1. /\ IsFiniteSet(Elem) /\ r.elems \in SUBSET Elem /\ LeafCapacity \in Nat
          /\ IsFiniteSet(r.elems) /\ Cardinality(r.elems) \in Nat
          /\ Cardinality(r.elems) =< LeafCapacity
      BY <1>1, <2>4, ShapeAssumption, FS_Subset, FS_CardinalityType DEF TreeRecord, SoundTree
    <3>2. CASE h[1] \subseteq r.elems
      <4>1. Cardinality(h[1]) =< Cardinality(r.elems) /\ Cardinality(h[1]) \in Nat
        BY <3>1, <3>2, FS_Subset, FS_CardinalityType
      <4> QED
        BY <3>1, <4>1
    <3>3. CASE h[1] \subseteq r.elems \cup {x} /\ h[1] # r.elems \cup {x}
      <4> DEFINE E == r.elems \cup {x}
      <4>1. IsFiniteSet(E) /\ Cardinality(E) =< Cardinality(r.elems) + 1
        <5>1. CASE x \in r.elems
          <6>1. E = r.elems
            BY <5>1
          <6> QED
            BY <3>1, <6>1
        <5>2. CASE x \notin r.elems
          <6>1. IsFiniteSet(E) /\ Cardinality(E) = Cardinality(r.elems) + 1
            BY <3>1, <5>2, FS_AddElement
          <6> QED
            BY <3>1, <6>1
        <5> QED
          BY <5>1, <5>2
      <4>2. /\ Cardinality(E) \in Nat /\ Cardinality(h[1]) \in Nat
            /\ Cardinality(h[1]) < Cardinality(E)
        <5> HIDE DEF E
        <5>1. h[1] \subseteq E /\ h[1] # E
          BY <3>3 DEF E
        <5> QED
          BY <4>1, <5>1, FS_Subset, FS_CardinalityType
      <4> HIDE DEF E
      <4> QED
        BY <3>1, <4>1, <4>2
    <3> QED
      BY <2>2, <3>2, <3>3
  <2> DEFINE Y == WithLost(X, o.lost, {})
  <2>5. Sound(T, Y, s.mem, LP, IP, P)
    BY <1>1, <2>1, LoseLeaf
  <2> HIDE DEF Y
  <2>6. SoundTree(s.mem, LP, IP, r)
    BY <2>5 DEF Sound
  <2>7. Cardinality(h[1]) > LeafCapacity => ~r.rootIsLeaf
    <3>1. LeafCapacity \in Nat /\ Cardinality(h[1]) \in Nat
      BY <2>2, ShapeAssumption, FS_Subset, FS_CardinalityType
    <3> QED
      BY <2>4, <3>1
  <2>8. SoundTree(s.mem, LP, IP, o.tree)
    BY <2>3, <2>6, <2>7 DEF SoundTree
  <2>9. /\ SoundMemory(s.mem, Leaves(T, Y), Inners(T, Y), LP, IP, P)
        /\ (Leaves(T, Y) \ r.leaves) \cup o.tree.leaves = Leaves(T, Y)
        /\ (Inners(T, Y) \ r.inners) \cup o.tree.inners = Inners(T, Y)
        /\ o.tree.leaves \cap (Leaves(T, Y) \ r.leaves) = {}
        /\ o.tree.inners \cap (Inners(T, Y) \ r.inners) = {}
    BY <2>3, <2>5 DEF Sound, Leaves, Inners
  <2>10. Sound([T EXCEPT ![t] = o.tree], Y, s.mem, LP, IP, P)
    BY <2>5, <2>8, <2>9, ReplaceSound
  <2> QED
    BY <2>1, <2>3, <2>10 DEF Y
<1> QED
  BY <1>2, <1>3 DEF Throws

\* So do inserts of which the last one throws.
LEMMA FillThrowsSound ==
  ASSUME NEW T, NEW X, NEW m, NEW LP, NEW IP, NEW P, Sound(T, X, m, LP, IP, P),
         NEW t \in Tree, T[t].alive, T[t].rootIsLeaf, NEW E \in SUBSET Elem,
         NEW q, q.leafAlloc = T[t].leafAlloc, q.innerAlloc = T[t].innerAlloc,
         q.stray \in SUBSET Elem,
         NEW o \in FillThrows(m, q, T[t].root, E)
  PROVE  /\ Sound([T EXCEPT ![t] = o.tree], WithLost(X, o.lost, {}), o.mem, LP, IP, P)
         /\ o.tree.alive
<1>1. PICK K \in SUBSET E : \E x \in E \ K : \E f \in Fill(m, q, T[t].root, K) :
        o \in Throws(f.mem, f.tree, x)
  BY DEF FillThrows
<1>2. PICK x \in E \ K : \E f \in Fill(m, q, T[t].root, K) : o \in Throws(f.mem, f.tree, x)
  BY <1>1
<1>3. PICK f \in Fill(m, q, T[t].root, K) : o \in Throws(f.mem, f.tree, x)
  BY <1>2
<1> DEFINE T1 == [T EXCEPT ![t] = f.tree]
<1>4. K \in SUBSET Elem /\ x \in Elem /\ T \in [Tree -> TreeRecord]
  BY DEF Sound
<1>5. Sound(T1, X, f.mem, LP, IP, P) /\ f.tree.alive
  BY <1>4, FillSound
<1>6. T1[t] = f.tree /\ [T1 EXCEPT ![t] = o.tree] = [T EXCEPT ![t] = o.tree]
  BY <1>4
<1> HIDE DEF T1
<1>7. T1[t].alive /\ o \in Throws(f.mem, T1[t], x)
  BY <1>3, <1>5, <1>6
<1>8. /\ Sound([T1 EXCEPT ![t] = o.tree], WithLost(X, o.lost, {}), o.mem, LP, IP, P)
      /\ o.tree.alive
  BY <1>4, <1>5, <1>7, ThrowsSound
<1> QED
  BY <1>6, <1>8

LEMMA BuildThrowsSound ==
  ASSUME NEW T, NEW X, NEW m, NEW LP, NEW IP, NEW P, Sound(T, X, m, LP, IP, P),
         NEW t \in Tree, T[t] = NoTree, NEW E \in SUBSET Elem,
         NEW r \in TreeRecord, r.leafAlloc \in LP, r.innerAlloc \in IP,
         NEW o \in BuildThrows(m, r, E)
  PROVE  /\ Sound([T EXCEPT ![t] = o.tree], WithLost(X, o.lost, {}), o.mem, LP, IP, P)
         /\ o.tree.alive
<1>1. PICK l \in Take(m, r.leafAlloc, "leaf") : o \in FillThrows(l.mem, r, l.node, E)
  BY DEF BuildThrows
<1> DEFINE T1 == Rooted(T, t, r, l.node)
<1>2. T1 = [T EXCEPT ![t] = LeafTree(r, l.node, {})]
  BY DEF Rooted
<1>3. /\ Sound(T1, X, l.mem, LP, IP, P)
      /\ T1[t].alive /\ T1[t].rootIsLeaf /\ T1[t].root = l.node
      /\ T1[t].leafAlloc = r.leafAlloc /\ T1[t].innerAlloc = r.innerAlloc
  BY RootSound
<1> HIDE DEF T1
<1>4. [T1 EXCEPT ![t] = o.tree] = [T EXCEPT ![t] = o.tree]
  <2>1. T \in [Tree -> TreeRecord]
    BY DEF Sound
  <2> QED
    BY <1>2, <2>1
<1>5. o \in FillThrows(l.mem, r, T1[t].root, E) /\ r.stray \in SUBSET Elem
  BY <1>1, <1>3 DEF TreeRecord
<1>6. /\ Sound([T1 EXCEPT ![t] = o.tree], WithLost(X, o.lost, {}), o.mem, LP, IP, P)
      /\ o.tree.alive
  BY <1>3, <1>5, FillThrowsSound
<1> QED
  BY <1>3, <1>6, <1>4

----------------------------------------------------------------------------
(* The actions. *)

LEMMA BecomesIs ==
  ASSUME NEW m, NEW T, NEW X, NEW LP, NEW IP, NEW P, Sound(T, X, m, LP, IP, P), Becomes(m)
  PROVE  Mem' = m
<1>1. m = [home |-> m.home, type |-> m.type, free |-> m.free]
  BY DEF Sound, SoundMemory
<1>2. Mem' = [home |-> m.home, type |-> m.type, free |-> m.free]
  BY DEF Becomes, Mem
<1> QED
  BY ONLY <1>1, <1>2

\* What the trees and the memory become is sound in the next state.
LEMMA SoundStays ==
  ASSUME NEW LP, NEW IP, NEW P, NEW X, Sound(tree', X, Mem', LP, IP, P), lost' = X,
         allocator' = allocator, made' = P
  PROVE  Sound(tree, lost, Mem, LP, IP, made)'
<1>1. Leaves(tree, lost)' = Leaves(tree', X) /\ Inners(tree, lost)' = Inners(tree', X)
  BY DEF Leaves, Inners
<1>2. SoundMemory(Mem, Leaves(tree, lost), Inners(tree, lost), LP, IP, made)'
  BY <1>1 DEF Sound, SoundMemory
<1>3. (\A t \in Tree : SoundTree(Mem, LP, IP, tree[t]))'
  BY DEF Sound, SoundTree
<1>4. NothingShared(tree, lost)'
  BY DEF Sound, NothingShared
<1> QED
  BY <1>2, <1>3, <1>4 DEF Sound

\* A step after which the trees are sound and the client has the same allocator.
LEMMA ClientStays ==
  ASSUME NEW LP \in SUBSET Pool, NEW IP \in SUBSET Pool, Sorted(LP, IP),
         UNCHANGED <<allocator, made, held>>,
         NEW X, Sound(tree', X, Mem', LP, IP, made), lost' = X
  PROVE  IInv'
<1>1. ClientPools' = ClientPools
  BY DEF ClientPools, TwoOf
<1>2. Sound(tree, lost, Mem, LP, IP, made)'
  BY SoundStays
<1>3. Sorted(LP, IP)'
  BY <1>1, <1>2 DEF Sorted
<1> QED
  BY <1>3 DEF IInv

LEMMA SameClient ==
  ASSUME NEW LP \in SUBSET Pool, NEW IP \in SUBSET Pool, Sorted(LP, IP),
         UNCHANGED <<allocator, made, held, lost>>, Sound(tree', lost, Mem', LP, IP, made)
  PROVE  IInv'
BY ClientStays

\* A pool that has just been made is nobody's.
LEMMA NewPools ==
  ASSUME NEW T, NEW X, NEW m, NEW LP, NEW IP, NEW P, Sound(T, X, m, LP, IP, P),
         NEW p \in Pool \ P, NEW q \in Pool \ P, p # q
  PROVE  Sound(T, X, m, LP \cup {p}, IP \cup {q}, P \cup {p, q})
<1>1. SoundMemory(m, Leaves(T, X), Inners(T, X), LP \cup {p}, IP \cup {q}, P \cup {p, q})
  <2>1. SoundMemory(m, Leaves(T, X), Inners(T, X), LP, IP, P)
    BY DEF Sound
  <2>2. /\ m \in [home : [Node -> P \cup {p, q} \cup {Null}],
                  type : [Node -> {"none", "leaf", "inner"}], free : [Pool -> SUBSET Node]]
        /\ P \cup {p, q} \subseteq Pool
        /\ LP \cup {p} \subseteq P \cup {p, q} /\ IP \cup {q} \subseteq P \cup {p, q}
    BY <2>1 DEF SoundMemory
  <2>3. \/ allocator = "multi"
        \/ /\ (LP \cup {p}) \cap (IP \cup {q}) = {}
           /\ \A b \in Node : m.home[b] \in LP \cup {p} => m.type[b] = "leaf"
           /\ \A b \in Node : m.home[b] \in IP \cup {q} => m.type[b] = "inner"
    BY <2>1, NullAssumption DEF SoundMemory
  <2> QED
    BY <2>1, <2>2, <2>3 DEF SoundMemory
<1>2. \A t \in Tree : SoundTree(m, LP \cup {p}, IP \cup {q}, T[t])
  BY DEF Sound, SoundTree
<1> QED
  BY <1>1, <1>2 DEF Sound

\* A rebound allocator has its pool among those for nodes of its kind.
LEMMA RebindSound ==
  ASSUME NEW LP \in SUBSET Pool, NEW IP \in SUBSET Pool, Sorted(LP, IP),
         NEW r \in NewTrees, Rebind(r), UNCHANGED <<allocator, held>>
  PROVE  /\ r \in TreeRecord
         /\ \E LP2, IP2 \in SUBSET Pool :
              /\ Sound(tree, lost, Mem, LP2, IP2, made')
              /\ r.leafAlloc \in LP2 /\ r.innerAlloc \in IP2
              /\ held' \subseteq made'
              /\ \A pq \in ClientPools' : pq[1] \in LP2 /\ pq[2] \in IP2
<1>1. ClientPools' = ClientPools
  BY DEF ClientPools, TwoOf
<1>2. \A p, q \in Pool : /\ WithPools(p, q) \in TreeRecord
                         /\ WithPools(p, q).leafAlloc = p /\ WithPools(p, q).innerAlloc = q
  BY DEF WithPools, NoTree, TreeRecord
<1>3. r \in TreeRecord
  BY <1>2 DEF NewTrees
<1>4. held \subseteq Pool /\ made \subseteq Pool
  BY DEF Sorted, Sound, SoundMemory
<1>5. CASE allocator = "own"
  <2>1. PICK pq \in TwoOf(Pool \ made) :
          r = WithPools(pq[1], pq[2]) /\ made' = made \cup {pq[1], pq[2]}
    BY <1>5 DEF Rebind
  <2>2. pq[1] \in Pool \ made /\ pq[2] \in Pool \ made /\ pq[1] # pq[2]
    BY DEF TwoOf
  <2>3. Sound(tree, lost, Mem, LP \cup {pq[1]}, IP \cup {pq[2]}, made \cup {pq[1], pq[2]})
    BY <2>2, NewPools DEF Sorted
  <2>4. r.leafAlloc = pq[1] /\ r.innerAlloc = pq[2]
    BY <1>2, <2>1, <2>2
  <2>5. LP \cup {pq[1]} \in SUBSET Pool /\ IP \cup {pq[2]} \in SUBSET Pool
    BY <2>2
  <2>6. held' \subseteq made'
    BY <2>1 DEF Sorted
  <2>7. \A xy \in ClientPools' : xy[1] \in LP \cup {pq[1]} /\ xy[2] \in IP \cup {pq[2]}
    BY <1>1 DEF Sorted
  <2> QED
    BY <1>3, <2>1, <2>3, <2>4, <2>5, <2>6, <2>7
<1>6. CASE allocator = "policy"
  <2>1. PICK pq \in TwoOf(held) : r = WithPools(pq[1], pq[2]) /\ made' = made
    BY <1>6 DEF Rebind, PolicyPools
  <2>2. pq[1] \in Pool /\ pq[2] \in Pool /\ pq[1] \in LP /\ pq[2] \in IP
    BY <1>4, <1>6 DEF TwoOf, ClientPools, Sorted
  <2>3. r.leafAlloc = pq[1] /\ r.innerAlloc = pq[2]
    BY <1>2, <2>1, <2>2
  <2> QED
    BY <1>1, <1>3, <2>1, <2>2, <2>3 DEF Sorted
<1>7. CASE allocator = "multi"
  <2>1. PICK p \in held : r = WithPools(p, p) /\ made' = made
    BY <1>7 DEF Rebind
  <2>2. p \in Pool /\ p \in LP /\ p \in IP
    <3>1. <<p, p>> \in ClientPools
      BY <1>7 DEF ClientPools
    <3> QED
      BY <1>4, <3>1 DEF Sorted
  <2>3. r.leafAlloc = p /\ r.innerAlloc = p
    BY <1>2, <2>1, <2>2
  <2> QED
    BY <1>1, <1>3, <2>1, <2>2, <2>3 DEF Sorted
<1> QED
  BY <1>5, <1>6, <1>7 DEF Rebind

LEMMA ConstructKeeps == ASSUME IInv, Construct, UNCHANGED <<allocator, lost>>
  PROVE  IInv'
<1>1. PICK LP \in SUBSET Pool, IP \in SUBSET Pool : Sorted(LP, IP)
  BY DEF IInv
<1>2. PICK r \in NewTrees :
        /\ Rebind(r)
        /\ \E t \in Dead, E \in SUBSET Elem : \E b \in Build(Mem, r, E) :
             Becomes(b.mem) /\ tree' = [tree EXCEPT ![t] = b.tree]
  BY DEF Construct
<1>12. PICK t \in Dead, E \in SUBSET Elem : \E b \in Build(Mem, r, E) :
         Becomes(b.mem) /\ tree' = [tree EXCEPT ![t] = b.tree]
  BY <1>2
<1>3. PICK b \in Build(Mem, r, E) : Becomes(b.mem) /\ tree' = [tree EXCEPT ![t] = b.tree]
  BY <1>12
<1>4. UNCHANGED <<allocator, held, lost>>
  BY DEF Construct
<1>5. r \in TreeRecord
  BY <1>1, <1>2, <1>4, RebindSound
<1>6. PICK LP2 \in SUBSET Pool, IP2 \in SUBSET Pool :
        /\ Sound(tree, lost, Mem, LP2, IP2, made')
        /\ r.leafAlloc \in LP2 /\ r.innerAlloc \in IP2
        /\ held' \subseteq made'
        /\ \A pq \in ClientPools' : pq[1] \in LP2 /\ pq[2] \in IP2
  BY <1>1, <1>2, <1>4, RebindSound
<1>7. t \in Tree /\ tree[t] = NoTree
  BY <1>6 DEF Dead, Alive, Sound, SoundTree
<1>8. Sound(tree', lost, b.mem, LP2, IP2, made')
  BY <1>3, <1>5, <1>6, <1>7, BuildSound
<1>9. Mem' = b.mem
  BY <1>3, <1>8, BecomesIs
<1>10. Sound(tree, lost, Mem, LP2, IP2, made)'
  BY <1>8, <1>9, SoundStays
<1>11. Sorted(LP2, IP2)'
  BY <1>1, <1>6, <1>10 DEF Sorted
<1> QED
  BY <1>11 DEF IInv

\* The tree that was made is destroyed again, but for what it has lost.
LEMMA ConstructThrowsKeeps == ASSUME IInv, ConstructThrows, UNCHANGED allocator PROVE IInv'
<1>1. PICK LP \in SUBSET Pool, IP \in SUBSET Pool : Sorted(LP, IP)
  BY DEF IInv
<1>2. PICK r \in NewTrees :
        /\ Rebind(r)
        /\ \E E \in SUBSET Elem : \E o \in BuildThrows(Mem, r, E) :
             Becomes(Give(o.mem, o.tree)) /\ Loses(o.lost, {})
  BY DEF ConstructThrows
<1>3. PICK E \in SUBSET Elem : \E o \in BuildThrows(Mem, r, E) :
        Becomes(Give(o.mem, o.tree)) /\ Loses(o.lost, {})
  BY <1>2
<1>4. PICK o \in BuildThrows(Mem, r, E) : Becomes(Give(o.mem, o.tree)) /\ Loses(o.lost, {})
  BY <1>3
<1>5. UNCHANGED <<allocator, held, tree>> /\ Dead # {}
  BY DEF ConstructThrows
<1>6. r \in TreeRecord
  BY <1>1, <1>2, <1>5, RebindSound
<1>7. PICK LP2 \in SUBSET Pool, IP2 \in SUBSET Pool :
        /\ Sound(tree, lost, Mem, LP2, IP2, made')
        /\ r.leafAlloc \in LP2 /\ r.innerAlloc \in IP2
        /\ held' \subseteq made'
        /\ \A pq \in ClientPools' : pq[1] \in LP2 /\ pq[2] \in IP2
  BY <1>1, <1>2, <1>5, RebindSound
<1>8. PICK t \in Dead : TRUE
  BY <1>5
<1>9. t \in Tree /\ tree[t] = NoTree /\ tree \in [Tree -> TreeRecord]
  BY <1>7 DEF Dead, Alive, Sound, SoundTree
<1> DEFINE T1 == [tree EXCEPT ![t] = o.tree]
           Y  == WithLost(lost, o.lost, {})
<1>10. Sound(T1, Y, o.mem, LP2, IP2, made') /\ o.tree.alive
  BY <1>6, <1>7, <1>9, BuildThrowsSound
<1>11. T1[t] = o.tree /\ [T1 EXCEPT ![t] = NoTree] = tree
  BY <1>9
<1>12. lost' = Y
  BY <1>4 DEF Loses, WithLost
<1> HIDE DEF T1, Y
<1>13. Sound(tree, Y, Give(o.mem, o.tree), LP2, IP2, made')
  <2>1. Sound([T1 EXCEPT ![t] = NoTree], Y, Give(o.mem, T1[t]), LP2, IP2, made')
    BY <1>9, <1>10, <1>11, DestroySound
  <2> QED
    BY <1>11, <2>1
<1>14. Mem' = Give(o.mem, o.tree)
  BY <1>4, <1>13, BecomesIs
<1>15. Sound(tree, lost, Mem, LP2, IP2, made)'
  BY <1>5, <1>12, <1>13, <1>14, SoundStays
<1>16. Sorted(LP2, IP2)'
  BY <1>1, <1>7, <1>15, <1>5 DEF Sorted
<1> QED
  BY <1>16 DEF IInv

LEMMA DestroyKeeps == ASSUME IInv, Destroy, UNCHANGED <<allocator, lost>>
  PROVE  IInv'
<1>1. PICK LP \in SUBSET Pool, IP \in SUBSET Pool : Sorted(LP, IP)
  BY DEF IInv
<1>2. PICK t \in Alive : Becomes(Give(Mem, tree[t])) /\ tree' = [tree EXCEPT ![t] = NoTree]
  BY DEF Destroy
<1>3. t \in Tree /\ tree[t].alive /\ Sound(tree, lost, Mem, LP, IP, made)
  BY <1>1 DEF Alive, Sorted
<1>4. Sound(tree', lost, Give(Mem, tree[t]), LP, IP, made)
  BY <1>2, <1>3, DestroySound
<1>5. Mem' = Give(Mem, tree[t])
  BY <1>2, <1>4, BecomesIs
<1>6. UNCHANGED <<allocator, made, held, lost>>
  BY DEF Destroy
<1> QED
  BY <1>1, <1>4, <1>5, <1>6, SameClient

LEMMA DropAllocatorKeeps == ASSUME IInv, DropAllocator, UNCHANGED <<allocator, lost>>
  PROVE  IInv'
<1>1. PICK LP \in SUBSET Pool, IP \in SUBSET Pool : Sorted(LP, IP)
  BY DEF IInv
<1>2. held' = {} /\ UNCHANGED <<tree, mem, made, allocator>>
  BY DEF DropAllocator
<1>3. Mem' = Mem
  BY <1>2 DEF Mem, mem
<1>4. Sound(tree, lost, Mem, LP, IP, made)'
  BY <1>1, <1>2, <1>3, SoundStays DEF Sorted
<1>5. ClientPools' = {}
  BY <1>2 DEF ClientPools, TwoOf
<1>6. Sorted(LP, IP)'
  BY <1>1, <1>2, <1>4, <1>5 DEF Sorted
<1> QED
  BY <1>6 DEF IInv

LEMMA InsertElementKeeps == ASSUME IInv, InsertElement, UNCHANGED <<allocator, lost>>
  PROVE  IInv'
<1>1. PICK LP \in SUBSET Pool, IP \in SUBSET Pool : Sorted(LP, IP)
  BY DEF IInv
<1>2. UNCHANGED <<allocator, made, held, lost>>
  BY DEF InsertElement
<1>3. PICK t \in Alive : \E x \in Elem \ tree[t].elems :
        IF tree[t].rootIsLeaf
        THEN \E b \in Fill(Mem, tree[t], tree[t].root, tree[t].elems \cup {x}) :
               Becomes(b.mem) /\ tree' = [tree EXCEPT ![t] = b.tree]
        ELSE tree' = [tree EXCEPT ![t].elems = tree[t].elems \cup {x}] /\ UNCHANGED mem
  BY DEF InsertElement
<1>8. PICK x \in Elem \ tree[t].elems :
        IF tree[t].rootIsLeaf
        THEN \E b \in Fill(Mem, tree[t], tree[t].root, tree[t].elems \cup {x}) :
               Becomes(b.mem) /\ tree' = [tree EXCEPT ![t] = b.tree]
        ELSE tree' = [tree EXCEPT ![t].elems = tree[t].elems \cup {x}] /\ UNCHANGED mem
  BY <1>3
<1> DEFINE r == tree[t]
           E == r.elems \cup {x}
<1>4. /\ t \in Tree /\ r.alive /\ Sound(tree, lost, Mem, LP, IP, made)
      /\ tree \in [Tree -> TreeRecord] /\ r \in TreeRecord /\ E \in SUBSET Elem
  BY <1>1 DEF Alive, Sorted, Sound, TreeRecord
<1>5. CASE r.rootIsLeaf
  <2>1. PICK b \in Fill(Mem, r, r.root, E) :
          Becomes(b.mem) /\ tree' = [tree EXCEPT ![t] = b.tree]
    BY <1>8, <1>5
  <2>2. Sound(tree', lost, b.mem, LP, IP, made)
    <3>1. r.stray \in SUBSET Elem
      BY <1>4 DEF TreeRecord
    <3> QED
      BY <1>4, <1>5, <2>1, <3>1, FillSound
  <2>3. Mem' = b.mem
    BY <2>1, <2>2, BecomesIs
  <2> QED
    BY <1>1, <1>2, <2>2, <2>3, SameClient
<1>6. CASE ~r.rootIsLeaf
  <2> DEFINE r2 == [r EXCEPT !.elems = E]
  <2>1. tree' = [tree EXCEPT ![t] = r2] /\ Mem' = Mem
    BY <1>8, <1>4, <1>6 DEF mem, Mem
  <2>2. /\ r2 \in TreeRecord /\ r2.alive /\ r2.leafAlloc = r.leafAlloc
        /\ r2.innerAlloc = r.innerAlloc /\ r2.root = r.root /\ ~r2.rootIsLeaf
        /\ r2.leaves = r.leaves /\ r2.inners = r.inners
    BY <1>4, <1>6 DEF TreeRecord
  <2> HIDE DEF r2
  <2>3. SoundTree(Mem, LP, IP, r)
    BY <1>4 DEF Sound
  <2>4. SoundTree(Mem, LP, IP, r2)
    BY <1>4, <1>6, <2>2, <2>3 DEF SoundTree
  <2>5. /\ SoundMemory(Mem, Leaves(tree, lost), Inners(tree, lost), LP, IP, made)
        /\ (Leaves(tree, lost) \ r.leaves) \cup r2.leaves = Leaves(tree, lost)
        /\ (Inners(tree, lost) \ r.inners) \cup r2.inners = Inners(tree, lost)
        /\ r2.leaves \cap (Leaves(tree, lost) \ r.leaves) = {}
        /\ r2.inners \cap (Inners(tree, lost) \ r.inners) = {}
    BY <1>4, <2>2 DEF Sound, Leaves, Inners
  <2>6. Sound(tree', lost, Mem, LP, IP, made)
    BY <1>4, <2>1, <2>4, <2>5, ReplaceSound
  <2> QED
    BY <1>1, <1>2, <2>1, <2>6, SameClient
<1> QED
  BY <1>5, <1>6

LEMMA InsertThrowsKeeps == ASSUME IInv, InsertThrows, UNCHANGED allocator PROVE IInv'
<1>1. PICK LP \in SUBSET Pool, IP \in SUBSET Pool : Sorted(LP, IP)
  BY DEF IInv
<1>2. UNCHANGED <<allocator, made, held>>
  BY DEF InsertThrows
<1>3. PICK t \in Alive : \E x \in Elem \ tree[t].elems : \E o \in Throws(Mem, tree[t], x) :
        Becomes(o.mem) /\ Loses(o.lost, {}) /\ tree' = [tree EXCEPT ![t] = o.tree]
  BY DEF InsertThrows
<1>4. PICK x \in Elem \ tree[t].elems : \E o \in Throws(Mem, tree[t], x) :
        Becomes(o.mem) /\ Loses(o.lost, {}) /\ tree' = [tree EXCEPT ![t] = o.tree]
  BY <1>3
<1>5. PICK o \in Throws(Mem, tree[t], x) :
        Becomes(o.mem) /\ Loses(o.lost, {}) /\ tree' = [tree EXCEPT ![t] = o.tree]
  BY <1>4
<1>6. t \in Tree /\ tree[t].alive /\ Sound(tree, lost, Mem, LP, IP, made)
  BY <1>1 DEF Alive, Sorted
<1> DEFINE Y == WithLost(lost, o.lost, {})
<1>7. lost' = Y
  BY <1>5 DEF Loses, WithLost
<1>8. Sound(tree', Y, o.mem, LP, IP, made)
  BY <1>5, <1>6, ThrowsSound
<1> HIDE DEF Y
<1>9. Mem' = o.mem
  BY <1>5, <1>8, BecomesIs
<1> QED
  BY <1>1, <1>2, <1>7, <1>8, <1>9, ClientStays

\* What is copied from a sound tree.
LEMMA ListedElems == ASSUME NEW r \in TreeRecord PROVE Listed(r) \in SUBSET Elem
BY DEF Listed, TreeRecord

LEMMA ClearTreeKeeps == ASSUME IInv, ClearTree, UNCHANGED <<allocator, lost>>
  PROVE  IInv'
<1>1. PICK LP \in SUBSET Pool, IP \in SUBSET Pool : Sorted(LP, IP)
  BY DEF IInv
<1>2. PICK t \in Alive : \E b \in Clear(Mem, tree[t]) :
        Becomes(b.mem) /\ tree' = [tree EXCEPT ![t] = b.tree]
  BY DEF ClearTree
<1>3. PICK b \in Clear(Mem, tree[t]) : Becomes(b.mem) /\ tree' = [tree EXCEPT ![t] = b.tree]
  BY <1>2
<1>4. t \in Tree /\ tree[t].alive /\ Sound(tree, lost, Mem, LP, IP, made)
  BY <1>1 DEF Alive, Sorted
<1>5. Sound(tree', lost, b.mem, LP, IP, made)
  BY <1>3, <1>4, ClearSound
<1>6. Mem' = b.mem
  BY <1>3, <1>5, BecomesIs
<1>7. UNCHANGED <<allocator, made, held, lost>>
  BY DEF ClearTree
<1> QED
  BY <1>1, <1>5, <1>6, <1>7, SameClient

LEMMA CopyConstructKeeps == ASSUME IInv, CopyConstruct, UNCHANGED <<allocator, lost>>
  PROVE  IInv'
<1>1. PICK LP \in SUBSET Pool, IP \in SUBSET Pool : Sorted(LP, IP)
  BY DEF IInv
<1>2. UNCHANGED <<allocator, made, held, lost>>
  BY DEF CopyConstruct, Use
<1>3. PICK t \in Dead, s \in Alive :
        \E b \in Build(Mem, CopiedPools(tree[s]), Listed(tree[s])) :
          Becomes(b.mem) /\ tree' = [tree EXCEPT ![t] = b.tree]
  BY DEF CopyConstruct
<1>4. PICK b \in Build(Mem, CopiedPools(tree[s]), Listed(tree[s])) :
        Becomes(b.mem) /\ tree' = [tree EXCEPT ![t] = b.tree]
  BY <1>3
<1>5. Sound(tree, lost, Mem, LP, IP, made)
  BY <1>1 DEF Sorted
<1>6. t \in Tree /\ tree[t] = NoTree
  BY <1>5 DEF Dead, Alive, Sound, SoundTree
<1>7. /\ Listed(tree[s]) \in SUBSET Elem
      /\ tree[s].leafAlloc \in LP /\ tree[s].innerAlloc \in IP
      /\ tree[s].leafAlloc \in Pool /\ tree[s].innerAlloc \in Pool
  BY <1>5, ListedElems DEF Alive, Sound, SoundTree, SoundMemory
<1> DEFINE r == CopiedPools(tree[s])
<1>8. r \in TreeRecord /\ r.leafAlloc \in LP /\ r.innerAlloc \in IP
  BY <1>7 DEF CopiedPools, WithPools, NoTree, TreeRecord
<1> HIDE DEF r
<1>9. b \in Build(Mem, r, Listed(tree[s]))
  BY DEF r
<1>10. Sound(tree', lost, b.mem, LP, IP, made)
  BY <1>4, <1>5, <1>6, <1>7, <1>8, <1>9, BuildSound
<1>11. Mem' = b.mem
  BY <1>4, <1>10, BecomesIs
<1> QED
  BY <1>1, <1>2, <1>10, <1>11, SameClient

\* What the copy constructor has made is no tree's.
LEMMA CopyConstructThrowsKeeps ==
  ASSUME IInv, CopyConstructThrows, UNCHANGED allocator PROVE IInv'
<1>1. PICK LP \in SUBSET Pool, IP \in SUBSET Pool : Sorted(LP, IP)
  BY DEF IInv
<1>2. UNCHANGED <<allocator, made, held>> /\ tree' = tree /\ Dead # {}
  BY DEF CopyConstructThrows, Use
<1>3. PICK s \in Alive :
        \E o \in BuildThrows(Mem, CopiedPools(tree[s]), Listed(tree[s])) :
          Becomes(o.mem) /\ Loses(o.tree.leaves \cup o.lost, o.tree.inners)
  BY DEF CopyConstructThrows
<1>4. PICK o \in BuildThrows(Mem, CopiedPools(tree[s]), Listed(tree[s])) :
        Becomes(o.mem) /\ Loses(o.tree.leaves \cup o.lost, o.tree.inners)
  BY <1>3
<1>5. Sound(tree, lost, Mem, LP, IP, made)
  BY <1>1 DEF Sorted
<1>6. PICK t \in Dead : TRUE
  BY <1>2
<1>7. t \in Tree /\ tree[t] = NoTree /\ tree \in [Tree -> TreeRecord]
  BY <1>5 DEF Dead, Alive, Sound, SoundTree
<1>8. /\ Listed(tree[s]) \in SUBSET Elem
      /\ tree[s].leafAlloc \in LP /\ tree[s].innerAlloc \in IP
      /\ tree[s].leafAlloc \in Pool /\ tree[s].innerAlloc \in Pool
  BY <1>5, ListedElems DEF Alive, Sound, SoundTree, SoundMemory
<1> DEFINE r  == CopiedPools(tree[s])
           E  == Listed(tree[s])
           T1 == [tree EXCEPT ![t] = o.tree]
           Y  == WithLost(lost, o.lost, {})
           Z  == WithLost(Y, o.tree.leaves, o.tree.inners)
<1>9. r \in TreeRecord /\ r.leafAlloc \in LP /\ r.innerAlloc \in IP
  BY <1>8 DEF CopiedPools, WithPools, NoTree, TreeRecord
<1>10. lost' = Z
  BY <1>4 DEF Loses, WithLost
<1> HIDE DEF r, E, T1, Y, Z
<1>11. o \in BuildThrows(Mem, r, E) /\ E \in SUBSET Elem
  BY <1>8 DEF r, E
<1>12. Sound(T1, Y, o.mem, LP, IP, made)
  BY <1>5, <1>7, <1>9, <1>11, BuildThrowsSound DEF T1, Y
<1>13. T1[t] = o.tree /\ [T1 EXCEPT ![t] = NoTree] = tree
  BY <1>7 DEF T1
<1>14. Sound(tree, Z, o.mem, LP, IP, made)
  BY <1>7, <1>12, <1>13, LoseTree DEF Z
<1>15. Mem' = o.mem
  BY <1>4, <1>14, BecomesIs
<1> QED
  BY <1>1, <1>2, <1>10, <1>14, <1>15, ClientStays

LEMMA CopyAssignKeeps == ASSUME IInv, CopyAssign, UNCHANGED <<allocator, lost>>
  PROVE  IInv'
<1>1. PICK LP \in SUBSET Pool, IP \in SUBSET Pool : Sorted(LP, IP)
  BY DEF IInv
<1>2. UNCHANGED <<allocator, made, held, lost>>
  BY DEF CopyAssign, Use
<1>3. PICK t \in Alive, s \in Alive :
        \E c \in Clear(Mem, tree[t]) :
          \E b \in Fill(c.mem, c.tree, c.tree.root, Listed(tree[s])) :
            Becomes(b.mem) /\ tree' = [tree EXCEPT ![t] = b.tree]
  BY DEF CopyAssign
<1>4. PICK c \in Clear(Mem, tree[t]) :
        \E b \in Fill(c.mem, c.tree, c.tree.root, Listed(tree[s])) :
          Becomes(b.mem) /\ tree' = [tree EXCEPT ![t] = b.tree]
  BY <1>3
<1>5. PICK b \in Fill(c.mem, c.tree, c.tree.root, Listed(tree[s])) :
        Becomes(b.mem) /\ tree' = [tree EXCEPT ![t] = b.tree]
  BY <1>4
<1>6. Sound(tree, lost, Mem, LP, IP, made) /\ t \in Tree /\ tree[t].alive
  BY <1>1 DEF Alive, Sorted
<1>7. tree \in [Tree -> TreeRecord] /\ Listed(tree[s]) \in SUBSET Elem
  BY <1>6, ListedElems DEF Alive, Sound
<1> DEFINE T1 == [tree EXCEPT ![t] = c.tree]
<1>8. Sound(T1, lost, c.mem, LP, IP, made) /\ c.tree.alive /\ c.tree.rootIsLeaf
  BY <1>6, ClearSound
<1>9. T1[t] = c.tree /\ [T1 EXCEPT ![t] = b.tree] = tree'
  BY <1>5, <1>6, <1>7
<1> HIDE DEF T1
<1>10. b \in Fill(c.mem, c.tree, T1[t].root, Listed(tree[s]))
  BY <1>9
<1>11. /\ T1[t].alive /\ T1[t].rootIsLeaf /\ c.tree.stray \in SUBSET Elem
       /\ c.tree.leafAlloc = T1[t].leafAlloc /\ c.tree.innerAlloc = T1[t].innerAlloc
  BY <1>6, <1>8, <1>9 DEF Sound, TreeRecord
<1>12. Sound([T1 EXCEPT ![t] = b.tree], lost, b.mem, LP, IP, made)
  BY <1>6, <1>7, <1>8, <1>10, <1>11, FillSound
<1>13. Mem' = b.mem
  BY <1>5, <1>12, BecomesIs
<1> QED
  BY <1>1, <1>2, <1>9, <1>12, <1>13, SameClient

LEMMA CopyAssignThrowsKeeps == ASSUME IInv, CopyAssignThrows, UNCHANGED allocator PROVE IInv'
<1>1. PICK LP \in SUBSET Pool, IP \in SUBSET Pool : Sorted(LP, IP)
  BY DEF IInv
<1>2. UNCHANGED <<allocator, made, held>>
  BY DEF CopyAssignThrows, Use
<1>3. PICK t \in Alive, s \in Alive :
        \E c \in Clear(Mem, tree[t]) :
          \E o \in FillThrows(c.mem, c.tree, c.tree.root, Listed(tree[s])) :
            Becomes(o.mem) /\ Loses(o.lost, {}) /\ tree' = [tree EXCEPT ![t] = o.tree]
  BY DEF CopyAssignThrows
<1>4. PICK c \in Clear(Mem, tree[t]) :
        \E o \in FillThrows(c.mem, c.tree, c.tree.root, Listed(tree[s])) :
          Becomes(o.mem) /\ Loses(o.lost, {}) /\ tree' = [tree EXCEPT ![t] = o.tree]
  BY <1>3
<1>5. PICK o \in FillThrows(c.mem, c.tree, c.tree.root, Listed(tree[s])) :
        Becomes(o.mem) /\ Loses(o.lost, {}) /\ tree' = [tree EXCEPT ![t] = o.tree]
  BY <1>4
<1>6. Sound(tree, lost, Mem, LP, IP, made) /\ t \in Tree /\ tree[t].alive
  BY <1>1 DEF Alive, Sorted
<1>7. tree \in [Tree -> TreeRecord] /\ Listed(tree[s]) \in SUBSET Elem
  BY <1>6, ListedElems DEF Alive, Sound
<1> DEFINE T1 == [tree EXCEPT ![t] = c.tree]
<1>8. Sound(T1, lost, c.mem, LP, IP, made) /\ c.tree.alive /\ c.tree.rootIsLeaf
  BY <1>6, ClearSound
<1>9. T1[t] = c.tree /\ [T1 EXCEPT ![t] = o.tree] = tree'
  BY <1>5, <1>6, <1>7
<1> DEFINE Y == WithLost(lost, o.lost, {})
<1>14. lost' = Y
  BY <1>5 DEF Loses, WithLost
<1> HIDE DEF T1
<1>10. o \in FillThrows(c.mem, c.tree, T1[t].root, Listed(tree[s]))
  BY <1>9
<1>11. /\ T1[t].alive /\ T1[t].rootIsLeaf /\ c.tree.stray \in SUBSET Elem
       /\ c.tree.leafAlloc = T1[t].leafAlloc /\ c.tree.innerAlloc = T1[t].innerAlloc
  BY <1>6, <1>8, <1>9 DEF Sound, TreeRecord
<1>12. Sound([T1 EXCEPT ![t] = o.tree], Y, o.mem, LP, IP, made)
  BY <1>6, <1>7, <1>8, <1>10, <1>11, FillThrowsSound
<1> HIDE DEF Y
<1>13. Mem' = o.mem
  BY <1>5, <1>12, BecomesIs
<1> QED
  BY <1>1, <1>2, <1>9, <1>12, <1>13, <1>14, ClientStays

\* The trees that a move leaves, when the target was no tree: they exchange places,
\* and a new root is made for the one that was moved from.
LEMMA MoveSound ==
  ASSUME NEW T, NEW X, NEW m, NEW LP, NEW IP, NEW P, Sound(T, X, m, LP, IP, P),
         NEW t \in Tree, NEW s \in Tree, t # s, T[t] = NoTree, T[s].alive,
         NEW r, r.leafAlloc = T[s].leafAlloc, r.innerAlloc = T[s].innerAlloc,
         NEW b \in LeavesEmpty(m, r)
  PROVE  Sound([T EXCEPT ![t] = T[s], ![s] = b.tree], X, b.mem, LP, IP, P)
<1> DEFINE T1 == [T EXCEPT ![t] = T[s], ![s] = T[t]]
           q  == [NoTree EXCEPT !.leafAlloc = r.leafAlloc, !.innerAlloc = r.innerAlloc]
<1>1. Sound(T1, X, m, LP, IP, P)
  BY ExchangeSound
<1>2. T \in [Tree -> TreeRecord]
  BY DEF Sound
<1>3. T1[s] = NoTree /\ [T1 EXCEPT ![s] = b.tree] = [T EXCEPT ![t] = T[s], ![s] = b.tree]
  BY <1>2
<1>4. /\ T[s].leafAlloc \in LP /\ T[s].innerAlloc \in IP
      /\ T[s].leafAlloc \in Pool /\ T[s].innerAlloc \in Pool
  BY DEF Sound, SoundTree, SoundMemory
<1>5. q \in TreeRecord /\ q.leafAlloc \in LP /\ q.innerAlloc \in IP
  BY <1>4 DEF NoTree, TreeRecord
<1>6. {} \in SUBSET Elem /\ b \in Build(m, q, {})
  BY DEF LeavesEmpty
<1> HIDE DEF T1, q
<1>7. Sound([T1 EXCEPT ![s] = b.tree], X, b.mem, LP, IP, P)
  BY <1>1, <1>3, <1>5, <1>6, BuildSound
<1> QED
  BY <1>3, <1>7

\* Two trees with the same pools: what one takes from the other is all it has.
LEMMA TakesAll ==
  ASSUME NEW r \in TreeRecord, NEW s \in TreeRecord, SamePools(r, s)
  PROVE  Takes(r, s) = s
BY DEF TreeRecord, SamePools, Takes

LEMMA MoveConstructKeeps == ASSUME IInv, MoveConstruct, UNCHANGED <<allocator, lost>>
  PROVE  IInv'
<1>1. PICK LP \in SUBSET Pool, IP \in SUBSET Pool : Sorted(LP, IP)
  BY DEF IInv
<1>2. UNCHANGED <<allocator, made, held, lost>>
  BY DEF MoveConstruct, Use
<1>3. Sound(tree, lost, Mem, LP, IP, made) /\ tree \in [Tree -> TreeRecord]
  BY <1>1 DEF Sorted, Sound
<1>4. PICK t \in Dead, s \in Alive :
        IF MovedFromPools(tree[s]).leafAlloc = Null THEN UNCHANGED <<tree, mem>>
        ELSE \E b \in LeavesEmpty(Mem, MovedFromPools(tree[s])) :
               /\ Becomes(b.mem)
               /\ tree' = [tree EXCEPT ![t] = Takes(CopiedPools(tree[s]), tree[s]),
                                       ![s] = b.tree]
  BY DEF MoveConstruct
<1>5. CASE MovedFromPools(tree[s]).leafAlloc = Null
  <2>1. tree' = tree /\ Mem' = Mem
    BY <1>4, <1>5 DEF mem, Mem
  <2> QED
    BY <1>1, <1>2, <1>3, <2>1, SameClient
<1>6. CASE MovedFromPools(tree[s]).leafAlloc # Null
  <2>1. PICK b \in LeavesEmpty(Mem, MovedFromPools(tree[s])) :
          /\ Becomes(b.mem)
          /\ tree' = [tree EXCEPT ![t] = Takes(CopiedPools(tree[s]), tree[s]),
                                  ![s] = b.tree]
    BY <1>4, <1>6
  <2>2. t \in Tree /\ s \in Tree /\ t # s /\ tree[t] = NoTree /\ tree[s].alive
    BY <1>3 DEF Dead, Alive, Sound, SoundTree
  <2>3. MovedFromPools(tree[s]) = tree[s]
    <3>1. CASE allocator = "multi"
      <4>1. tree[s] \in TreeRecord
        BY <1>3, <2>2
      <4>2. [tree[s] EXCEPT !.leafAlloc = Null, !.innerAlloc = Null].leafAlloc = Null
        BY <4>1 DEF TreeRecord
      <4> QED
        BY <1>6, <3>1, <4>2 DEF MovedFromPools
    <3>2. CASE allocator # "multi"
      BY <3>2 DEF MovedFromPools
    <3> QED
      BY <3>1, <3>2
  <2>4. Takes(CopiedPools(tree[s]), tree[s]) = tree[s]
    <3>1. tree[s] \in TreeRecord
      BY <1>3, <2>2
    <3>2. /\ CopiedPools(tree[s]).leafAlloc = tree[s].leafAlloc
          /\ CopiedPools(tree[s]).innerAlloc = tree[s].innerAlloc
          /\ CopiedPools(tree[s]) \in TreeRecord
      BY <3>1 DEF CopiedPools, WithPools, NoTree, TreeRecord
    <3> QED
      BY <3>1, <3>2, TakesAll DEF SamePools
  <2>5. b \in LeavesEmpty(Mem, tree[s]) /\ tree' = [tree EXCEPT ![t] = tree[s], ![s] = b.tree]
    BY <2>1, <2>3, <2>4
  <2>6. Sound(tree', lost, b.mem, LP, IP, made)
    BY <1>3, <2>2, <2>5, MoveSound
  <2>7. Mem' = b.mem
    BY <2>1, <2>6, BecomesIs
  <2> QED
    BY <1>1, <1>2, <2>6, <2>7, SameClient
<1> QED
  BY <1>5, <1>6

\* The old nodes go back, which leaves no tree to move to.
LEMMA MoveAssignKeeps ==
  ASSUME IInv, MoveAssign, UNCHANGED <<allocator, lost>>, AcrossPools = FALSE PROVE IInv'
<1>1. PICK LP \in SUBSET Pool, IP \in SUBSET Pool : Sorted(LP, IP)
  BY DEF IInv
<1>2. UNCHANGED <<allocator, made, held, lost>>
  BY DEF MoveAssign, Use
<1>3. Sound(tree, lost, Mem, LP, IP, made) /\ tree \in [Tree -> TreeRecord]
  BY <1>1 DEF Sorted, Sound
<1>4. PICK t \in Alive, s \in Alive :
        /\ t # s /\ SamePools(tree[t], tree[s])
        /\ \E b \in LeavesEmpty(Give(Mem, tree[t]), tree[s]) :
             /\ Becomes(b.mem)
             /\ tree' = [tree EXCEPT ![t] = Takes(tree[t], tree[s]), ![s] = b.tree]
  BY DEF MoveAssign
<1>5. PICK b \in LeavesEmpty(Give(Mem, tree[t]), tree[s]) :
        /\ Becomes(b.mem)
        /\ tree' = [tree EXCEPT ![t] = Takes(tree[t], tree[s]), ![s] = b.tree]
  BY <1>4
<1>6. t \in Tree /\ s \in Tree /\ t # s /\ tree[t].alive /\ tree[s].alive
  BY <1>4 DEF Alive
<1>7. Takes(tree[t], tree[s]) = tree[s]
  BY <1>3, <1>4, <1>6, TakesAll
<1> DEFINE T1 == [tree EXCEPT ![t] = NoTree]
           m  == Give(Mem, tree[t])
<1>8. Sound(T1, lost, m, LP, IP, made)
  BY <1>3, <1>6, DestroySound
<1>9. /\ T1[t] = NoTree /\ T1[s] = tree[s]
      /\ [T1 EXCEPT ![t] = tree[s], ![s] = b.tree] = tree'
  BY <1>3, <1>5, <1>6, <1>7
<1> HIDE DEF T1, m
<1>10. b \in LeavesEmpty(m, tree[s])
  BY DEF m
<1>11. /\ T1[s].alive
       /\ tree[s].leafAlloc = T1[s].leafAlloc /\ tree[s].innerAlloc = T1[s].innerAlloc
  BY <1>6, <1>9
<1>12. Sound([T1 EXCEPT ![t] = T1[s], ![s] = b.tree], lost, b.mem, LP, IP, made)
  BY <1>6, <1>8, <1>9, <1>10, <1>11, MoveSound
<1>13. Sound(tree', lost, b.mem, LP, IP, made)
  BY <1>9, <1>12
<1>14. Mem' = b.mem
  BY <1>5, <1>13, BecomesIs
<1> QED
  BY <1>1, <1>2, <1>13, <1>14, SameClient

LEMMA SwapKeeps == ASSUME IInv, Swap, UNCHANGED <<allocator, lost>>, AcrossPools = FALSE PROVE IInv'
<1>1. PICK LP \in SUBSET Pool, IP \in SUBSET Pool : Sorted(LP, IP)
  BY DEF IInv
<1>2. UNCHANGED <<allocator, made, held, lost>> /\ UNCHANGED mem
  BY DEF Swap, Use
<1>3. Sound(tree, lost, Mem, LP, IP, made) /\ tree \in [Tree -> TreeRecord]
  BY <1>1 DEF Sorted, Sound
<1>4. PICK t \in Alive, s \in Alive :
        /\ t # s /\ SamePools(tree[t], tree[s])
        /\ tree' = [tree EXCEPT ![t] = Takes(tree[t], tree[s]), ![s] = Takes(tree[s], tree[t])]
  BY DEF Swap, Swapped
<1>5. t \in Tree /\ s \in Tree /\ t # s
  BY <1>4 DEF Alive
<1>6. Takes(tree[t], tree[s]) = tree[s] /\ Takes(tree[s], tree[t]) = tree[t]
  <2>1. SamePools(tree[s], tree[t])
    BY <1>4 DEF SamePools
  <2> QED
    BY <1>3, <1>4, <1>5, <2>1, TakesAll
<1>7. Sound(tree', lost, Mem, LP, IP, made)
  BY <1>3, <1>4, <1>5, <1>6, ExchangeSound
<1>8. Mem' = Mem
  BY <1>2 DEF mem, Mem
<1> QED
  BY <1>1, <1>2, <1>7, <1>8, SameClient

LEMMA StuttersKeep == ASSUME IInv, UNCHANGED vars PROVE IInv'
<1>1. PICK LP \in SUBSET Pool, IP \in SUBSET Pool : Sorted(LP, IP)
  BY DEF IInv
<1>2. UNCHANGED <<allocator, made, held, lost>> /\ tree' = tree /\ Mem' = Mem
  BY DEF vars, mem, Mem
<1> QED
  BY <1>1, <1>2, SameClient DEF Sorted

LEMMA NextKeeps == ASSUME IInv, [Next]_vars, AcrossPools = FALSE PROVE IInv'
<1>1. CASE UNCHANGED vars
  BY <1>1, StuttersKeep
<1>2. CASE Next /\ Returns /\ UNCHANGED lost
  <2>1. Returns /\ UNCHANGED <<allocator, lost>>
    BY <1>2 DEF Next
  <2> QED
    BY <2>1, ConstructKeeps, DestroyKeeps, DropAllocatorKeeps, InsertElementKeeps,
       ClearTreeKeeps, CopyConstructKeeps, CopyAssignKeeps, MoveConstructKeeps,
       MoveAssignKeeps, SwapKeeps, StuttersKeep DEF Returns, Finished
<1>3. CASE Next /\ Throw
  <2>1. Throw /\ UNCHANGED allocator
    BY <1>3 DEF Next
  <2> QED
    BY <2>1, ConstructThrowsKeeps, InsertThrowsKeeps, CopyConstructThrowsKeeps,
       CopyAssignThrowsKeeps DEF Throw
<1> QED
  BY <1>1, <1>2, <1>3 DEF Next

\* Memory that has never been used, before there is a tree.
LEMMA NothingIsSound ==
  ASSUME NEW LP, NEW IP, NEW P \in SUBSET Pool, LP \subseteq P, IP \subseteq P,
         allocator = "multi" \/ LP \cap IP = {}
  PROVE  Sound([t \in Tree |-> NoTree], [leaves |-> {}, inners |-> {}],
               [home |-> [b \in Node |-> Null], type |-> [b \in Node |-> "none"],
                free |-> [p \in Pool |-> {}]], LP, IP, P)
<1> DEFINE T == [t \in Tree |-> NoTree]
           X == [leaves |-> {}, inners |-> {}]
           m == [home |-> [b \in Node |-> Null], type |-> [b \in Node |-> "none"],
                 free |-> [p \in Pool |-> {}]]
<1>1. /\ NoTree \in TreeRecord /\ ~NoTree.alive /\ NoTree.leaves = {} /\ NoTree.inners = {}
  BY DEF NoTree, TreeRecord
<1>2. T \in [Tree -> TreeRecord] /\ \A t \in Tree : T[t] = NoTree
  BY <1>1
<1>3. /\ \A b \in Node : m.home[b] = Null
      /\ \A p \in Pool : m.free[p] = {}
      /\ m \in [home : [Node -> P \cup {Null}], type : [Node -> {"none", "leaf", "inner"}],
                free : [Pool -> SUBSET Node]]
  OBVIOUS
<1>10. X.leaves = {} /\ X.inners = {}
  OBVIOUS
<1> HIDE DEF T, m, X
<1>4. Leaves(T, X) = {} /\ Inners(T, X) = {}
  BY <1>1, <1>2, <1>10 DEF Leaves, Inners
<1>5. Null \notin LP /\ Null \notin IP
  BY NullAssumption
<1>6. SoundMemory(m, {}, {}, LP, IP, P)
  BY <1>3, <1>5 DEF SoundMemory
<1>7. \A t \in Tree : SoundTree(m, LP, IP, T[t])
  BY <1>1, <1>2 DEF SoundTree
<1>8. NothingShared(T, X)
  BY <1>1, <1>2, <1>10 DEF NothingShared
<1>9. Sound(T, X, m, LP, IP, P)
  BY <1>2, <1>4, <1>6, <1>7, <1>8 DEF Sound
<1> QED
  BY <1>9 DEF T, m, X

LEMMA InitKeeps == ASSUME Init PROVE IInv
<1>1. PICK p \in TwoOf(Pool) :
        made = CASE allocator = "own" -> {} [] allocator = "policy" -> {p[1], p[2]}
                 [] allocator = "multi" -> {p[1]}
  BY DEF Init
<1>2. /\ allocator \in {"own", "policy", "multi"} /\ allocator \in DOMAIN Operations
      /\ held = made
  BY ShapeAssumption DEF Init
<1>3. p[1] \in Pool /\ p[2] \in Pool /\ p[1] # p[2]
  BY DEF TwoOf
<1>4. /\ tree = [t \in Tree |-> NoTree]
      /\ Mem = [home |-> [b \in Node |-> Null], type |-> [b \in Node |-> "none"],
                free |-> [q \in Pool |-> {}]]
      /\ lost = [leaves |-> {}, inners |-> {}]
  BY DEF Init, Mem
<1>5. CASE allocator = "own"
  <2>1. made = {} /\ ClientPools = {}
    BY <1>1, <1>2, <1>5 DEF ClientPools
  <2>2. Sound(tree, lost, Mem, {}, {}, made)
    BY <1>4, <2>1, NothingIsSound
  <2>3. Sorted({}, {})
    BY <1>2, <2>1, <2>2 DEF Sorted
  <2> QED
    BY <2>3 DEF IInv
<1>6. CASE allocator = "policy"
  <2>1. made = {p[1], p[2]} /\ held = made
    BY <1>1, <1>2, <1>6
  <2>2. \A pq \in ClientPools : \A xy \in ClientPools : pq[1] = xy[1] /\ pq[2] = xy[2]
    <3> DEFINE c == CHOOSE x \in held : TRUE
    <3>1. \A pq \in ClientPools : pq[1] = c /\ pq[2] = CHOOSE x \in held \ {pq[1]} : TRUE
      BY <1>6 DEF ClientPools, TwoOf
    <3> HIDE DEF c
    <3>2. \A pq \in ClientPools : pq[2] = CHOOSE x \in held \ {c} : TRUE
      BY <3>1
    <3> QED
      BY <3>1, <3>2
  <2>3. \A pq \in ClientPools : pq[1] \in made /\ pq[2] \in made /\ pq[1] # pq[2]
    BY <1>6, <2>1 DEF ClientPools, TwoOf
  <2> DEFINE LP == {pq[1] : pq \in ClientPools}
             IP == {pq[2] : pq \in ClientPools}
  <2>4. LP \subseteq made /\ IP \subseteq made /\ LP \cap IP = {} /\ made \in SUBSET Pool
    BY <1>3, <2>1, <2>2, <2>3
  <2> HIDE DEF LP, IP
  <2>5. Sound(tree, lost, Mem, LP, IP, made)
    BY <1>4, <2>4, NothingIsSound
  <2>6. \A pq \in ClientPools : pq[1] \in LP /\ pq[2] \in IP
    BY DEF LP, IP
  <2>7. Sorted(LP, IP)
    BY <1>2, <2>5, <2>6 DEF Sorted
  <2>8. LP \in SUBSET Pool /\ IP \in SUBSET Pool
    BY <2>4
  <2> QED
    BY <2>7, <2>8 DEF IInv
<1>7. CASE allocator = "multi"
  <2>1. made = {p[1]} /\ held = made
    BY <1>1, <1>2, <1>7
  <2>2. \A pq \in ClientPools : pq[1] \in made /\ pq[2] \in made
    BY <1>7, <2>1 DEF ClientPools
  <2>3. made \in SUBSET Pool
    BY <1>3, <2>1
  <2>4. Sound(tree, lost, Mem, made, made, made)
    BY <1>4, <1>7, <2>3, NothingIsSound
  <2>5. Sorted(made, made)
    BY <1>2, <2>2, <2>4 DEF Sorted
  <2> QED
    BY <2>3, <2>5 DEF IInv
<1> QED
  BY <1>2, <1>5, <1>6, <1>7

----------------------------------------------------------------------------
(* What follows for the trees. *)

\* What the properties below need to know.
LEMMA IInvFacts ==
  ASSUME IInv
  PROVE  \E LP, IP \in SUBSET Pool :
           /\ Sound(tree, lost, Mem, LP, IP, made) /\ held \subseteq Pool
           /\ Mem.home = home /\ Mem.type = type /\ Mem.free = free
<1>1. PICK LP \in SUBSET Pool, IP \in SUBSET Pool : Sorted(LP, IP)
  BY DEF IInv
<1>2. Mem.home = home /\ Mem.type = type /\ Mem.free = free
  BY DEF Mem
<1>3. Sound(tree, lost, Mem, LP, IP, made) /\ held \subseteq Pool
  BY <1>1 DEF Sorted, Sound, SoundMemory
<1> QED
  BY <1>2, <1>3

LEMMA Owned ==
  ASSUME IInv
  PROVE  /\ held \subseteq Pool
         /\ \A t \in Tree : /\ tree[t].alive => /\ tree[t].leafAlloc \in Pool
                                                /\ tree[t].innerAlloc \in Pool
                            /\ ~tree[t].alive => NodesOf(t) = {}
                            /\ NodesOf(t) \subseteq Leaves(tree, lost) \cup Inners(tree, lost)
                            /\ \A b \in NodesOf(t) : /\ b \in Node
                                                     /\ \/ home[b] = tree[t].leafAlloc
                                                        \/ home[b] = tree[t].innerAlloc
<1>1. PICK LP \in SUBSET Pool, IP \in SUBSET Pool :
        /\ Sound(tree, lost, Mem, LP, IP, made) /\ held \subseteq Pool
        /\ Mem.home = home
  BY IInvFacts
<1>2. ASSUME NEW t \in Tree
      PROVE  /\ tree[t].alive => /\ tree[t].leafAlloc \in Pool
                                 /\ tree[t].innerAlloc \in Pool
             /\ ~tree[t].alive => NodesOf(t) = {}
             /\ \A b \in NodesOf(t) : /\ b \in Node
                                      /\ \/ home[b] = tree[t].leafAlloc
                                         \/ home[b] = tree[t].innerAlloc
  <2>1. SoundTree(Mem, LP, IP, tree[t])
    BY <1>1 DEF Sound
  <2>2. NoTree.leaves = {} /\ NoTree.inners = {}
    BY DEF NoTree
  <2>3. tree[t].leaves \subseteq Node /\ tree[t].inners \subseteq Node
    BY <2>1 DEF SoundTree, TreeRecord
  <2> QED
    BY <1>1, <2>1, <2>2, <2>3 DEF SoundTree, NodesOf
<1>3. \A t \in Tree : NodesOf(t) \subseteq Leaves(tree, lost) \cup Inners(tree, lost)
  BY DEF NodesOf, Leaves, Inners
<1> QED
  BY <1>1, <1>2, <1>3

LEMMA InvNodesMapped == ASSUME IInv PROVE NodesMapped
BY Owned DEF NodesMapped, Mapped, Alive

LEMMA InvBlocksComeHome == ASSUME IInv PROVE BlocksComeHome
<1>1. PICK LP \in SUBSET Pool, IP \in SUBSET Pool :
        /\ Sound(tree, lost, Mem, LP, IP, made)
        /\ Mem.home = home /\ Mem.free = free
  BY IInvFacts
<1>2. Mapped \ {Null} \subseteq Pool
  BY Owned DEF Mapped, Alive
<1>3. \A p \in Pool : \A b \in free[p] :
        home[b] = p /\ b \notin Leaves(tree, lost) \cup Inners(tree, lost)
  BY <1>1 DEF Sound, SoundMemory
<1>4. \A t \in Alive : NodesOf(t) \subseteq Leaves(tree, lost) \cup Inners(tree, lost)
  BY Owned DEF Alive
<1> QED
  BY <1>2, <1>3, <1>4 DEF BlocksComeHome

\* A block is a node of one tree, or lies on one free list, or is lost.
LEMMA InvOnlyThrowsLeak == ASSUME IInv PROVE OnlyThrowsLeak
<1>1. PICK LP \in SUBSET Pool, IP \in SUBSET Pool :
        /\ Sound(tree, lost, Mem, LP, IP, made)
        /\ Mem.home = home /\ Mem.type = type /\ Mem.free = free
  BY IInvFacts
<1>2. /\ SoundMemory(Mem, Leaves(tree, lost), Inners(tree, lost), LP, IP, made)
      /\ NothingShared(tree, lost)
  BY <1>1 DEF Sound
<1> SUFFICES ASSUME NEW b \in Node, home[b] \in Mapped \ {Null}
             PROVE  Cardinality({t \in Alive : b \in NodesOf(t)})
                      + Cardinality({p \in Pool : b \in free[p]})
                      + Cardinality({b} \cap (lost.leaves \cup lost.inners)) = 1
  BY DEF OnlyThrowsLeak
<1> DEFINE Owners == {t \in Alive : b \in NodesOf(t)}
           Lists  == {p \in Pool : b \in free[p]}
           Lost   == {b} \cap (lost.leaves \cup lost.inners)
<1>3. home[b] \in Pool
  BY Owned DEF Mapped, Alive
<1>4. \A p \in Pool : b \in free[p] =>
        home[b] = p /\ b \notin Leaves(tree, lost) /\ b \notin Inners(tree, lost)
  BY <1>1, <1>2 DEF SoundMemory
<1>5. b \in Leaves(tree, lost) \/ b \in Inners(tree, lost) \/ b \in free[home[b]]
  BY <1>1, <1>2 DEF SoundMemory
<1>6. ~(b \in Leaves(tree, lost) /\ b \in Inners(tree, lost))
  BY <1>2 DEF SoundMemory
<1>7. \A s \in Tree : /\ tree[s].leaves \subseteq Leaves(tree, lost)
                     /\ tree[s].inners \subseteq Inners(tree, lost)
                     /\ lost.leaves \subseteq Leaves(tree, lost)
                     /\ lost.inners \subseteq Inners(tree, lost)
  BY DEF Leaves, Inners
<1>8. CASE b \in lost.leaves \cup lost.inners
  <2>1. b \in Leaves(tree, lost) \/ b \in Inners(tree, lost)
    BY <1>8 DEF Leaves, Inners
  <2>2. Lists = {} /\ Lost = {b}
    BY <1>4, <1>8, <2>1
  <2>3. \A s \in Tree : b \notin NodesOf(s)
    BY <1>2, <1>6, <1>7, <1>8 DEF NothingShared, NodesOf
  <2>4. Owners = {}
    BY <2>3 DEF Alive
  <2> HIDE DEF Owners, Lists, Lost
  <2>5. Cardinality(Owners) = 0 /\ Cardinality(Lists) = 0 /\ Cardinality(Lost) = 1
    BY <2>2, <2>4, FS_EmptySet, FS_Singleton
  <2> QED
    BY <2>5 DEF Owners, Lists, Lost
<1>9. CASE /\ b \in Leaves(tree, lost) \cup Inners(tree, lost)
           /\ b \notin lost.leaves \cup lost.inners
  <2>1. Lists = {} /\ Lost = {}
    BY <1>4, <1>9
  <2>2. PICK t \in Tree : b \in NodesOf(t)
    BY <1>9 DEF Leaves, Inners, NodesOf
  <2>3. t \in Alive
    BY <2>2, Owned DEF Alive
  <2>5. \A s \in Tree : b \in NodesOf(s) => s = t
    BY <1>2, <1>6, <1>7, <2>2 DEF NothingShared, NodesOf
  <2>6. Owners = {t}
    BY <2>2, <2>3, <2>5 DEF Alive
  <2> HIDE DEF Owners, Lists, Lost
  <2>7. Cardinality(Owners) = 1 /\ Cardinality(Lists) = 0 /\ Cardinality(Lost) = 0
    BY <2>1, <2>6, FS_EmptySet, FS_Singleton
  <2> QED
    BY <2>7 DEF Owners, Lists, Lost
<1>10. CASE b \notin Leaves(tree, lost) \cup Inners(tree, lost)
  <2>1. Lists = {home[b]}
    BY <1>3, <1>4, <1>5, <1>10
  <2>2. Owners = {} /\ Lost = {}
    BY <1>10, Owned DEF Alive, Leaves, Inners
  <2> HIDE DEF Owners, Lists, Lost
  <2>3. Cardinality(Owners) = 0 /\ Cardinality(Lists) = 1 /\ Cardinality(Lost) = 0
    BY <2>1, <2>2, FS_EmptySet, FS_Singleton
  <2> QED
    BY <2>3 DEF Owners, Lists, Lost
<1> QED
  BY <1>8, <1>9, <1>10

LEMMA InvRootsOwned == ASSUME IInv PROVE RootsOwned
<1>1. PICK LP \in SUBSET Pool, IP \in SUBSET Pool : Sound(tree, lost, Mem, LP, IP, made)
  BY IInvFacts
<1>2. \A t \in Alive : SoundTree(Mem, LP, IP, tree[t])
  BY <1>1 DEF Sound, Alive
<1> QED
  BY <1>2 DEF RootsOwned, SoundTree, Alive

LEMMA InvBlocksOfOneType == ASSUME IInv PROVE BlocksOfOneType
<1>1. PICK LP \in SUBSET Pool, IP \in SUBSET Pool :
        Sound(tree, lost, Mem, LP, IP, made) /\ Mem.type = type
  BY IInvFacts
<1>2. SoundMemory(Mem, Leaves(tree, lost), Inners(tree, lost), LP, IP, made)
  BY <1>1 DEF Sound
<1> QED
  BY <1>1, <1>2 DEF BlocksOfOneType, SoundMemory, Leaves, Inners, Alive

\* Moves and swaps between trees of the same pools only.
EqualPools == AcrossPools = FALSE

\* No pool of HugePageAllocator, TwoPoolPolicy or MultiSizeHugePageAllocator goes
\* before the last tree with a node in it, whatever was copied, moved, swapped or
\* destroyed before.
THEOREM LifecycleNodesMapped == ASSUME EqualPools PROVE Spec => []NodesMapped
<1>1. Init => IInv
  BY InitKeeps
<1>2. IInv /\ [Next]_vars => IInv'
  BY NextKeeps DEF EqualPools
<1>3. IInv => NodesMapped
  BY InvNodesMapped
<1> QED
  BY <1>1, <1>2, <1>3, PTL DEF Spec

\* A free list holds blocks of its own pool that no tree uses.
THEOREM LifecycleBlocksComeHome == ASSUME EqualPools PROVE Spec => []BlocksComeHome
<1>1. Init => IInv
  BY InitKeeps
<1>2. IInv /\ [Next]_vars => IInv'
  BY NextKeeps DEF EqualPools
<1>3. IInv => BlocksComeHome
  BY InvBlocksComeHome
<1> QED
  BY <1>1, <1>2, <1>3, PTL DEF Spec

\* A block that was cut is a node of exactly one tree, or on exactly one free list, or
\* what a call that threw has lost: the leaf that an insert had split off by then, the
\* nodes of a copy constructor.  No other construction, copy, assignment, move, swap,
\* clear or destruction leaks or shares a node.
THEOREM LifecycleOnlyThrowsLeak == ASSUME EqualPools PROVE Spec => []OnlyThrowsLeak
<1>1. Init => IInv
  BY InitKeeps
<1>2. IInv /\ [Next]_vars => IInv'
  BY NextKeeps DEF EqualPools
<1>3. IInv => OnlyThrowsLeak
  BY InvOnlyThrowsLeak
<1> QED
  BY <1>1, <1>2, <1>3, PTL DEF Spec

\* Every tree, moved-from ones too, has a root of its own of the kind its flag says.
THEOREM LifecycleRootsOwned == ASSUME EqualPools PROVE Spec => []RootsOwned
<1>1. Init => IInv
  BY InitKeeps
<1>2. IInv /\ [Next]_vars => IInv'
  BY NextKeeps DEF EqualPools
<1>3. IInv => RootsOwned
  BY InvRootsOwned
<1> QED
  BY <1>1, <1>2, <1>3, PTL DEF Spec

\* A node lies in a block that was cut for nodes of its kind.
THEOREM LifecycleBlocksOfOneType == ASSUME EqualPools PROVE Spec => []BlocksOfOneType
<1>1. Init => IInv
  BY InitKeeps
<1>2. IInv /\ [Next]_vars => IInv'
  BY NextKeeps DEF EqualPools
<1>3. IInv => BlocksOfOneType
  BY InvBlocksOfOneType
<1> QED
  BY <1>1, <1>2, <1>3, PTL DEF Spec
=============================================================================
