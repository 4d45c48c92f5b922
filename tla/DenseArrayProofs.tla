-------------------------- MODULE DenseArrayProofs --------------------------
(***************************************************************************)
(* Lookups in the arrays of dense_map, what the shifting of their slots    *)
(* does, and that the arrays implement the maps of DenseMaps, for any      *)
(* capacity, keys and values.                                              *)
(***************************************************************************)
EXTENDS DenseArray, Induction, FiniteSetTheorems

----------------------------------------------------------------------------
(* Moves of slots.  Each recursive function has a closed form: the form    *)
(* satisfies the recursive equation, so a function that does exists, and   *)
(* by induction it is the only one.                                        *)

\* Slots [first, first + n) of f after a move to those from dest on, dest < first.
MovedDown(f, first, n, dest) ==
  [i \in DOMAIN f |-> IF i \in dest .. dest + n - 1 THEN f[i - dest + first]
                      ELSE IF i \in first .. first + n - 1 THEN Left(f[i]) ELSE f[i]]

\* Slots [last - n, last) of f after a move to those before destLast > last.
MovedUp(f, last, n, destLast) ==
  [i \in DOMAIN f |-> IF i \in destLast - n .. destLast - 1 THEN f[i - destLast + last]
                      ELSE IF i \in last - n .. last - 1 THEN Left(f[i]) ELSE f[i]]

LEMMA MoveForwardIs ==
  ASSUME NEW f, f = [i \in DOMAIN f |-> f[i]],
         NEW first \in Nat, NEW last \in Nat, NEW dest \in Nat,
         dest < first, first =< last, \A i \in dest .. last - 1 : i \in DOMAIN f
  PROVE  MoveForward(f, first, last, dest) = MovedDown(f, first, last - first, dest)
<1> DEFINE D == DOMAIN f
           k == last - first
           g == CHOOSE g : g = [n \in 0 .. last - first |->
                  IF n = 0 THEN f ELSE MoveSlot(g[n - 1], first + n - 1, dest + n - 1)]
           h == [n \in 0 .. k |-> MovedDown(f, first, n, dest)]
<1>1. MoveForward(f, first, last, dest) = g[last - first]
  BY Zenon DEF MoveForward
<1>2. k \in Nat /\ DOMAIN f = D /\ f = [i \in D |-> f[i]]
  OBVIOUS
<1>3. MovedDown(f, first, 0, dest) = f
  <2>1. \A i \in D : i \notin dest .. dest + 0 - 1 /\ i \notin first .. first + 0 - 1
    OBVIOUS
  <2> QED
    BY <1>2, <2>1 DEF MovedDown
<1>4. ASSUME NEW n \in 1 .. k
      PROVE  MovedDown(f, first, n, dest)
               = MoveSlot(MovedDown(f, first, n - 1, dest), first + n - 1, dest + n - 1)
  <2> DEFINE d == MovedDown(f, first, n - 1, dest)
             i0 == first + n - 1
             j0 == dest + n - 1
  <2>1. /\ DOMAIN d = D
        /\ \A i \in D : d[i] = IF i \in dest .. dest + (n - 1) - 1 THEN f[i - dest + first]
                               ELSE IF i \in first .. first + (n - 1) - 1 THEN Left(f[i])
                               ELSE f[i]
    BY <1>2 DEF MovedDown
  <2>2. i0 \in D /\ j0 \in D /\ i0 # j0
    OBVIOUS
  <2>3. d[i0] = f[i0]
    BY <2>1, <2>2
  <2> HIDE DEF d
  <2>4. MoveSlot(d, i0, j0) =
          [i \in D |-> IF i = i0 THEN Left(f[i0]) ELSE IF i = j0 THEN f[i0] ELSE d[i]]
    BY <2>1, <2>2, <2>3 DEF MoveSlot
  <2>5. ASSUME NEW i \in D
        PROVE  (IF i = i0 THEN Left(f[i0]) ELSE IF i = j0 THEN f[i0] ELSE d[i])
                 = IF i \in dest .. dest + n - 1 THEN f[i - dest + first]
                   ELSE IF i \in first .. first + n - 1 THEN Left(f[i]) ELSE f[i]
    <3>1. CASE i = i0
      BY <3>1
    <3>2. CASE i = j0
      BY <2>2, <3>2
    <3>3. CASE i # i0 /\ i # j0
      BY <2>1, <3>3
    <3> QED
      BY <3>1, <3>2, <3>3
  <2>6. MovedDown(f, first, n, dest) =
          [i \in D |-> IF i \in dest .. dest + n - 1 THEN f[i - dest + first]
                       ELSE IF i \in first .. first + n - 1 THEN Left(f[i]) ELSE f[i]]
    BY <1>2 DEF MovedDown
  <2> HIDE DEF i0, j0
  <2>7. MovedDown(f, first, n, dest) = MoveSlot(d, i0, j0)
    BY <2>4, <2>5, <2>6
  <2> QED
    BY <2>7 DEF d, i0, j0
<1>5. h = [n \in 0 .. k |-> IF n = 0 THEN f
                            ELSE MoveSlot(h[n - 1], first + n - 1, dest + n - 1)]
  <2>1. \A n \in 0 .. k : h[n] = IF n = 0 THEN f
                                 ELSE MoveSlot(h[n - 1], first + n - 1, dest + n - 1)
    BY <1>2, <1>3, <1>4
  <2> QED
    BY <2>1
<1>6. g = [n \in 0 .. k |-> IF n = 0 THEN f
                            ELSE MoveSlot(g[n - 1], first + n - 1, dest + n - 1)]
  BY <1>5
<1> HIDE DEF g, h
<1> DEFINE T == {n \in Nat : n =< k => g[n] = h[n]}
<1>7. 0 \in T
  BY <1>2, <1>3, <1>6 DEF h
<1>8. ASSUME NEW n \in Nat, n \in T PROVE n + 1 \in T
  <2>1. CASE n + 1 =< k
    <3>1. n + 1 \in 0 .. k /\ n + 1 # 0 /\ (n + 1) - 1 = n /\ g[n] = h[n]
      BY <1>2, <1>8, <2>1
    <3>2. g[n + 1] = MoveSlot(g[(n + 1) - 1], first + (n + 1) - 1, dest + (n + 1) - 1)
      BY <1>6, <3>1
    <3>3. h[n + 1] = MoveSlot(h[(n + 1) - 1], first + (n + 1) - 1, dest + (n + 1) - 1)
      BY <1>5, <3>1
    <3> QED
      BY <3>1, <3>2, <3>3
  <2>2. CASE ~(n + 1 =< k)
    BY <2>2
  <2> QED
    BY <2>1, <2>2
<1>9. Nat \subseteq T
  BY <1>7, <1>8, SetInduction
<1>10. g[k] = h[k]
  BY <1>2, <1>9
<1> QED
  BY <1>1, <1>2, <1>10 DEF h

LEMMA MoveBackwardIs ==
  ASSUME NEW f, f = [i \in DOMAIN f |-> f[i]],
         NEW first \in Nat, NEW last \in Nat, NEW destLast \in Nat,
         last < destLast, first =< last, \A i \in first .. destLast - 1 : i \in DOMAIN f
  PROVE  MoveBackward(f, first, last, destLast) = MovedUp(f, last, last - first, destLast)
<1> DEFINE D == DOMAIN f
           k == last - first
           g == CHOOSE g : g = [n \in 0 .. last - first |->
                  IF n = 0 THEN f ELSE MoveSlot(g[n - 1], last - n, destLast - n)]
           h == [n \in 0 .. k |-> MovedUp(f, last, n, destLast)]
<1>1. MoveBackward(f, first, last, destLast) = g[last - first]
  BY Zenon DEF MoveBackward
<1>2. k \in Nat /\ DOMAIN f = D /\ f = [i \in D |-> f[i]]
  OBVIOUS
<1>3. MovedUp(f, last, 0, destLast) = f
  <2>1. \A i \in D : i \notin destLast - 0 .. destLast - 1 /\ i \notin last - 0 .. last - 1
    OBVIOUS
  <2> QED
    BY <1>2, <2>1 DEF MovedUp
<1>4. ASSUME NEW n \in 1 .. k
      PROVE  MovedUp(f, last, n, destLast)
               = MoveSlot(MovedUp(f, last, n - 1, destLast), last - n, destLast - n)
  <2> DEFINE d == MovedUp(f, last, n - 1, destLast)
             i0 == last - n
             j0 == destLast - n
  <2>1. /\ DOMAIN d = D
        /\ \A i \in D : d[i] = IF i \in destLast - (n - 1) .. destLast - 1
                               THEN f[i - destLast + last]
                               ELSE IF i \in last - (n - 1) .. last - 1 THEN Left(f[i])
                               ELSE f[i]
    BY <1>2 DEF MovedUp
  <2>2. i0 \in D /\ j0 \in D /\ i0 # j0
    OBVIOUS
  <2>3. d[i0] = f[i0]
    BY <2>1, <2>2
  <2> HIDE DEF d
  <2>4. MoveSlot(d, i0, j0) =
          [i \in D |-> IF i = i0 THEN Left(f[i0]) ELSE IF i = j0 THEN f[i0] ELSE d[i]]
    BY <2>1, <2>2, <2>3 DEF MoveSlot
  <2>5. ASSUME NEW i \in D
        PROVE  (IF i = i0 THEN Left(f[i0]) ELSE IF i = j0 THEN f[i0] ELSE d[i])
                 = IF i \in destLast - n .. destLast - 1 THEN f[i - destLast + last]
                   ELSE IF i \in last - n .. last - 1 THEN Left(f[i]) ELSE f[i]
    <3>1. CASE i = i0
      BY <3>1
    <3>2. CASE i = j0
      BY <2>2, <3>2
    <3>3. CASE i # i0 /\ i # j0
      BY <2>1, <3>3
    <3> QED
      BY <3>1, <3>2, <3>3
  <2>6. MovedUp(f, last, n, destLast) =
          [i \in D |-> IF i \in destLast - n .. destLast - 1 THEN f[i - destLast + last]
                       ELSE IF i \in last - n .. last - 1 THEN Left(f[i]) ELSE f[i]]
    BY <1>2 DEF MovedUp
  <2> HIDE DEF i0, j0
  <2>7. MovedUp(f, last, n, destLast) = MoveSlot(d, i0, j0)
    BY <2>4, <2>5, <2>6
  <2> QED
    BY <2>7 DEF d, i0, j0
<1>5. h = [n \in 0 .. k |-> IF n = 0 THEN f
                            ELSE MoveSlot(h[n - 1], last - n, destLast - n)]
  <2>1. \A n \in 0 .. k : h[n] = IF n = 0 THEN f
                                 ELSE MoveSlot(h[n - 1], last - n, destLast - n)
    BY <1>2, <1>3, <1>4
  <2> QED
    BY <2>1
<1>6. g = [n \in 0 .. k |-> IF n = 0 THEN f
                            ELSE MoveSlot(g[n - 1], last - n, destLast - n)]
  BY <1>5
<1> HIDE DEF g, h
<1> DEFINE T == {n \in Nat : n =< k => g[n] = h[n]}
<1>7. 0 \in T
  BY <1>2, <1>3, <1>6 DEF h
<1>8. ASSUME NEW n \in Nat, n \in T PROVE n + 1 \in T
  <2>1. CASE n + 1 =< k
    <3>1. n + 1 \in 0 .. k /\ n + 1 # 0 /\ (n + 1) - 1 = n /\ g[n] = h[n]
      BY <1>2, <1>8, <2>1
    <3>2. g[n + 1] = MoveSlot(g[(n + 1) - 1], last - (n + 1), destLast - (n + 1))
      BY <1>6, <3>1
    <3>3. h[n + 1] = MoveSlot(h[(n + 1) - 1], last - (n + 1), destLast - (n + 1))
      BY <1>5, <3>1
    <3> QED
      BY <3>1, <3>2, <3>3
  <2>2. CASE ~(n + 1 =< k)
    BY <2>2
  <2> QED
    BY <2>1, <2>2
<1>9. Nat \subseteq T
  BY <1>7, <1>8, SetInduction
<1>10. g[k] = h[k]
  BY <1>2, <1>9
<1> QED
  BY <1>1, <1>2, <1>10 DEF h

----------------------------------------------------------------------------
(* Searches. *)

\* The n first slots of ks hold keys in increasing order.
KeysOrdered(ks, n) ==
  /\ \A i \in 0 .. n - 1 : ks[i] \in Key
  /\ \A i, j \in 0 .. n - 1 : i < j => ks[i] < ks[j]

\* l is where x is or belongs among the n first keys of ks.
IsLowerBound(l, ks, n, x) ==
  /\ l \in 0 .. n
  /\ \A i \in 0 .. l - 1 : ks[i] < x
  /\ \A i \in l .. n - 1 : ks[i] >= x

LEMMA LowerBoundExists ==
  ASSUME NEW ks, NEW n \in Nat, NEW x \in Key, KeysOrdered(ks, n)
  PROVE  \E l \in 0 .. n : IsLowerBound(l, ks, n, x)
<1> DEFINE T == {i \in 0 .. n : i = n \/ ks[i] >= x}
<1>1. T \in SUBSET Nat /\ n \in T
  OBVIOUS
<1>2. PICK l \in T : \A i \in T : l =< i
  BY <1>1, LeastElement
<1>3. x \in Nat /\ \A i \in 0 .. n - 1 : ks[i] \in Nat
  BY KeyAssumption DEF KeysOrdered
<1>4. \A i \in 0 .. l - 1 : ks[i] < x
  BY <1>2, <1>3
<1>5. \A i \in l .. n - 1 : ks[i] >= x
  BY <1>2, <1>3 DEF KeysOrdered
<1> QED
  BY <1>2, <1>4, <1>5 DEF IsLowerBound

LEMMA LinearSearchIs ==
  ASSUME NEW a, NEW x \in Key, size[a] \in Nat, KeysOrdered(keys[a], size[a]),
         NEW l \in 0 .. size[a], IsLowerBound(l, keys[a], size[a], x)
  PROVE  LinearSearch(a, x) = l
<1> DEFINE n == size[a]
           ks == keys[a]
           f == CHOOSE f : f = [i \in 0 .. size[a] |->
                  IF i < size[a] /\ keys[a][i] < x THEN f[i + 1] ELSE i]
           h == [i \in 0 .. n |-> IF i < l THEN l ELSE i]
<1>1. LinearSearch(a, x) = f[0]
  BY Zenon DEF LinearSearch
<1>2. x \in Nat /\ \A i \in 0 .. n - 1 : ks[i] \in Nat
  BY KeyAssumption DEF KeysOrdered
<1>3. \A i \in 0 .. n : (i < n /\ ks[i] < x) <=> i < l
  BY <1>2 DEF IsLowerBound
<1>4. h = [i \in 0 .. n |-> IF i < n /\ ks[i] < x THEN h[i + 1] ELSE i]
  <2>1. \A i \in 0 .. n : h[i] = IF i < n /\ ks[i] < x THEN h[i + 1] ELSE i
    <3> TAKE i \in 0 .. n
    <3>1. CASE i < l
      <4>1. i + 1 \in 0 .. n /\ h[i + 1] = l /\ h[i] = l
        BY <3>1
      <4> QED
        BY <1>3, <3>1, <4>1
    <3>2. CASE ~(i < l)
      BY <1>3, <3>2
    <3> QED
      BY <3>1, <3>2
  <2> QED
    BY <2>1
<1>5. f = [i \in 0 .. n |-> IF i < n /\ ks[i] < x THEN f[i + 1] ELSE i]
  BY <1>4
<1> HIDE DEF f, h
<1> DEFINE T == {m \in Nat : m =< l => f[l - m] = l}
<1>6. 0 \in T
  BY <1>3, <1>5
<1>7. ASSUME NEW m \in Nat, m \in T PROVE m + 1 \in T
  <2>1. CASE m + 1 =< l
    <3>1. l - (m + 1) \in 0 .. n /\ l - (m + 1) < l /\ (l - (m + 1)) + 1 = l - m /\ f[l - m] = l
      BY <1>7, <2>1
    <3>2. f[l - (m + 1)] = f[(l - (m + 1)) + 1]
      BY <1>3, <1>5, <3>1
    <3> QED
      BY <3>1, <3>2
  <2>2. CASE ~(m + 1 =< l)
    BY <2>2
  <2> QED
    BY <2>1, <2>2
<1>8. Nat \subseteq T
  BY <1>6, <1>7, SetInduction
<1>9. f[l - l] = l /\ l - l = 0
  BY <1>8
<1> QED
  BY <1>1, <1>9

LEMMA BinarySearchIs ==
  ASSUME NEW a, NEW x \in Key, size[a] \in Nat, KeysOrdered(keys[a], size[a]),
         NEW l \in 0 .. size[a], IsLowerBound(l, keys[a], size[a], x)
  PROVE  BinarySearch(a, x) = l
<1> DEFINE n == size[a]
           ks == keys[a]
           Body(f, r) == IF r[2] = 0 THEN r[1]
                         ELSE IF ks[r[1] + (r[2] \div 2)] < x
                              THEN f[<<r[1] + (r[2] \div 2) + 1, r[2] - (r[2] \div 2) - 1>>]
                              ELSE f[<<r[1], r[2] \div 2>>]
           f == CHOOSE f : f = [r \in Ranges(a) |-> Body(f, r)]
           In(r) == IF l < r[1] THEN r[1] ELSE IF l > r[1] + r[2] THEN r[1] + r[2] ELSE l
           h == [r \in Ranges(a) |-> In(r)]
<1>1. BinarySearch(a, x) = f[<<0, size[a]>>]
  BY Zenon DEF BinarySearch
<1>2. x \in Nat /\ \A i \in 0 .. n - 1 : ks[i] \in Nat
  BY KeyAssumption DEF KeysOrdered
<1>3. \A i \in 0 .. n - 1 : ks[i] < x <=> i < l
  BY <1>2 DEF IsLowerBound
<1>4. ASSUME NEW r \in Ranges(a), r[2] # 0
      PROVE  /\ r[1] + (r[2] \div 2) \in 0 .. n - 1
             /\ <<r[1] + (r[2] \div 2) + 1, r[2] - (r[2] \div 2) - 1>> \in Ranges(a)
             /\ <<r[1], r[2] \div 2>> \in Ranges(a)
             /\ r[2] \div 2 < r[2] /\ r[2] - (r[2] \div 2) - 1 < r[2]
  <2>1. /\ r[1] \in Nat /\ r[2] \in Nat \ {0} /\ r[1] + r[2] =< n
    BY <1>4 DEF Ranges
  <2> DEFINE half == r[2] \div 2
  <2>2. half \in Nat /\ half < r[2]
    BY <2>1
  <2> HIDE DEF half
  <2>3. r[1] + half \in 0 .. n - 1 /\ r[1] + half + 1 \in 0 .. n /\ r[2] - half - 1 \in 0 .. n
        /\ r[1] \in 0 .. n /\ half \in 0 .. n /\ r[2] - half - 1 < r[2]
        /\ (r[1] + half + 1) + (r[2] - half - 1) =< n /\ r[1] + half =< n
    BY <2>1, <2>2
  <2>4. <<r[1] + half + 1, r[2] - half - 1>> \in Ranges(a) /\ <<r[1], half>> \in Ranges(a)
    BY <2>3 DEF Ranges
  <2> QED
    BY <2>2, <2>3, <2>4 DEF half
<1>5. ASSUME NEW r \in Ranges(a) PROVE In(r) = Body(h, r)
  <2>1. /\ r[1] \in Nat /\ r[2] \in Nat /\ r[1] + r[2] =< n
    BY DEF Ranges
  <2>2. CASE r[2] = 0
    BY <2>1, <2>2
  <2>3. CASE r[2] # 0
    <3> DEFINE half == r[2] \div 2
               up   == <<r[1] + half + 1, r[2] - half - 1>>
               down == <<r[1], half>>
    <3>1. r[1] + half \in 0 .. n - 1 /\ up \in Ranges(a) /\ down \in Ranges(a)
      BY <1>4, <2>3
    <3>2. half \in Nat /\ half < r[2]
      BY <2>1, <2>3
    <3>3. h[up] = In(up) /\ h[down] = In(down)
      BY <3>1
    <3>4. /\ up[1] = r[1] + half + 1 /\ up[2] = r[2] - half - 1
          /\ down[1] = r[1] /\ down[2] = half
      OBVIOUS
    <3>5. Body(h, r) = IF ks[r[1] + half] < x THEN h[up] ELSE h[down]
      BY <2>3
    <3> HIDE DEF half, up, down, Body, h
    <3>6. ks[r[1] + half] < x <=> r[1] + half < l
      BY <1>3, <3>1
    <3>7. CASE r[1] + half < l
      <4>1. In(up) = In(r)
        BY <2>1, <3>2, <3>4, <3>7
      <4> HIDE DEF In
      <4> QED
        BY <3>3, <3>5, <3>6, <3>7, <4>1
    <3>8. CASE ~(r[1] + half < l)
      <4>1. In(down) = In(r)
        BY <2>1, <3>2, <3>4, <3>8
      <4> HIDE DEF In
      <4> QED
        BY <3>3, <3>5, <3>6, <3>8, <4>1
    <3> QED
      BY <3>7, <3>8
  <2> QED
    BY <2>2, <2>3
<1>6. h = [r \in Ranges(a) |-> Body(h, r)]
  <2> DEFINE h2 == [r \in Ranges(a) |-> Body(h, r)]
  <2>1. \A r \in Ranges(a) : h[r] = In(r) /\ h2[r] = Body(h, r)
    OBVIOUS
  <2>2. \A r \in Ranges(a) : h[r] = h2[r]
    BY <1>5, <2>1
  <2> QED
    BY <2>2
<1>7. f = [r \in Ranges(a) |-> Body(f, r)]
  BY <1>6
<1>8. \A r \in Ranges(a) : f[r] = Body(f, r)
  <2> HIDE DEF f, Body
  <2> QED
    BY <1>7
<1>9. \A r \in Ranges(a) : h[r] = Body(h, r)
  BY <1>5
<1> HIDE DEF f, h
<1> DEFINE T == {m \in Nat : \A r \in Ranges(a) : r[2] =< m => f[r] = h[r]}
<1>10. 0 \in T
  <2>1. \A r \in Ranges(a) : r[2] =< 0 => r[2] = 0
    BY DEF Ranges
  <2> QED
    BY <1>8, <1>9, <2>1
<1>11. ASSUME NEW m \in Nat, m \in T PROVE m + 1 \in T
  <2> SUFFICES ASSUME NEW r \in Ranges(a), r[2] =< m + 1 PROVE f[r] = h[r]
    OBVIOUS
  <2>1. CASE r[2] = 0
    BY <1>8, <1>9, <2>1
  <2>2. CASE r[2] # 0
    <3> DEFINE up   == <<r[1] + (r[2] \div 2) + 1, r[2] - (r[2] \div 2) - 1>>
               down == <<r[1], r[2] \div 2>>
    <3>1. /\ up \in Ranges(a) /\ down \in Ranges(a)
          /\ r[2] \div 2 < r[2] /\ r[2] - (r[2] \div 2) - 1 < r[2]
      BY <1>4, <2>2
    <3>2. r[2] \in Nat
      BY DEF Ranges
    <3>3. up[2] =< m /\ down[2] =< m
      BY <3>1, <3>2
    <3>4. f[up] = h[up] /\ f[down] = h[down]
      BY <1>11, <3>1, <3>3
    <3>5. Body(f, r) = Body(h, r)
      BY <2>2, <3>4
    <3> HIDE DEF Body
    <3> QED
      BY <1>8, <1>9, <3>5
  <2> QED
    BY <2>1, <2>2
<1>12. Nat \subseteq T
  BY <1>10, <1>11, SetInduction
<1>13. <<0, n>> \in Ranges(a)
  BY DEF Ranges
<1>14. f[<<0, n>>] = h[<<0, n>>]
  <2>1. <<0, n>>[2] =< n
    OBVIOUS
  <2> QED
    BY <1>12, <1>13, <2>1
<1>15. h[<<0, n>>] = l
  BY <1>13 DEF h
<1> QED
  BY <1>1, <1>14, <1>15

----------------------------------------------------------------------------
(* The keys in use are in order. *)

KeySlots(len)   == [0 .. len - 1 -> Key \cup {Gone}]
ValueSlots(len) == [0 .. len - 1 -> Value \cup {Gone}]
Outcome         == [how : Outcomes, arr : Array, idx : Nat]

GoodKeys(ks, n, len) == ks \in KeySlots(len) /\ n \in 0 .. len /\ KeysOrdered(ks, n)

IInv ==
  /\ keys = [a \in Array |-> keys[a]] /\ values = [a \in Array |-> values[a]]
  /\ size = [a \in Array |-> size[a]]
  /\ \A a \in Array : /\ GoodKeys(keys[a], size[a], Length[a])
                      /\ values[a] \in ValueSlots(Length[a])
  /\ ret \in Outcome

LEMMA CroppedType ==
  ASSUME NEW C, NEW len \in Nat, NEW f \in [0 .. len - 1 -> C \cup {Gone}], NEW n
  PROVE  Cropped(f, n) \in [0 .. len - 1 -> C \cup {Gone}]
BY DEF Cropped

LEMMA CroppedKeys ==
  ASSUME NEW len \in Nat, NEW ks \in KeySlots(len), NEW n \in 0 .. len, KeysOrdered(ks, n)
  PROVE  GoodKeys(Cropped(ks, n), n, len)
<1>1. Cropped(ks, n) \in KeySlots(len)
  BY CroppedType DEF KeySlots
<1>2. \A i \in 0 .. n - 1 : Cropped(ks, n)[i] = ks[i]
  BY DEF Cropped, KeySlots
<1> QED
  BY <1>1, <1>2 DEF GoodKeys, KeysOrdered

LEMMA MovedDownType ==
  ASSUME NEW C, NEW len \in Nat, NEW f \in [0 .. len - 1 -> C \cup {Gone}],
         NEW first \in Nat, NEW n \in Nat, NEW dest \in Nat, dest < first, first + n =< len
  PROVE  MovedDown(f, first, n, dest) \in [0 .. len - 1 -> C \cup {Gone}]
<1>1. \A i \in 0 .. len - 1 : Left(f[i]) \in C \cup {Gone}
  BY DEF Left
<1>2. \A i \in 0 .. len - 1 : i \in dest .. dest + n - 1 => f[i - dest + first] \in C \cup {Gone}
  OBVIOUS
<1> QED
  BY <1>1, <1>2 DEF MovedDown

LEMMA MovedUpType ==
  ASSUME NEW C, NEW len \in Nat, NEW f \in [0 .. len - 1 -> C \cup {Gone}],
         NEW last \in Nat, NEW n \in 0 .. last, NEW destLast \in Nat,
         last < destLast, destLast =< len
  PROVE  MovedUp(f, last, n, destLast) \in [0 .. len - 1 -> C \cup {Gone}]
<1>1. \A i \in 0 .. len - 1 : Left(f[i]) \in C \cup {Gone}
  BY DEF Left
<1>2. \A i \in 0 .. len - 1 : i \in destLast - n .. destLast - 1 =>
        f[i - destLast + last] \in C \cup {Gone}
  OBVIOUS
<1> QED
  BY <1>1, <1>2 DEF MovedUp

\* The moves of dense_map: within the array, with room beyond the last slot or a gap
\* before the first.
LEMMA MoveBackwardIn ==
  ASSUME NEW C, NEW len \in Nat, NEW f \in [0 .. len - 1 -> C \cup {Gone}],
         NEW first \in Nat, NEW last \in Nat, NEW destLast \in Nat,
         first =< last, last < destLast, destLast =< len
  PROVE  /\ MoveBackward(f, first, last, destLast) = MovedUp(f, last, last - first, destLast)
         /\ MoveBackward(f, first, last, destLast) \in [0 .. len - 1 -> C \cup {Gone}]
<1>1. f = [i \in DOMAIN f |-> f[i]] /\ \A i \in first .. destLast - 1 : i \in DOMAIN f
  OBVIOUS
<1>2. MoveBackward(f, first, last, destLast) = MovedUp(f, last, last - first, destLast)
  BY <1>1, MoveBackwardIs
<1>3. last - first \in 0 .. last
  OBVIOUS
<1>4. MovedUp(f, last, last - first, destLast) \in [0 .. len - 1 -> C \cup {Gone}]
  BY <1>3, MovedUpType
<1> QED
  BY <1>2, <1>4

LEMMA MoveForwardIn ==
  ASSUME NEW C, NEW len \in Nat, NEW f \in [0 .. len - 1 -> C \cup {Gone}],
         NEW first \in Nat, NEW last \in Nat, NEW dest \in Nat,
         dest < first, first =< last, last =< len
  PROVE  /\ MoveForward(f, first, last, dest) = MovedDown(f, first, last - first, dest)
         /\ MoveForward(f, first, last, dest) \in [0 .. len - 1 -> C \cup {Gone}]
<1>1. f = [i \in DOMAIN f |-> f[i]] /\ \A i \in dest .. last - 1 : i \in DOMAIN f
  OBVIOUS
<1>2. MoveForward(f, first, last, dest) = MovedDown(f, first, last - first, dest)
  BY <1>1, MoveForwardIs
<1>3. last - first \in Nat /\ first + (last - first) =< len
  OBVIOUS
<1>4. MovedDown(f, first, last - first, dest) \in [0 .. len - 1 -> C \cup {Gone}]
  BY <1>3, MovedDownType
<1> QED
  BY <1>2, <1>4

LEMMA OntoType ==
  ASSUME NEW C, NEW len \in Nat, NEW g \in [0 .. len - 1 -> C \cup {Gone}],
         NEW len2 \in Nat, NEW f \in [0 .. len2 - 1 -> C \cup {Gone}],
         NEW d \in Nat, NEW first \in Nat, NEW last \in Nat, last =< len2
  PROVE  Onto(g, d, f, first, last) \in [0 .. len - 1 -> C \cup {Gone}]
<1>1. \A i \in 0 .. len - 1 : i \in d .. d + (last - first) - 1 =>
        f[first + i - d] \in C \cup {Gone}
  OBVIOUS
<1> QED
  BY <1>1 DEF Onto

\* What the calls leave in the slots of g.  An element x has been put into slot i of f:
IsRaised(g, f, n, i, x) ==
  \A j \in 0 .. n : g[j] = IF j < i THEN f[j] ELSE IF j = i THEN x ELSE f[j - 1]

\* The element in slot i of n has been taken out:
IsLowered(g, f, n, i) ==
  \A j \in 0 .. n - 2 : g[j] = IF j < i THEN f[j] ELSE f[j + 1]

\* Slot i of n has been written:
IsWritten(g, f, n, i, x) == \A j \in 0 .. n - 1 : g[j] = IF j = i THEN x ELSE f[j]

\* It is the part of f of length n that begins at slot c:
IsPart(g, f, c, n) == \A j \in 0 .. n - 1 : g[j] = f[c + j]

\* k elements of e have been appended to n of f:
IsAppended(g, f, n, e, k) ==
  /\ \A j \in 0 .. n - 1 : g[j] = f[j]
  /\ \A j \in n .. n + k - 1 : g[j] = e[j - n]

\* What is in the slots of g after a move to the right and after one to the left in f.
IsShiftedUp(g, f, first, last, destLast) ==
  /\ \A j \in 0 .. first - 1 : g[j] = f[j]
  /\ \A j \in destLast - (last - first) .. destLast - 1 : g[j] = f[j - destLast + last]

IsShiftedDown(g, f, first, last, dest) ==
  /\ \A j \in 0 .. dest - 1 : g[j] = f[j]
  /\ \A j \in dest .. dest + (last - first) - 1 : g[j] = f[j - dest + first]

LEMMA ShiftedUp ==
  ASSUME NEW C, NEW len \in Nat, NEW f \in [0 .. len - 1 -> C \cup {Gone}],
         NEW first \in Nat, NEW last \in Nat, NEW destLast \in Nat,
         first =< last, last < destLast, destLast =< len
  PROVE  /\ MoveBackward(f, first, last, destLast) \in [0 .. len - 1 -> C \cup {Gone}]
         /\ IsShiftedUp(MoveBackward(f, first, last, destLast), f, first, last, destLast)
<1> DEFINE g == MoveBackward(f, first, last, destLast)
<1>1. /\ g = MovedUp(f, last, last - first, destLast)
      /\ g \in [0 .. len - 1 -> C \cup {Gone}]
  BY MoveBackwardIn
<1>2. DOMAIN f = 0 .. len - 1
  OBVIOUS
<1> HIDE DEF g
<1>3. ASSUME NEW j \in 0 .. first - 1 PROVE g[j] = f[j]
  <2>1. /\ j \in 0 .. len - 1 /\ j \notin destLast - (last - first) .. destLast - 1
        /\ j \notin last - (last - first) .. last - 1
    OBVIOUS
  <2> QED
    BY <1>1, <1>2, <2>1 DEF MovedUp
<1>4. ASSUME NEW j \in destLast - (last - first) .. destLast - 1
      PROVE  g[j] = f[j - destLast + last]
  <2>1. j \in 0 .. len - 1
    OBVIOUS
  <2> QED
    BY <1>1, <1>2, <2>1 DEF MovedUp
<1> QED
  BY <1>1, <1>3, <1>4 DEF IsShiftedUp, g

LEMMA ShiftedDown ==
  ASSUME NEW C, NEW len \in Nat, NEW f \in [0 .. len - 1 -> C \cup {Gone}],
         NEW first \in Nat, NEW last \in Nat, NEW dest \in Nat,
         dest < first, first =< last, last =< len
  PROVE  /\ MoveForward(f, first, last, dest) \in [0 .. len - 1 -> C \cup {Gone}]
         /\ IsShiftedDown(MoveForward(f, first, last, dest), f, first, last, dest)
<1> DEFINE g == MoveForward(f, first, last, dest)
<1>1. /\ g = MovedDown(f, first, last - first, dest)
      /\ g \in [0 .. len - 1 -> C \cup {Gone}]
  BY MoveForwardIn
<1>2. DOMAIN f = 0 .. len - 1
  OBVIOUS
<1> HIDE DEF g
<1>3. ASSUME NEW j \in 0 .. dest - 1 PROVE g[j] = f[j]
  <2>1. /\ j \in 0 .. len - 1 /\ j \notin dest .. dest + (last - first) - 1
        /\ j \notin first .. first + (last - first) - 1
    OBVIOUS
  <2> QED
    BY <1>1, <1>2, <2>1 DEF MovedDown
<1>4. ASSUME NEW j \in dest .. dest + (last - first) - 1
      PROVE  g[j] = f[j - dest + first]
  <2>1. j \in 0 .. len - 1
    OBVIOUS
  <2> QED
    BY <1>1, <1>2, <2>1 DEF MovedDown
<1> QED
  BY <1>1, <1>3, <1>4 DEF IsShiftedDown, g

\* What the invariant says of one array.
LEMMA OneArray ==
  ASSUME IInv, NEW a \in Array
  PROVE  /\ Length[a] \in Nat \ {0} /\ size[a] \in Nat /\ size[a] =< Length[a]
         /\ keys[a] \in KeySlots(Length[a]) /\ KeysOrdered(keys[a], size[a])
         /\ values[a] \in ValueSlots(Length[a])
         /\ DOMAIN keys = Array /\ DOMAIN values = Array /\ DOMAIN size = Array
<1>1. Length[a] \in Nat \ {0}
  BY LengthAssumption
<1>2. GoodKeys(keys[a], size[a], Length[a]) /\ values[a] \in ValueSlots(Length[a])
  BY DEF IInv
<1>3. DOMAIN keys = Array /\ DOMAIN values = Array /\ DOMAIN size = Array
  BY DEF IInv
<1> QED
  BY <1>1, <1>2, <1>3 DEF GoodKeys

\* One array changes.
LEMMA ChangeKeeps ==
  ASSUME IInv, NEW a \in Array, NEW ks, NEW vs, NEW n, GoodKeys(ks, n, Length[a]),
         vs \in ValueSlots(Length[a]),
         keys' = [keys EXCEPT ![a] = ks], values' = [values EXCEPT ![a] = vs],
         size' = [size EXCEPT ![a] = n], ret' \in Outcome
  PROVE  IInv'
<1>1. DOMAIN keys = Array /\ DOMAIN values = Array /\ DOMAIN size = Array
  BY OneArray
<1>2. \A b \in Array : /\ keys'[b] = IF b = a THEN ks ELSE keys[b]
                       /\ values'[b] = IF b = a THEN vs ELSE values[b]
                       /\ size'[b] = IF b = a THEN n ELSE size[b]
  BY <1>1
<1>3. /\ keys' = [b \in Array |-> keys'[b]] /\ values' = [b \in Array |-> values'[b]]
      /\ size' = [b \in Array |-> size'[b]]
  BY <1>1
<1>4. \A b \in Array : GoodKeys(keys'[b], size'[b], Length[b])
  BY <1>2 DEF IInv
<1>5. \A b \in Array : values'[b] \in ValueSlots(Length[b])
  BY <1>2 DEF IInv
<1> QED
  BY <1>3, <1>4, <1>5 DEF IInv, GoodKeys, KeySlots, KeysOrdered, ValueSlots, Outcome

LEMMA StoreKeeps ==
  ASSUME IInv, NEW a \in Array, NEW ks \in KeySlots(Length[a]), NEW vs \in ValueSlots(Length[a]),
         NEW n \in 0 .. Length[a], KeysOrdered(ks, n), Store(a, ks, vs, n), ret' \in Outcome
  PROVE  IInv'
<1>1. Length[a] \in Nat
  BY OneArray
<1>2. GoodKeys(Cropped(ks, n), n, Length[a])
  BY <1>1, CroppedKeys
<1>3. Cropped(vs, n) \in ValueSlots(Length[a])
  BY <1>1, CroppedType DEF ValueSlots
<1> QED
  BY <1>2, <1>3, ChangeKeeps DEF Store

\* Two arrays change.
LEMMA ExchangeKeeps ==
  ASSUME IInv, NEW dst \in Array, NEW src \in Array, dst # src,
         NEW kd \in KeySlots(Length[dst]), NEW vd \in ValueSlots(Length[dst]),
         NEW nd \in 0 .. Length[dst], KeysOrdered(kd, nd),
         NEW ks \in KeySlots(Length[src]), NEW vs \in ValueSlots(Length[src]),
         NEW ns \in 0 .. Length[src], KeysOrdered(ks, ns),
         keys' = [keys EXCEPT ![dst] = Cropped(kd, nd), ![src] = Cropped(ks, ns)],
         values' = [values EXCEPT ![dst] = Cropped(vd, nd), ![src] = Cropped(vs, ns)],
         size' = [size EXCEPT ![dst] = nd, ![src] = ns],
         ret' \in Outcome
  PROVE  IInv'
<1>1. Length[dst] \in Nat /\ Length[src] \in Nat
  BY OneArray
<1>2. /\ GoodKeys(Cropped(kd, nd), nd, Length[dst])
      /\ GoodKeys(Cropped(ks, ns), ns, Length[src])
  BY <1>1, CroppedKeys
<1>3. /\ Cropped(vd, nd) \in ValueSlots(Length[dst])
      /\ Cropped(vs, ns) \in ValueSlots(Length[src])
  BY <1>1, CroppedType DEF ValueSlots
<1>4. DOMAIN keys = Array /\ DOMAIN values = Array /\ DOMAIN size = Array
  BY OneArray
<1>5. \A b \in Array :
        /\ keys'[b] = IF b = src THEN Cropped(ks, ns)
                      ELSE IF b = dst THEN Cropped(kd, nd) ELSE keys[b]
        /\ values'[b] = IF b = src THEN Cropped(vs, ns)
                        ELSE IF b = dst THEN Cropped(vd, nd) ELSE values[b]
        /\ size'[b] = IF b = src THEN ns ELSE IF b = dst THEN nd ELSE size[b]
  BY <1>4
<1>6. /\ keys' = [b \in Array |-> keys'[b]] /\ values' = [b \in Array |-> values'[b]]
      /\ size' = [b \in Array |-> size'[b]]
  BY <1>4
<1>7. \A b \in Array : GoodKeys(keys'[b], size'[b], Length[b])
  BY <1>2, <1>5 DEF IInv
<1>8. \A b \in Array : values'[b] \in ValueSlots(Length[b])
  BY <1>3, <1>5 DEF IInv
<1> QED
  BY <1>6, <1>7, <1>8 DEF IInv, GoodKeys, KeySlots, KeysOrdered, ValueSlots, Outcome

LEMMA KeepKeeps == ASSUME IInv, Keep, ret' \in Outcome PROVE IInv'
BY DEF IInv, Keep, GoodKeys, KeySlots, KeysOrdered, ValueSlots, Outcome

LEMMA ReturnType ==
  ASSUME NEW how \in Outcomes, NEW a \in Array, NEW i \in Nat, Return(how, a, i)
  PROVE  ret' \in Outcome
BY DEF Return, Outcome

\* Where the code searches, it finds what is asked for, in either mode.
LEMMA LowerBoundIs ==
  ASSUME IInv, NEW a \in Array, NEW x \in Key
  PROVE  /\ LinearSearch(a, x) = LowerBoundKey(a, x)
         /\ BinarySearch(a, x) = LowerBoundKey(a, x)
         /\ LowerBoundKey(a, x) \in 0 .. size[a]
         /\ IsLowerBound(LowerBoundKey(a, x), keys[a], size[a], x)
<1>1. size[a] \in Nat /\ KeysOrdered(keys[a], size[a])
  BY OneArray
<1>2. PICK l \in 0 .. size[a] : IsLowerBound(l, keys[a], size[a], x)
  BY <1>1, LowerBoundExists
<1>3. LinearSearch(a, x) = l /\ BinarySearch(a, x) = l
  BY <1>1, <1>2, LinearSearchIs, BinarySearchIs
<1> QED
  BY <1>2, <1>3 DEF LowerBoundKey

----------------------------------------------------------------------------
(* The calls. *)

\* What insert_impl has in the slots when it has made room for x and written it.
LEMMA RoomMade ==
  ASSUME IInv, NEW a \in Array, NEW x \in Key, ~IsAt(a, LowerBoundKey(a, x), x),
         size[a] < Length[a], NEW i, i = LowerBoundKey(a, x), NEW n, n = size[a],
         NEW vs, vs = MoveBackward(values[a], i, n, n + 1),
         NEW ks, ks = [MoveBackward(keys[a], i, n, n + 1) EXCEPT ![i] = x]
  PROVE  /\ n \in Nat /\ i \in 0 .. n /\ n + 1 \in 0 .. Length[a]
         /\ ks \in KeySlots(Length[a]) /\ KeysOrdered(ks, n + 1) /\ KeysOrdered(ks, n)
         /\ vs \in ValueSlots(Length[a])
         /\ IsRaised(ks, keys[a], n, i, x) /\ IsRaised(vs, values[a], n, i, vs[i])
<1> DEFINE up  == MoveBackward(keys[a], i, n, n + 1)
           len == Length[a]
<1>1. /\ len \in Nat /\ n \in Nat /\ n + 1 \in Nat /\ n < len /\ n + 1 =< len /\ n < n + 1
      /\ keys[a] \in [0 .. len - 1 -> Key \cup {Gone}] /\ KeysOrdered(keys[a], n)
      /\ values[a] \in [0 .. len - 1 -> Value \cup {Gone}]
  BY OneArray DEF KeySlots, ValueSlots
<1>2. i \in Nat /\ i =< n /\ IsLowerBound(i, keys[a], n, x) /\ i \in 0 .. len - 1
  BY <1>1, LowerBoundIs
<1> HIDE DEF up, len
<1>s. /\ up \in [0 .. len - 1 -> Key \cup {Gone}] /\ IsShiftedUp(up, keys[a], i, n, n + 1)
      /\ vs \in [0 .. len - 1 -> Value \cup {Gone}] /\ IsShiftedUp(vs, values[a], i, n, n + 1)
  <2>1. up \in [0 .. len - 1 -> Key \cup {Gone}] /\ IsShiftedUp(up, keys[a], i, n, n + 1)
    BY ONLY <1>1, <1>2, ShiftedUp DEF up
  <2>2. /\ MoveBackward(values[a], i, n, n + 1) \in [0 .. len - 1 -> Value \cup {Gone}]
        /\ IsShiftedUp(MoveBackward(values[a], i, n, n + 1), values[a], i, n, n + 1)
    BY ONLY <1>1, <1>2, ShiftedUp
  <2> QED
    BY <2>1, <2>2
<1>3. /\ \A j \in 0 .. i - 1 : up[j] = keys[a][j]
      /\ \A j \in (n + 1) - (n - i) .. (n + 1) - 1 : up[j] = keys[a][j - (n + 1) + n]
  BY <1>s DEF IsShiftedUp
<1>4. /\ \A j \in 0 .. i - 1 : vs[j] = values[a][j]
      /\ \A j \in (n + 1) - (n - i) .. (n + 1) - 1 : vs[j] = values[a][j - (n + 1) + n]
  BY <1>s DEF IsShiftedUp
<1>5. \A j \in 0 .. n : /\ j \in 0 .. len - 1 /\ (j < i => j \in 0 .. i - 1 /\ j \in 0 .. n - 1)
                        /\ j > i => /\ j \in (n + 1) - (n - i) .. (n + 1) - 1
                                    /\ j - (n + 1) + n = j - 1 /\ j - 1 \in 0 .. n - 1
  BY ONLY <1>1, <1>2
<1>6. ks \in [0 .. len - 1 -> Key \cup {Gone}] /\ ks = [up EXCEPT ![i] = x]
  BY <1>s DEF up
<1>7. \A j \in 0 .. n :
        ks[j] = IF j < i THEN keys[a][j] ELSE IF j = i THEN x ELSE keys[a][j - 1]
  BY ONLY <1>1, <1>2, <1>s, <1>3, <1>5, <1>6
<1>8. \A j \in 0 .. n :
        vs[j] = IF j < i THEN values[a][j] ELSE IF j = i THEN vs[i] ELSE values[a][j - 1]
  BY ONLY <1>1, <1>2, <1>4, <1>5
<1>9. KeysOrdered(ks, n + 1)
  <2>1. x \in Nat /\ \A j \in 0 .. n - 1 : keys[a][j] \in Nat /\ keys[a][j] \in Key
    BY <1>1, KeyAssumption DEF KeysOrdered
  <2>2. i < n => keys[a][i] # x
    BY DEF IsAt
  <2>3. \A j \in 0 .. n - 1 : j < i => keys[a][j] < x
    BY <1>2 DEF IsLowerBound
  <2>4. \A j \in 0 .. n - 1 : j >= i => keys[a][j] > x
    <3>1. i < n => keys[a][i] > x
      <4>1. i < n => i \in i .. n - 1 /\ i \in 0 .. n - 1
        BY <1>1, <1>2
      <4>2. i < n => keys[a][i] >= x
        BY <1>2, <4>1 DEF IsLowerBound
      <4> QED
        BY <2>1, <2>2, <4>1, <4>2
    <3>2. \A j \in 0 .. n - 1 : j > i => keys[a][i] < keys[a][j]
      BY <1>1, <1>2 DEF KeysOrdered
    <3> QED
      BY ONLY <1>1, <1>2, <2>1, <3>1, <3>2
  <2>5. \A j \in 0 .. n : ks[j] \in Key
    BY ONLY <1>1, <1>2, <1>5, <1>7, <2>1, x \in Key
  <2>6. ASSUME NEW j \in 0 .. n, NEW k \in 0 .. n, j < k PROVE ks[j] < ks[k]
    <3>0. j \in 0 .. n /\ k \in 0 .. n /\ j < k
      BY <2>6
    <3>1. CASE k < i
      BY ONLY <1>1, <1>2, <1>7, <3>0, <3>1 DEF KeysOrdered
    <3>2. CASE k = i
      BY ONLY <1>1, <1>2, <1>7, <2>3, <3>0, <3>2
    <3>3. CASE k > i /\ j = i
      BY ONLY <1>1, <1>2, <1>7, <2>4, <3>0, <3>3
    <3>4. CASE k > i /\ j < i
      <4>1. /\ j \in 0 .. n - 1 /\ k - 1 \in 0 .. n - 1 /\ k - 1 >= i
            /\ ks[j] = keys[a][j] /\ ks[k] = keys[a][k - 1]
        BY ONLY <1>1, <1>2, <1>5, <1>7, <3>0, <3>4
      <4> QED
        BY ONLY <2>1, <2>3, <2>4, <3>4, <4>1, x \in Key
    <3>5. CASE k > i /\ j > i
      <4>1. /\ j - 1 \in 0 .. n - 1 /\ k - 1 \in 0 .. n - 1 /\ j - 1 < k - 1
            /\ ks[j] = keys[a][j - 1] /\ ks[k] = keys[a][k - 1]
        BY ONLY <1>1, <1>2, <1>5, <1>7, <3>0, <3>5
      <4> QED
        BY ONLY <1>1, <4>1 DEF KeysOrdered
    <3> QED
      BY <1>2, <3>1, <3>2, <3>3, <3>4, <3>5
  <2>7. (n + 1) - 1 = n
    BY <1>1
  <2> QED
    BY <2>5, <2>6, <2>7 DEF KeysOrdered
<1>10. KeysOrdered(ks, n)
  BY <1>1, <1>9 DEF KeysOrdered
<1> QED
  BY <1>1, <1>2, <1>s, <1>6, <1>7, <1>8, <1>9, <1>10 DEF IsRaised, KeySlots, ValueSlots, len

LEMMA InsertImplKeeps ==
  ASSUME IInv, NEW a \in Array, NEW x \in Key, NEW v \in Value,
         ~IsAt(a, LowerBoundKey(a, x), x), InsertImpl(a, LowerBoundKey(a, x), x, v)
  PROVE  IInv'
<1> DEFINE i  == LowerBoundKey(a, x)
           n  == size[a]
           vs == MoveBackward(values[a], i, n, n + 1)
           ks == [MoveBackward(keys[a], i, n, n + 1) EXCEPT ![i] = x]
<1>1. CASE n >= Length[a]
  <2>1. Keep /\ Return("full", a, n) /\ n \in Nat
    BY <1>1, OneArray DEF InsertImpl
  <2> QED
    BY <2>1, KeepKeeps, ReturnType DEF Outcomes
<1>2. CASE n < Length[a]
  <2>1. /\ n \in Nat /\ i \in 0 .. n /\ n + 1 \in 0 .. Length[a]
        /\ ks \in KeySlots(Length[a]) /\ KeysOrdered(ks, n + 1) /\ KeysOrdered(ks, n)
        /\ vs \in ValueSlots(Length[a])
    BY <1>2, RoomMade
  <2>2. n \in 0 .. Length[a] /\ [vs EXCEPT ![i] = v] \in ValueSlots(Length[a])
    BY <2>1, OneArray DEF ValueSlots
  <2>3. \/ Store(a, ks, [vs EXCEPT ![i] = v], n + 1) /\ Return("inserted", a, i)
        \/ Store(a, ks, vs, n) /\ Return("threw", a, i)
    BY <1>2, <2>1, OneArray DEF InsertImpl
  <2>4. ret' \in Outcome
    BY <2>1, <2>3, ReturnType DEF Outcomes
  <2> HIDE DEF i, n, ks, vs
  <2> QED
    BY <2>1, <2>2, <2>3, <2>4, StoreKeeps
<1> QED
  BY <1>1, <1>2, OneArray

LEMMA InsertNewKeeps == ASSUME IInv, NEW a \in Array, InsertNew(a) PROVE IInv'
<1>1. PICK x \in Key, v \in Value :
        LET i == LowerBoundKey(a, x)
        IN  \/ size[a] >= Length[a] /\ Keep /\ Return("full", a, size[a])
            \/ size[a] < Length[a] /\ IsAt(a, i, x) /\ Keep /\ Return("exists", a, i)
            \/ size[a] < Length[a] /\ ~IsAt(a, i, x) /\ InsertImpl(a, i, x, v)
  BY DEF InsertNew
<1>2. size[a] \in Nat /\ LowerBoundKey(a, x) \in Nat
  BY OneArray, LowerBoundIs
<1>3. CASE Keep /\ (Return("full", a, size[a]) \/ Return("exists", a, LowerBoundKey(a, x)))
  BY <1>2, <1>3, KeepKeeps, ReturnType DEF Outcomes
<1>4. CASE ~IsAt(a, LowerBoundKey(a, x), x) /\ InsertImpl(a, LowerBoundKey(a, x), x, v)
  BY <1>4, InsertImplKeeps
<1> QED
  BY <1>1, <1>3, <1>4

\* A value is written, the keys stay.
LEMMA ValueKeeps ==
  ASSUME IInv, NEW a \in Array, NEW i \in Nat, NEW v \in Value,
         values' = [values EXCEPT ![a][i] = v], UNCHANGED <<keys, size>>, ret' \in Outcome
  PROVE  IInv'
<1>1. values[a] \in ValueSlots(Length[a]) /\ DOMAIN values = Array
  BY OneArray
<1>2. [values[a] EXCEPT ![i] = v] \in ValueSlots(Length[a])
  BY <1>1 DEF ValueSlots
<1>3. \A b \in Array : values'[b] = IF b = a THEN [values[a] EXCEPT ![i] = v] ELSE values[b]
  BY <1>1
<1>4. values' = [b \in Array |-> values'[b]]
  BY <1>1
<1>5. \A b \in Array : values'[b] \in ValueSlots(Length[b])
  BY <1>2, <1>3 DEF IInv
<1> QED
  BY <1>4, <1>5 DEF IInv, GoodKeys, KeySlots, KeysOrdered, ValueSlots, Outcome

LEMMA InsertOrAssignKeeps == ASSUME IInv, NEW a \in Array, InsertOrAssign(a) PROVE IInv'
<1>1. PICK x \in Key, v \in Value :
        LET i == LowerBoundKey(a, x)
        IN  \/ /\ IsAt(a, i, x)
               /\ values' = [values EXCEPT ![a][i] = v]
               /\ UNCHANGED <<keys, size>>
               /\ Return("exists", a, i)
            \/ ValuesThrow /\ IsAt(a, i, x) /\ Keep /\ Return("threw", a, i)
            \/ ~IsAt(a, i, x) /\ InsertImpl(a, i, x, v)
  BY DEF InsertOrAssign
<1>2. LowerBoundKey(a, x) \in Nat
  BY OneArray, LowerBoundIs
<1>3. CASE /\ values' = [values EXCEPT ![a][LowerBoundKey(a, x)] = v]
           /\ UNCHANGED <<keys, size>> /\ Return("exists", a, LowerBoundKey(a, x))
  <2>1. ret' \in Outcome
    BY <1>2, <1>3, ReturnType DEF Outcomes
  <2> QED
    BY <1>2, <1>3, <2>1, ValueKeeps
<1>4. CASE Keep /\ Return("threw", a, LowerBoundKey(a, x))
  BY <1>2, <1>4, KeepKeeps, ReturnType DEF Outcomes
<1>5. CASE ~IsAt(a, LowerBoundKey(a, x), x) /\ InsertImpl(a, LowerBoundKey(a, x), x, v)
  BY <1>5, InsertImplKeeps
<1> QED
  BY <1>1, <1>3, <1>4, <1>5

LEMMA SubscriptKeeps == ASSUME IInv, NEW a \in Array, Subscript(a) PROVE IInv'
<1>1. PICK x \in Key :
        LET i == LowerBoundKey(a, x)
        IN  \/ Find(a, x) # size[a] /\ Keep /\ Return("exists", a, Find(a, x))
            \/ Find(a, x) = size[a] /\ InsertImpl(a, i, x, DefaultValue)
  BY DEF Subscript
<1>2. size[a] \in Nat /\ LowerBoundKey(a, x) \in Nat
  BY OneArray, LowerBoundIs
<1>3. Find(a, x) \in Nat
  BY <1>2 DEF Find
<1>4. CASE Keep /\ Return("exists", a, Find(a, x))
  BY <1>3, <1>4, KeepKeeps, ReturnType DEF Outcomes
<1>5. CASE Find(a, x) = size[a] /\ InsertImpl(a, LowerBoundKey(a, x), x, DefaultValue)
  <2>1. ~IsAt(a, LowerBoundKey(a, x), x)
    BY <1>2, <1>5 DEF Find, IsAt
  <2> QED
    BY <1>5, <2>1, ValueAssumption, InsertImplKeeps
<1> QED
  BY <1>1, <1>4, <1>5

LEMMA WriteKeeps == ASSUME IInv, NEW a \in Array, Write(a) PROVE IInv'
<1>1. PICK i \in Used(a), v \in Value :
        /\ values' = [values EXCEPT ![a][i] = v] /\ UNCHANGED <<keys, size>>
        /\ Return("written", a, i)
  BY DEF Write
<1>2. i \in Nat
  BY DEF Used
<1>3. ret' \in Outcome
  BY <1>1, <1>2, ReturnType DEF Outcomes
<1> QED
  BY <1>1, <1>2, <1>3, ValueKeeps

LEMMA EraseKeeps == ASSUME IInv, NEW a \in Array, Erase(a) PROVE IInv'
<1>1. PICK i \in Used(a) :
        /\ Store(a, MoveForward(keys[a], i + 1, size[a], i),
                    MoveForward(values[a], i + 1, size[a], i), size[a] - 1)
        /\ Return("erased", a, i)
  BY DEF Erase
<1> DEFINE n   == size[a]
           len == Length[a]
           ks  == MoveForward(keys[a], i + 1, n, i)
           vs  == MoveForward(values[a], i + 1, n, i)
<1>2. /\ len \in Nat \ {0} /\ n \in Nat /\ n =< len
      /\ keys[a] \in KeySlots(len) /\ KeysOrdered(keys[a], n) /\ values[a] \in ValueSlots(len)
  BY OneArray
<1>3. i \in Nat /\ i < n /\ i + 1 \in Nat /\ i < i + 1 /\ i + 1 =< n /\ n - (i + 1) \in Nat
      /\ n - 1 \in 0 .. len /\ (i + 1) + (n - (i + 1)) =< len
      /\ \A j \in i .. n - 1 : j \in 0 .. len - 1
  BY <1>2 DEF Used
<1>4. ret' \in Outcome
  BY <1>1, <1>3, ReturnType DEF Outcomes
<1>5. keys[a] \in [0 .. len - 1 -> Key \cup {Gone}]
      /\ values[a] \in [0 .. len - 1 -> Value \cup {Gone}]
  BY <1>2 DEF KeySlots, ValueSlots
<1>6. len \in Nat /\ n \in Nat /\ n =< len
  BY <1>2
<1>7. /\ ks = MovedDown(keys[a], i + 1, n - (i + 1), i)
      /\ ks \in KeySlots(len) /\ vs \in ValueSlots(len)
  <2> HIDE DEF n, len
  <2>1. /\ ks = MovedDown(keys[a], i + 1, n - (i + 1), i)
        /\ ks \in [0 .. len - 1 -> Key \cup {Gone}]
    BY <1>3, <1>5, <1>6, MoveForwardIn
  <2>2. vs \in [0 .. len - 1 -> Value \cup {Gone}]
    BY <1>3, <1>5, <1>6, MoveForwardIn
  <2> QED
    BY <2>1, <2>2 DEF KeySlots, ValueSlots
<1> HIDE DEF ks, vs
<1>8. \A j \in 0 .. n - 2 : ks[j] = IF j < i THEN keys[a][j] ELSE keys[a][j + 1]
  <2>1. DOMAIN keys[a] = 0 .. len - 1
    BY <1>5
  <2> TAKE j \in 0 .. n - 2
  <2>2. j \in 0 .. len - 1
    BY <1>2
  <2>3. ks[j] = IF j \in i .. i + (n - (i + 1)) - 1 THEN keys[a][j - i + (i + 1)]
                ELSE IF j \in (i + 1) .. (i + 1) + (n - (i + 1)) - 1 THEN Left(keys[a][j])
                ELSE keys[a][j]
    BY <1>7, <2>1, <2>2 DEF MovedDown
  <2>4. j \in i .. i + (n - (i + 1)) - 1 <=> j >= i
    BY <1>2, <1>3
  <2>5. j - i + (i + 1) = j + 1 /\ j \in Nat
    BY <1>2, <1>3
  <2>6. j < i => j \notin (i + 1) .. (i + 1) + (n - (i + 1)) - 1
    BY <1>2, <1>3
  <2> QED
    BY <1>3, <2>3, <2>4, <2>5, <2>6
<1>9. KeysOrdered(ks, n - 1)
  <2>1. \A j \in 0 .. (n - 1) - 1 : j \in 0 .. n - 2 /\ j \in 0 .. n - 1 /\ j + 1 \in 0 .. n - 1
    BY <1>2
  <2>2. \A j \in 0 .. n - 1 : keys[a][j] \in Key /\ \A k \in 0 .. n - 1 : j < k => keys[a][j] < keys[a][k]
    BY <1>2 DEF KeysOrdered
  <2>3. \A j \in 0 .. (n - 1) - 1 : ks[j] \in Key
    BY <1>8, <2>1, <2>2
  <2>4. ASSUME NEW j \in 0 .. (n - 1) - 1, NEW k \in 0 .. (n - 1) - 1, j < k
        PROVE  ks[j] < ks[k]
    <3>1. ks[j] = IF j < i THEN keys[a][j] ELSE keys[a][j + 1]
      BY <1>8, <2>1
    <3>2. ks[k] = IF k < i THEN keys[a][k] ELSE keys[a][k + 1]
      BY <1>8, <2>1
    <3>3. j < k + 1 /\ j + 1 < k + 1 /\ (~(j < i) => ~(k < i))
      BY <1>3, <2>4
    <3>4. j \in 0 .. n - 1 /\ k \in 0 .. n - 1 /\ j + 1 \in 0 .. n - 1 /\ k + 1 \in 0 .. n - 1
      BY <2>1
    <3> HIDE DEF n, len
    <3> QED
      BY <2>2, <2>4, <3>1, <3>2, <3>3, <3>4
  <2> QED
    BY <2>3, <2>4 DEF KeysOrdered
<1>10. Store(a, ks, vs, n - 1)
  BY <1>1 DEF ks, vs
<1> QED
  BY <1>3, <1>4, <1>7, <1>9, <1>10, StoreKeeps

LEMMA EraseAbsentKeeps == ASSUME IInv, NEW a \in Array, EraseAbsent(a) PROVE IInv'
<1>1. size[a] \in Nat
  BY OneArray
<1> QED
  BY <1>1, KeepKeeps, ReturnType DEF EraseAbsent, Outcomes

LEMMA ClearKeeps == ASSUME IInv, NEW a \in Array, Clear(a) PROVE IInv'
<1>1. /\ Length[a] \in Nat \ {0}
      /\ keys[a] \in KeySlots(Length[a]) /\ values[a] \in ValueSlots(Length[a])
  BY OneArray
<1>2. KeysOrdered(keys[a], 0) /\ 0 \in 0 .. Length[a]
  BY <1>1 DEF KeysOrdered
<1>3. ret' \in Outcome
  BY ReturnType DEF Clear, Outcomes
<1> QED
  BY <1>1, <1>2, <1>3, StoreKeeps DEF Clear

LEMMA UpdateKeyKeeps == ASSUME IInv, NEW a \in Array, UpdateKey(a) PROVE IInv'
<1>1. PICK i \in Used(a), x \in Key :
        /\ i > 0 => keys[a][i - 1] < x
        /\ i < size[a] - 1 => x < keys[a][i + 1]
        /\ keys' = [keys EXCEPT ![a][i] = x]
        /\ UNCHANGED <<values, size>>
        /\ Return("updated", a, i)
  BY DEF UpdateKey
<1> DEFINE n   == size[a]
           len == Length[a]
           ks  == [keys[a] EXCEPT ![i] = x]
<1>2. /\ len \in Nat \ {0} /\ n \in Nat /\ n =< len
      /\ keys[a] \in KeySlots(len) /\ KeysOrdered(keys[a], n) /\ values[a] \in ValueSlots(len)
      /\ DOMAIN keys = Array /\ DOMAIN values = Array /\ DOMAIN size = Array
  BY OneArray
<1>3. i \in Nat /\ i < n /\ i \in 0 .. len - 1
  BY <1>2 DEF Used
<1>4. ret' \in Outcome
  BY <1>1, <1>3, ReturnType DEF Outcomes
<1>5. ks \in KeySlots(len) /\ \A j \in 0 .. n - 1 : ks[j] = IF j = i THEN x ELSE keys[a][j]
  BY <1>2, <1>3 DEF KeySlots
<1>6. x \in Nat /\ \A j \in 0 .. n - 1 : keys[a][j] \in Nat
  BY <1>2, KeyAssumption DEF KeysOrdered
<1>7. \A j \in 0 .. n - 1 : j < i => keys[a][j] < x
  <2>1. \A j \in 0 .. n - 1 : j < i - 1 => keys[a][j] < keys[a][i - 1]
    BY <1>2, <1>3 DEF KeysOrdered
  <2> QED
    BY <1>1, <1>2, <1>3, <1>6, <2>1
<1>8. \A j \in 0 .. n - 1 : j > i => x < keys[a][j]
  <2>1. \A j \in 0 .. n - 1 : j > i + 1 => keys[a][i + 1] < keys[a][j]
    BY <1>2, <1>3 DEF KeysOrdered
  <2> QED
    BY <1>1, <1>2, <1>3, <1>6, <2>1
<1> HIDE DEF ks
<1>9. KeysOrdered(ks, n)
  BY <1>2, <1>3, <1>5, <1>7, <1>8 DEF KeysOrdered
<1>10. GoodKeys(ks, n, len)
  BY <1>2, <1>5, <1>9 DEF GoodKeys
<1>11. /\ keys' = [keys EXCEPT ![a] = ks] /\ values' = [values EXCEPT ![a] = values[a]]
       /\ size' = [size EXCEPT ![a] = n]
  <2>1. keys' = [keys EXCEPT ![a] = ks]
    BY <1>1, <1>2 DEF ks
  <2>2. values' = [values EXCEPT ![a] = values[a]]
    BY <1>1 DEF IInv
  <2>3. size' = [size EXCEPT ![a] = n]
    BY <1>1 DEF IInv
  <2> QED
    BY <2>1, <2>2, <2>3
<1> QED
  BY <1>2, <1>4, <1>10, <1>11, ChangeKeeps

\* The first of two calls' outcomes that change nothing.
LEMMA RefusedKeeps ==
  ASSUME IInv, NEW a \in Array, Keep, NEW how \in Outcomes, Return(how, a, size[a])
  PROVE  IInv'
<1>1. size[a] \in Nat
  BY OneArray
<1> QED
  BY <1>1, KeepKeeps, ReturnType

\* A range of ordered keys, moved elsewhere.
LEMMA RangeOrdered ==
  ASSUME NEW ks, NEW n \in Nat, KeysOrdered(ks, n), NEW m, NEW i \in Nat, NEW k \in Nat,
         i + k =< n, \A j \in 0 .. k - 1 : m[j] = ks[i + j]
  PROVE  KeysOrdered(m, k)
<1>1. \A j \in 0 .. k - 1 : i + j \in 0 .. n - 1
  OBVIOUS
<1> QED
  BY <1>1 DEF KeysOrdered

LEMMA SplitKeeps ==
  ASSUME IInv, NEW a \in Array, NEW b \in Array, a # b, Split(a, b)
  PROVE  IInv'
<1>1. PICK i \in 0 .. size[a] :
        LET n == size[a] - i
        IN  IF size[b] = 0 /\ n =< Length[b]
            THEN Exchange(b, Onto(keys[b], 0, keys[a], i, size[a]),
                             Onto(values[b], 0, values[a], i, size[a]), n,
                          a, keys[a], values[a], i)
            ELSE Keep /\ Return("refused", b, size[b])
  BY DEF Split
<1> DEFINE n  == size[a] - i
           kd == Onto(keys[b], 0, keys[a], i, size[a])
           vd == Onto(values[b], 0, values[a], i, size[a])
<1>2. /\ Length[a] \in Nat \ {0} /\ size[a] \in Nat /\ size[a] =< Length[a]
      /\ keys[a] \in KeySlots(Length[a]) /\ KeysOrdered(keys[a], size[a])
      /\ values[a] \in ValueSlots(Length[a])
  BY OneArray
<1>3. /\ Length[b] \in Nat \ {0}
      /\ keys[b] \in KeySlots(Length[b]) /\ values[b] \in ValueSlots(Length[b])
  BY OneArray
<1>4. CASE n =< Length[b] /\ Exchange(b, kd, vd, n, a, keys[a], values[a], i)
  <2>1. n \in Nat /\ i \in Nat /\ n \in 0 .. Length[b] /\ i \in 0 .. Length[a] /\ i + n =< size[a]
    BY <1>2, <1>4
  <2>2. kd \in KeySlots(Length[b]) /\ vd \in ValueSlots(Length[b])
    BY <1>2, <1>3, <2>1, OntoType DEF KeySlots, ValueSlots
  <2>3. \A j \in 0 .. n - 1 : kd[j] = keys[a][i + j]
    <3>1. DOMAIN keys[b] = 0 .. Length[b] - 1
      BY <1>3 DEF KeySlots
    <3> QED
      BY <1>2, <1>3, <2>1, <3>1 DEF Onto
  <2> HIDE DEF kd, vd
  <2>4. KeysOrdered(kd, n)
    BY <1>2, <2>1, <2>3, RangeOrdered
  <2>5. KeysOrdered(keys[a], i)
    BY <1>2, <2>1 DEF KeysOrdered
  <2>6. ret' \in Outcome
    BY <1>4, <2>1, ReturnType DEF Exchange, Outcomes
  <2> HIDE DEF n
  <2> QED
    BY <1>2, <1>4, <2>1, <2>2, <2>4, <2>5, <2>6, ExchangeKeeps DEF Exchange
<1>5. CASE Keep /\ Return("refused", b, size[b])
  BY <1>5, RefusedKeeps DEF Outcomes
<1> QED
  BY <1>1, <1>4, <1>5

\* Keys that were in order, and larger ones appended to them.
LEMMA AppendOrdered ==
  ASSUME NEW ks, NEW n \in Nat, KeysOrdered(ks, n), NEW ls, NEW m \in Nat, KeysOrdered(ls, m),
         n > 0 /\ m > 0 => ks[n - 1] < ls[0],
         NEW os, \A j \in 0 .. n - 1 : os[j] = ks[j], \A j \in n .. n + m - 1 : os[j] = ls[j - n]
  PROVE  KeysOrdered(os, n + m)
<1>1. /\ \A j \in 0 .. n - 1 : ks[j] \in Key /\ ks[j] \in Nat
      /\ \A j \in 0 .. m - 1 : ls[j] \in Key /\ ls[j] \in Nat
  BY KeyAssumption DEF KeysOrdered
<1>2. \A j \in 0 .. n + m - 1 : j \in 0 .. n - 1 \/ (j \in n .. n + m - 1 /\ j - n \in 0 .. m - 1)
  OBVIOUS
<1>3. \A j \in 0 .. n + m - 1 : os[j] \in Key
  BY <1>1, <1>2
<1>4. ASSUME NEW j \in 0 .. n - 1, NEW k \in 0 .. m - 1 PROVE ks[j] < ls[k]
  <2>1. ks[n - 1] < ls[0] /\ n - 1 \in 0 .. n - 1 /\ 0 \in 0 .. m - 1
    OBVIOUS
  <2>2. j = n - 1 \/ ks[j] < ks[n - 1]
    BY <2>1 DEF KeysOrdered
  <2>3. k = 0 \/ ls[0] < ls[k]
    BY <2>1 DEF KeysOrdered
  <2> QED
    BY <1>1, <2>1, <2>2, <2>3
<1>5. ASSUME NEW j \in 0 .. n + m - 1, NEW k \in 0 .. n + m - 1, j < k
      PROVE  os[j] < os[k]
  <2>1. CASE k < n
    BY <1>5, <2>1 DEF KeysOrdered
  <2>2. CASE j < n /\ k >= n
    BY <1>4, <2>2
  <2>3. CASE j >= n /\ k >= n
    <3>1. j - n \in 0 .. m - 1 /\ k - n \in 0 .. m - 1 /\ j - n < k - n
      BY <1>5, <2>3
    <3> QED
      BY <2>3, <3>1 DEF KeysOrdered
  <2> QED
    BY <1>5, <2>1, <2>2, <2>3
<1> QED
  BY <1>3, <1>5 DEF KeysOrdered

LEMMA TransferPrefixKeeps ==
  ASSUME IInv, NEW a \in Array, NEW b \in Array, a # b, TransferPrefix(a, b)
  PROVE  IInv'
<1>1. PICK n \in 0 .. size[b] + 1 :
        \/ ~MayTransfer(a, b, n) /\ Keep /\ Return("refused", a, size[a])
        \/ n = 0 /\ Keep /\ Return("moved", a, size[a])
        \/ /\ n > 0 /\ MayTransfer(a, b, n)
           /\ size[a] > 0 => keys[a][size[a] - 1] < keys[b][0]
           /\ Exchange(a, Onto(keys[a], size[a], keys[b], 0, n),
                          Onto(values[a], size[a], values[b], 0, n), size[a] + n,
                       b, MoveForward(keys[b], n, size[b], 0),
                          MoveForward(values[b], n, size[b], 0), size[b] - n)
  BY DEF TransferPrefix
<1>2. CASE Keep /\ (Return("refused", a, size[a]) \/ Return("moved", a, size[a]))
  BY <1>2, RefusedKeeps DEF Outcomes
<1> DEFINE na == size[a]
           nb == size[b]
           la == Length[a]
           lb == Length[b]
           kd == Onto(keys[a], na, keys[b], 0, n)
           vd == Onto(values[a], na, values[b], 0, n)
           ks == MoveForward(keys[b], n, nb, 0)
           vs == MoveForward(values[b], n, nb, 0)
<1>3. CASE /\ n > 0 /\ MayTransfer(a, b, n)
           /\ na > 0 => keys[a][na - 1] < keys[b][0]
           /\ Exchange(a, kd, vd, na + n, b, ks, vs, nb - n)
  <2>1. /\ la \in Nat \ {0} /\ na \in Nat /\ na =< la
        /\ keys[a] \in KeySlots(la) /\ KeysOrdered(keys[a], na) /\ values[a] \in ValueSlots(la)
    BY OneArray
  <2>2. /\ lb \in Nat \ {0} /\ nb \in Nat /\ nb =< lb
        /\ keys[b] \in KeySlots(lb) /\ KeysOrdered(keys[b], nb) /\ values[b] \in ValueSlots(lb)
    BY OneArray
  <2>3. n \in Nat /\ n > 0 /\ n =< nb /\ na + n =< la
    BY <1>3, <2>2 DEF MayTransfer
  <2>4. /\ na + n \in 0 .. la /\ nb - n \in 0 .. lb /\ n =< lb
        /\ nb - n \in Nat /\ na + n \in Nat
    BY <2>1, <2>2, <2>3
  <2>5. kd \in KeySlots(la) /\ vd \in ValueSlots(la)
    BY <2>1, <2>2, <2>3, <2>4, OntoType DEF KeySlots, ValueSlots
  <2>6. /\ ks = MovedDown(keys[b], n, nb - n, 0)
        /\ ks \in KeySlots(lb) /\ vs \in ValueSlots(lb)
    <3>1. keys[b] \in [0 .. lb - 1 -> Key \cup {Gone}]
          /\ values[b] \in [0 .. lb - 1 -> Value \cup {Gone}] /\ lb \in Nat
      BY <2>2 DEF KeySlots, ValueSlots
    <3> HIDE DEF na, nb, la, lb
    <3>2. /\ ks = MovedDown(keys[b], n, nb - n, 0)
          /\ ks \in [0 .. lb - 1 -> Key \cup {Gone}]
      BY <2>2, <2>3, <3>1, MoveForwardIn
    <3>3. vs \in [0 .. lb - 1 -> Value \cup {Gone}]
      BY <2>2, <2>3, <3>1, MoveForwardIn
    <3> QED
      BY <3>2, <3>3 DEF KeySlots, ValueSlots
  <2>7. KeysOrdered(kd, na + n)
    <3>1. DOMAIN keys[a] = 0 .. la - 1
      BY <2>1 DEF KeySlots
    <3>2. /\ \A j \in 0 .. na - 1 : kd[j] = keys[a][j]
          /\ \A j \in na .. na + n - 1 : kd[j] = keys[b][j - na]
      BY <2>1, <2>3, <3>1 DEF Onto
    <3>3. KeysOrdered(keys[b], n)
      BY <2>2, <2>3 DEF KeysOrdered
    <3> HIDE DEF na, nb, la, lb, kd
    <3> QED
      BY <1>3, <2>1, <2>3, <3>2, <3>3, AppendOrdered
  <2>8. KeysOrdered(ks, nb - n)
    <3>1. DOMAIN keys[b] = 0 .. lb - 1
      BY <2>2 DEF KeySlots
    <3>2. \A j \in 0 .. (nb - n) - 1 : ks[j] = keys[b][n + j]
      <4> TAKE j \in 0 .. (nb - n) - 1
      <4>1. j \in 0 .. lb - 1 /\ j \in 0 .. 0 + (nb - n) - 1 /\ j - 0 + n = n + j
        BY <2>2, <2>3
      <4> HIDE DEF na, nb, la, lb, ks
      <4> QED
        BY <2>6, <3>1, <4>1 DEF MovedDown
    <3>3. KeysOrdered(keys[b], nb) /\ nb \in Nat /\ n + (nb - n) =< nb
      BY <2>2, <2>3
    <3> HIDE DEF na, nb, la, lb, ks
    <3> QED
      BY <2>3, <2>4, <3>2, <3>3, RangeOrdered
  <2>9. ret' \in Outcome
    BY <1>3, <2>4, ReturnType DEF Exchange, Outcomes
  <2> HIDE DEF na, nb, la, lb, kd, vd, ks, vs
  <2> QED
    BY <1>3, <2>4, <2>5, <2>6, <2>7, <2>8, <2>9, ExchangeKeeps DEF Exchange, la, lb
<1> QED
  BY <1>1, <1>2, <1>3

LEMMA TransferSuffixKeeps ==
  ASSUME IInv, NEW a \in Array, NEW b \in Array, a # b, TransferSuffix(a, b)
  PROVE  IInv'
<1>1. PICK n \in 0 .. size[b] + 1 :
        \/ ~MayTransfer(a, b, n) /\ Keep /\ Return("refused", a, size[a])
        \/ n = 0 /\ Keep /\ Return("moved", a, size[a])
        \/ /\ n > 0 /\ MayTransfer(a, b, n)
           /\ size[a] > 0 => keys[b][size[b] - 1] < keys[a][0]
           /\ LET start == size[b] - n
              IN  Exchange(a, Onto(MoveBackward(keys[a], 0, size[a], size[a] + n), 0,
                                   keys[b], start, size[b]),
                              Onto(MoveBackward(values[a], 0, size[a], size[a] + n), 0,
                                   values[b], start, size[b]), size[a] + n,
                           b, keys[b], values[b], start)
  BY DEF TransferSuffix
<1>2. CASE Keep /\ (Return("refused", a, size[a]) \/ Return("moved", a, size[a]))
  BY <1>2, RefusedKeeps DEF Outcomes
<1> DEFINE na == size[a]
           nb == size[b]
           la == Length[a]
           lb == Length[b]
           start == nb - n
           km == MoveBackward(keys[a], 0, na, na + n)
           vm == MoveBackward(values[a], 0, na, na + n)
           kd == Onto(km, 0, keys[b], start, nb)
           vd == Onto(vm, 0, values[b], start, nb)
<1>3. CASE /\ n > 0 /\ MayTransfer(a, b, n)
           /\ na > 0 => keys[b][nb - 1] < keys[a][0]
           /\ Exchange(a, kd, vd, na + n, b, keys[b], values[b], start)
  <2>1. /\ la \in Nat \ {0} /\ na \in Nat /\ na =< la
        /\ keys[a] \in KeySlots(la) /\ KeysOrdered(keys[a], na) /\ values[a] \in ValueSlots(la)
    BY OneArray
  <2>2. /\ lb \in Nat \ {0} /\ nb \in Nat /\ nb =< lb
        /\ keys[b] \in KeySlots(lb) /\ KeysOrdered(keys[b], nb) /\ values[b] \in ValueSlots(lb)
    BY OneArray
  <2>3. n \in Nat /\ n > 0 /\ n =< nb /\ na + n =< la
    BY <1>3, <2>2 DEF MayTransfer
  <2>4. /\ na + n \in 0 .. la /\ start \in 0 .. lb /\ start \in Nat /\ na + n \in Nat
        /\ na < na + n /\ 0 =< na /\ start + n = nb /\ nb - start = n
    BY <2>1, <2>2, <2>3
  <2>5. /\ km = MovedUp(keys[a], na, na - 0, na + n)
        /\ km \in [0 .. la - 1 -> Key \cup {Gone}]
        /\ vm \in [0 .. la - 1 -> Value \cup {Gone}]
    <3>1. keys[a] \in [0 .. la - 1 -> Key \cup {Gone}]
          /\ values[a] \in [0 .. la - 1 -> Value \cup {Gone}] /\ la \in Nat
      BY <2>1 DEF KeySlots, ValueSlots
    <3> HIDE DEF na, nb, la, lb
    <3>2. /\ km = MovedUp(keys[a], na, na - 0, na + n)
          /\ km \in [0 .. la - 1 -> Key \cup {Gone}]
      BY <2>1, <2>3, <2>4, <3>1, MoveBackwardIn
    <3>3. vm \in [0 .. la - 1 -> Value \cup {Gone}]
      BY <2>1, <2>3, <2>4, <3>1, MoveBackwardIn
    <3> QED
      BY <3>2, <3>3
  <2> HIDE DEF km, vm
  <2>6. kd \in KeySlots(la) /\ vd \in ValueSlots(la)
    <3>1. keys[b] \in [0 .. lb - 1 -> Key \cup {Gone}]
          /\ values[b] \in [0 .. lb - 1 -> Value \cup {Gone}] /\ lb \in Nat /\ la \in Nat
      BY <2>1, <2>2 DEF KeySlots, ValueSlots
    <3> HIDE DEF na, nb, la, lb, start
    <3> QED
      BY <2>2, <2>4, <2>5, <3>1, OntoType DEF KeySlots, ValueSlots
  <2>7. KeysOrdered(kd, n + na)
    <3>1. DOMAIN keys[a] = 0 .. la - 1 /\ DOMAIN km = 0 .. la - 1
      BY <2>1, <2>5 DEF KeySlots
    <3>2. \A j \in 0 .. n - 1 : kd[j] = keys[b][start + j]
      BY <2>1, <2>3, <2>4, <3>1 DEF Onto
    <3>3. \A j \in n .. n + na - 1 : kd[j] = km[j]
      BY <2>1, <2>3, <2>4, <3>1 DEF Onto
    <3>4. \A j \in n .. n + na - 1 : km[j] = keys[a][j - n]
      <4> TAKE j \in n .. n + na - 1
      <4>1. j \in 0 .. la - 1 /\ j \in (na + n) - (na - 0) .. (na + n) - 1
            /\ j - (na + n) + na = j - n
        BY <2>1, <2>3
      <4> QED
        BY <2>5, <3>1, <4>1 DEF MovedUp
    <3>5. [j \in 0 .. n - 1 |-> keys[b][start + j]] = [j \in 0 .. n - 1 |-> kd[j]]
      BY <3>2
    <3> DEFINE low == [j \in 0 .. n - 1 |-> keys[b][start + j]]
    <3>6. \A j \in 0 .. n - 1 : low[j] = keys[b][start + j]
      OBVIOUS
    <3> HIDE DEF low, na, nb, la, lb, kd, start
    <3>7. KeysOrdered(low, n)
      <4>1. KeysOrdered(keys[b], nb) /\ nb \in Nat /\ start \in Nat /\ start + n =< nb
        BY <2>2, <2>4
      <4> QED
        BY <2>3, <3>6, <4>1, RangeOrdered
    <3>8. n > 0 /\ na > 0 => low[n - 1] < keys[a][0]
      <4>1. n - 1 \in 0 .. n - 1 /\ start + (n - 1) = nb - 1
        BY <2>2, <2>3, <2>4
      <4> QED
        BY <1>3, <3>6, <4>1
    <3>9. /\ \A j \in 0 .. n - 1 : kd[j] = low[j]
          /\ \A j \in n .. n + na - 1 : kd[j] = keys[a][j - n]
      BY <3>2, <3>3, <3>4, <3>6
    <3> QED
      BY <2>1, <2>3, <3>7, <3>8, <3>9, AppendOrdered
  <2>8. KeysOrdered(kd, na + n) /\ KeysOrdered(keys[b], start)
    <3>1. na + n = n + na
      BY <2>1, <2>3
    <3>2. KeysOrdered(kd, na + n)
      BY <2>7, <3>1
    <3>3. \A j \in 0 .. start - 1 : j \in 0 .. nb - 1
      BY <2>2, <2>3, <2>4
    <3>4. KeysOrdered(keys[b], nb)
      BY <2>2
    <3> HIDE DEF na, nb, kd, start
    <3>5. KeysOrdered(keys[b], start)
      BY <3>3, <3>4 DEF KeysOrdered
    <3> QED
      BY <3>2, <3>5
  <2>9. ret' \in Outcome
    BY <1>3, <2>4, ReturnType DEF Exchange, Outcomes
  <2> HIDE DEF na, nb, la, lb, kd, vd, start
  <2> QED
    BY <1>3, <2>2, <2>4, <2>6, <2>8, <2>9, ExchangeKeeps DEF Exchange, la, lb
<1> QED
  BY <1>1, <1>2, <1>3

LEMMA CopyAssignKeeps ==
  ASSUME IInv, NEW a \in Array, NEW b \in Array, CopyAssign(a, b) PROVE IInv'
<1>1. /\ Length[a] = Length[b]
      /\ \/ Store(a, keys[b], values[b], size[b]) /\ Return("assigned", a, size[b])
         \/ /\ \E n \in Used(b) :
                 Store(a, keys[b], Onto(values[a], 0, values[b], 0, n), size[b])
            /\ Return("threw", a, size[b])
  BY DEF CopyAssign
<1>2. /\ Length[b] \in Nat /\ size[b] \in Nat /\ size[b] =< Length[b]
      /\ keys[b] \in KeySlots(Length[a]) /\ KeysOrdered(keys[b], size[b])
      /\ values[b] \in ValueSlots(Length[a])
  BY <1>1, OneArray
<1>3. values[a] \in ValueSlots(Length[a])
  BY OneArray
<1>4. ret' \in Outcome
  BY <1>1, <1>2, ReturnType DEF Outcomes
<1>5. size[b] \in 0 .. Length[a]
  BY <1>1, <1>2
<1>6. CASE Store(a, keys[b], values[b], size[b])
  BY <1>2, <1>4, <1>5, <1>6, StoreKeeps
<1>7. CASE \E n \in Used(b) : Store(a, keys[b], Onto(values[a], 0, values[b], 0, n), size[b])
  <2>1. PICK n \in Used(b) : Store(a, keys[b], Onto(values[a], 0, values[b], 0, n), size[b])
    BY <1>7
  <2>2. n \in Nat /\ n =< Length[b]
    BY <1>2 DEF Used
  <2>3. Onto(values[a], 0, values[b], 0, n) \in ValueSlots(Length[a])
    BY <1>1, <1>2, <1>3, <2>2, OntoType DEF ValueSlots
  <2> QED
    BY <1>2, <1>4, <1>5, <2>1, <2>3, StoreKeeps
<1> QED
  BY <1>1, <1>6, <1>7

LEMMA MoveAssignKeeps ==
  ASSUME IInv, NEW a \in Array, NEW b \in Array, MoveAssign(a, b) PROVE IInv'
<1>1. Length[a] = Length[b] /\ Return("taken", a, size[b])
  BY DEF MoveAssign
<1>2. /\ Length[b] \in Nat /\ size[b] \in Nat /\ size[b] =< Length[b]
      /\ keys[b] \in KeySlots(Length[b]) /\ KeysOrdered(keys[b], size[b])
      /\ values[b] \in ValueSlots(Length[b])
      /\ DOMAIN keys = Array /\ DOMAIN values = Array /\ DOMAIN size = Array
  BY OneArray
<1>3. ret' \in Outcome
  BY <1>1, <1>2, ReturnType DEF Outcomes
<1>4. CASE a = b
  BY <1>3, <1>4, KeepKeeps DEF MoveAssign
<1>5. CASE a # b
  <2>1. /\ keys' = [keys EXCEPT ![a] = keys[b], ![b] = Cropped(keys[b], 0)]
        /\ values' = [values EXCEPT ![a] = values[b], ![b] = Cropped(values[b], 0)]
        /\ size' = [size EXCEPT ![a] = size[b], ![b] = 0]
    BY <1>5 DEF MoveAssign
  <2>2. \A c \in Array :
          /\ keys'[c] = IF c = b THEN Cropped(keys[b], 0) ELSE IF c = a THEN keys[b] ELSE keys[c]
          /\ values'[c] = IF c = b THEN Cropped(values[b], 0)
                          ELSE IF c = a THEN values[b] ELSE values[c]
          /\ size'[c] = IF c = b THEN 0 ELSE IF c = a THEN size[b] ELSE size[c]
    BY <1>2, <2>1
  <2>3. /\ keys' = [c \in Array |-> keys'[c]] /\ values' = [c \in Array |-> values'[c]]
        /\ size' = [c \in Array |-> size'[c]]
    BY <1>2, <2>1
  <2>4. KeysOrdered(keys[b], 0) /\ 0 \in 0 .. Length[b]
    BY <1>2 DEF KeysOrdered
  <2>5. GoodKeys(Cropped(keys[b], 0), 0, Length[b])
    BY <1>2, <2>4, CroppedKeys
  <2>6. Cropped(values[b], 0) \in ValueSlots(Length[b])
    BY <1>2, CroppedType DEF ValueSlots
  <2>7. \A c \in Array : GoodKeys(keys'[c], size'[c], Length[c])
    BY <1>1, <2>2, <2>5 DEF IInv
  <2>8. \A c \in Array : values'[c] \in ValueSlots(Length[c])
    BY <1>1, <2>2, <2>6 DEF IInv
  <2> QED
    BY <1>3, <2>3, <2>7, <2>8 DEF IInv, GoodKeys, KeySlots, KeysOrdered, ValueSlots, Outcome
<1> QED
  BY <1>4, <1>5

LEMMA InitKeeps == ASSUME Init PROVE IInv
<1>1. \A a \in Array : Length[a] \in Nat
  BY LengthAssumption
<1>2. \A a \in Array : /\ keys[a] = [i \in Slots(a) |-> Gone]
                       /\ values[a] = [i \in Slots(a) |-> Gone] /\ size[a] = 0
  BY DEF Init
<1>3. \A a \in Array : GoodKeys(keys[a], size[a], Length[a])
  <2> TAKE a \in Array
  <2>1. keys[a] \in KeySlots(Length[a])
    BY <1>2 DEF KeySlots, Slots
  <2>4. 0 \in 0 .. Length[a]
    BY <1>1
  <2>2. 0 \in 0 .. Length[a] /\ size[a] = 0
    BY <1>2, <2>4, Zenon
  <2>3. KeysOrdered(keys[a], 0)
    BY DEF KeysOrdered
  <2> QED
    BY <2>1, <2>2, <2>3 DEF GoodKeys
<1>4. \A a \in Array : values[a] \in ValueSlots(Length[a])
  BY <1>2 DEF ValueSlots, Slots
<1>5. (CHOOSE a \in Array : TRUE) \in Array
  BY LengthAssumption
<1>6. ret \in Outcome
  BY <1>5 DEF Init, Outcome, Outcomes
<1>7. /\ keys = [a \in Array |-> keys[a]] /\ values = [a \in Array |-> values[a]]
      /\ size = [a \in Array |-> size[a]]
  BY DEF Init
<1> QED
  BY <1>3, <1>4, <1>6, <1>7 DEF IInv

LEMMA NextKeeps == ASSUME IInv, [Next]_vars PROVE IInv'
<1>1. CASE UNCHANGED vars
  BY <1>1 DEF vars, IInv, GoodKeys, KeySlots, KeysOrdered, ValueSlots, Outcome
<1>2. CASE Next
  <2>1. PICK a \in Array :
          \/ InsertNew(a) \/ InsertOrAssign(a) \/ Subscript(a) \/ Write(a)
          \/ Erase(a) \/ EraseAbsent(a) \/ Clear(a) \/ UpdateKey(a)
          \/ \E b \in Array \ {a} : Split(a, b) \/ TransferPrefix(a, b) \/ TransferSuffix(a, b)
          \/ \E b \in Array : CopyAssign(a, b) \/ MoveAssign(a, b)
    BY <1>2 DEF Next
  <2> QED
    BY <2>1, InsertNewKeeps, InsertOrAssignKeeps, SubscriptKeeps, WriteKeeps, EraseKeeps,
       EraseAbsentKeeps, ClearKeeps, UpdateKeyKeeps, SplitKeeps, TransferPrefixKeeps,
       TransferSuffixKeeps, CopyAssignKeeps, MoveAssignKeeps
<1> QED
  BY <1>1, <1>2

LEMMA InvTypeOK == ASSUME IInv PROVE TypeOK
BY DEF IInv, TypeOK, GoodKeys, KeySlots, ValueSlots, Slots, Outcome

----------------------------------------------------------------------------
(* What lookups find. *)

\* As many keys are before x as the slots before its lower bound.
LEMMA RankIs ==
  ASSUME NEW ks, NEW n \in Nat, NEW x \in Key, KeysOrdered(ks, n),
         NEW l \in 0 .. n, IsLowerBound(l, ks, n, x)
  PROVE  Rank({ks[i] : i \in 0 .. n - 1}, x) = l
<1> DEFINE S == {ks[i] : i \in 0 .. n - 1}
           T == {t \in S : t < x}
           f == [i \in 0 .. l - 1 |-> ks[i]]
<1>1. x \in Nat /\ \A i \in 0 .. n - 1 : ks[i] \in Nat
  BY KeyAssumption DEF KeysOrdered
<1>2. \A i \in 0 .. n - 1 : ks[i] < x <=> i \in 0 .. l - 1
  BY <1>1 DEF IsLowerBound
<1>3. \A i \in 0 .. l - 1 : i \in 0 .. n - 1
  OBVIOUS
<1>4. f \in [0 .. l - 1 -> T]
  BY <1>2, <1>3
<1>5. \A t \in T : \E i \in 0 .. l - 1 : f[i] = t
  BY <1>2
<1>6. \A i, j \in 0 .. l - 1 : i # j => f[i] # f[j]
  BY <1>1, <1>3 DEF KeysOrdered
<1> HIDE DEF f, T
<1>7. f \in Surjection(0 .. l - 1, T) /\ f \in Injection(0 .. l - 1, T)
  BY <1>4, <1>5, <1>6 DEF Surjection, Injection, IsInjective
<1>8. IsFiniteSet(0 .. l - 1) /\ Cardinality(0 .. l - 1) = l
  BY FS_Interval
<1>9. Cardinality(T) = l
  BY <1>7, <1>8, FS_Surjection
<1> QED
  BY <1>9 DEF Rank, T

LEMMA InvLookupsExact == ASSUME IInv PROVE LookupsExact
<1> SUFFICES ASSUME NEW a \in Array, NEW x \in Key
             PROVE  LET S == {keys[a][i] : i \in Used(a)}
                    IN  /\ LinearSearch(a, x) = Rank(S, x) /\ BinarySearch(a, x) = Rank(S, x)
                        /\ KeyAt(a, Find(a, x)) = S \cap {x}
                        /\ KeyAt(a, LowerBoundKey(a, x)) = Ceil(S, x)
                        /\ KeyAt(a, UpperBound(a, x)) = Above(S, x)
  BY Zenon DEF LookupsExact
<1> DEFINE S  == {keys[a][i] : i \in Used(a)}
           ks == keys[a]
           n  == size[a]
           l  == LowerBoundKey(a, x)
<1>1. n \in Nat /\ KeysOrdered(ks, n) /\ Used(a) = 0 .. n - 1
  BY OneArray DEF Used
<1>2. /\ l \in 0 .. n /\ IsLowerBound(l, ks, n, x)
      /\ LinearSearch(a, x) = l /\ BinarySearch(a, x) = l
  BY LowerBoundIs
<1>3. Rank(S, x) = l
  <2> HIDE DEF ks, n, l
  <2>1. S = {ks[i] : i \in 0 .. n - 1}
    BY <1>1 DEF ks
  <2> QED
    BY <1>1, <1>2, <2>1, RankIs
<1>4. x \in Nat /\ \A i \in 0 .. n - 1 : ks[i] \in Nat
  BY <1>1, KeyAssumption DEF KeysOrdered
<1>5. /\ \A i \in 0 .. n - 1 : i < l => ks[i] < x
      /\ \A i \in 0 .. n - 1 : i >= l => ks[i] >= x
  BY <1>2 DEF IsLowerBound
<1>6. \A i, j \in 0 .. n - 1 : i < j => ks[i] < ks[j]
  BY <1>1 DEF KeysOrdered
<1>7. /\ l \in Nat /\ l =< n
      /\ IsAt(a, l, x) <=> l < n /\ ks[l] = x
      /\ \A i \in Nat : KeyAt(a, i) = IF i < n THEN {ks[i]} ELSE {}
      /\ \A s : s \in S <=> \E i \in 0 .. n - 1 : s = ks[i]
  BY <1>1, <1>2 DEF IsAt, KeyAt
<1>8. l < n => l \in 0 .. n - 1
  BY <1>1, <1>2
<1>9. Find(a, x) = IF IsAt(a, l, x) THEN l ELSE n
  BY DEF Find
<1>10. UpperBound(a, x) = l + IF IsAt(a, l, x) THEN 1 ELSE 0
  BY DEF UpperBound
<1>11. x \in S <=> IsAt(a, l, x)
  <2> HIDE DEF S, l, n, ks
  <2>1. ASSUME NEW i \in 0 .. n - 1, ks[i] = x PROVE l < n /\ ks[l] = x
    <3>1. i >= l /\ l < n
      BY <1>1, <1>4, <1>5, <1>7, <2>1
    <3>2. ks[l] >= x /\ (i = l \/ ks[l] < ks[i])
      BY <1>5, <1>6, <1>7, <1>8, <3>1
    <3> QED
      BY <1>4, <1>8, <2>1, <3>1, <3>2
  <2> QED
    BY <1>7, <1>8, <2>1
<1>12. KeyAt(a, Find(a, x)) = S \cap {x}
  <2> HIDE DEF S, l, n, ks
  <2>1. CASE IsAt(a, l, x)
    BY <1>7, <1>9, <1>11, <2>1
  <2>2. CASE ~IsAt(a, l, x)
    BY <1>1, <1>7, <1>9, <1>11, <2>2
  <2> QED
    BY <2>1, <2>2
<1>13. KeyAt(a, l) = Ceil(S, x)
  <2> HIDE DEF S, l, n, ks
  <2>1. CASE l < n
    <3>1. ks[l] \in S /\ ks[l] >= x
      BY <1>5, <1>7, <1>8, <2>1
    <3>2. \A t \in S : t >= x => ks[l] =< t
      <4> SUFFICES ASSUME NEW i \in 0 .. n - 1, ks[i] >= x PROVE ks[l] =< ks[i]
        BY <1>7
      <4>1. i >= l
        BY <1>1, <1>4, <1>5, <1>7
      <4>2. i = l \/ ks[l] < ks[i]
        BY <1>6, <1>7, <1>8, <2>1, <4>1
      <4> QED
        BY <1>4, <1>8, <2>1, <4>2
    <3>3. \A t \in S : t \in Nat
      BY <1>4, <1>7
    <3>4. Ceil(S, x) = {ks[l]}
      BY <3>1, <3>2, <3>3 DEF Ceil
    <3> QED
      BY <1>7, <2>1, <3>4
  <2>2. CASE ~(l < n)
    <3>1. \A t \in S : ~(t >= x)
      BY <1>1, <1>4, <1>5, <1>7, <2>2
    <3> QED
      BY <1>7, <2>2, <3>1 DEF Ceil
  <2> QED
    BY <2>1, <2>2
<1>14. KeyAt(a, UpperBound(a, x)) = Above(S, x)
  <2> DEFINE u == UpperBound(a, x)
  <2> HIDE DEF S, l, n, ks
  <2>1. u \in Nat /\ u =< n
    BY <1>1, <1>7, <1>10
  <2>2. \A i \in 0 .. n - 1 : i < u => ks[i] =< x
    <3> TAKE i \in 0 .. n - 1
    <3>1. i < u => i < l \/ (i = l /\ IsAt(a, l, x))
      BY <1>7, <1>10
    <3> QED
      BY <1>4, <1>5, <1>7, <3>1
  <2>3. \A i \in 0 .. n - 1 : i >= u => ks[i] > x
    <3> TAKE i \in 0 .. n - 1
    <3>1. CASE IsAt(a, l, x)
      BY <1>4, <1>6, <1>7, <1>8, <1>10, <3>1
    <3>2. CASE ~IsAt(a, l, x)
      <4>1. u = l
        BY <1>7, <1>10, <3>2
      <4>2. i >= l => ks[i] >= x
        BY <1>5
      <4>3. ks[i] # x
        BY <1>7, <1>11, <3>2
      <4> QED
        BY <1>4, <4>1, <4>2, <4>3
    <3> QED
      BY <3>1, <3>2
  <2>4. KeyAt(a, u) = IF u < n THEN {ks[u]} ELSE {}
    BY <1>7, <2>1
  <2>5. u < n => u \in 0 .. n - 1
    BY <1>1, <2>1
  <2> HIDE DEF u
  <2>6. ASSUME u < n PROVE KeyAt(a, u) = Above(S, x)
    <3>1. ks[u] \in S /\ ks[u] > x
      BY <1>7, <2>1, <2>3, <2>5, <2>6
    <3>2. \A t \in S : t > x => ks[u] =< t
      <4> SUFFICES ASSUME NEW i \in 0 .. n - 1, ks[i] > x PROVE ks[u] =< ks[i]
        BY <1>7
      <4>1. i >= u
        BY <1>1, <1>4, <2>1, <2>2
      <4>2. i = u \/ ks[u] < ks[i]
        BY <1>6, <2>1, <2>5, <2>6, <4>1
      <4> QED
        BY <1>4, <2>5, <2>6, <4>2
    <3>3. \A t \in S : t \in Nat
      BY <1>4, <1>7
    <3>4. Above(S, x) = {ks[u]}
      BY <3>1, <3>2, <3>3 DEF Above
    <3> QED
      BY <2>4, <2>6, <3>4
  <2>7. ASSUME ~(u < n) PROVE KeyAt(a, u) = Above(S, x)
    <3>1. \A t \in S : ~(t > x)
      BY <1>1, <1>4, <1>7, <2>1, <2>2, <2>7
    <3> QED
      BY <2>4, <2>7, <3>1 DEF Above
  <2>8. KeyAt(a, u) = Above(S, x)
    BY <2>6, <2>7
  <2> QED
    BY <2>8 DEF u
<1> QED
  BY <1>2, <1>3, <1>12, <1>13, <1>14

----------------------------------------------------------------------------
(* The maps that the arrays hold.  A call's effect on the map follows from   *)
(* what it puts into the slots, one at a time.                               *)

\* The n first slots of ks and vs list the entries of m.
Lists(ks, vs, n, m) ==
  /\ m = [x \in {ks[i] : i \in 0 .. n - 1} |-> m[x]]
  /\ \A i \in 0 .. n - 1 : m[ks[i]] = vs[i]

\* One map only is listed.
LEMMA SameMap ==
  ASSUME NEW ks, NEW vs, NEW n, NEW m, Lists(ks, vs, n, m), NEW o, Lists(ks, vs, n, o)
  PROVE  m = o
<1> DEFINE S == {ks[i] : i \in 0 .. n - 1}
<1>1. m = [x \in S |-> m[x]] /\ o = [x \in S |-> o[x]]
  BY DEF Lists
<1>2. \A x \in S : m[x] = o[x]
  BY DEF Lists
<1> HIDE DEF S
<1> QED
  BY <1>1, <1>2

\* The slots beyond the first n do not matter.
LEMMA SameSlots ==
  ASSUME NEW ks, NEW vs, NEW n, NEW m, Lists(ks, vs, n, m),
         NEW ls, NEW ws, \A i \in 0 .. n - 1 : ls[i] = ks[i] /\ ws[i] = vs[i]
  PROVE  Lists(ls, ws, n, m)
<1>1. {ks[i] : i \in 0 .. n - 1} = {ls[i] : i \in 0 .. n - 1}
  OBVIOUS
<1> QED
  BY <1>1 DEF Lists

\* The entries of an array in order are those of a map.
LEMMA ListsSome ==
  ASSUME NEW ks, NEW n \in Nat, KeysOrdered(ks, n), NEW vs,
         NEW m, m = [x \in {ks[i] : i \in 0 .. n - 1} |->
                       vs[CHOOSE i \in 0 .. n - 1 : ks[i] = x]]
  PROVE  Lists(ks, vs, n, m)
<1> DEFINE S == {ks[i] : i \in 0 .. n - 1}
<1>1. m = [x \in S |-> m[x]]
  OBVIOUS
<1>2. ASSUME NEW i \in 0 .. n - 1 PROVE m[ks[i]] = vs[i]
  <2> DEFINE j == CHOOSE j \in 0 .. n - 1 : ks[j] = ks[i]
  <2>1. j \in 0 .. n - 1 /\ ks[j] = ks[i]
    BY Zenon
  <2>2. m[ks[i]] = vs[j]
    OBVIOUS
  <2> HIDE DEF j
  <2>3. ks[i] \in Nat /\ ks[j] \in Nat /\ (i < j => ks[i] < ks[j]) /\ (j < i => ks[j] < ks[i])
    BY <2>1, KeyAssumption DEF KeysOrdered
  <2>4. i = j
    BY <2>1, <2>3
  <2> QED
    BY <2>2, <2>4
<1> QED
  BY <1>1, <1>2 DEF Lists

\* Keys in order are all different, so they are as many as their slots, and a key's
\* rank is its index.
LEMMA KeysCounted ==
  ASSUME NEW ks, NEW n \in Nat, KeysOrdered(ks, n), NEW S, S = {ks[i] : i \in 0 .. n - 1}
  PROVE  /\ Cardinality(S) = n
         /\ \A i \in 0 .. n - 1 : Rank(S, ks[i]) = i
         /\ \A i, j \in 0 .. n - 1 : ks[i] = ks[j] => i = j
<1> DEFINE f == [i \in 0 .. n - 1 |-> ks[i]]
<1>1. \A i \in 0 .. n - 1 : ks[i] \in Key /\ ks[i] \in Nat
  BY KeyAssumption DEF KeysOrdered
<1>2. \A i, j \in 0 .. n - 1 : ks[i] = ks[j] => i = j
  <2> TAKE i, j \in 0 .. n - 1
  <2>1. (i < j => ks[i] < ks[j]) /\ (j < i => ks[j] < ks[i])
    BY DEF KeysOrdered
  <2> QED
    BY <1>1, <2>1
<1>3. f \in Surjection(0 .. n - 1, S) /\ f \in Injection(0 .. n - 1, S)
  BY <1>2 DEF Surjection, Injection, IsInjective
<1>4. IsFiniteSet(0 .. n - 1) /\ Cardinality(0 .. n - 1) = n
  BY FS_Interval
<1> HIDE DEF f
<1>5. Cardinality(S) = n
  BY <1>3, <1>4, FS_Surjection
<1>6. ASSUME NEW i \in 0 .. n - 1 PROVE Rank(S, ks[i]) = i
  <2>1. i \in 0 .. n /\ ks[i] \in Key
    BY <1>1
  <2>2. IsLowerBound(i, ks, n, ks[i])
    <3>1. \A j \in 0 .. i - 1 : ks[j] < ks[i]
      BY DEF KeysOrdered
    <3>2. \A j \in i .. n - 1 : ks[j] >= ks[i]
      BY <1>1 DEF KeysOrdered
    <3> QED
      BY <2>1, <3>1, <3>2 DEF IsLowerBound
  <2> QED
    BY <2>1, <2>2, RankIs
<1> QED
  BY <1>2, <1>5, <1>6

\* The keys in slots c to d - 1.
KeysIn(ks, c, d) == {ks[i] : i \in c .. d - 1}

\* The smallest and the greatest keys are in the first and the last slots.
LEMMA LowestAre ==
  ASSUME NEW ks, NEW n \in Nat, KeysOrdered(ks, n), NEW S, S = KeysIn(ks, 0, n), NEW c \in 0 .. n
  PROVE  /\ LowestN(S, c) = KeysIn(ks, 0, c) /\ S \ LowestN(S, c) = KeysIn(ks, c, n)
         /\ HighestN(S, c) = KeysIn(ks, n - c, n) /\ S \ HighestN(S, c) = KeysIn(ks, 0, n - c)
<1> USE DEF KeysIn
<1>1. /\ Cardinality(S) = n
      /\ \A i \in 0 .. n - 1 : Rank(S, ks[i]) = i
      /\ \A i, j \in 0 .. n - 1 : ks[i] = ks[j] => i = j
  BY KeysCounted
<1>2. ASSUME NEW i \in 0 .. n - 1
      PROVE  /\ ks[i] \in LowestN(S, c) <=> i < c
             /\ ks[i] \in HighestN(S, c) <=> i + c >= n
  BY <1>1 DEF LowestN, HighestN
<1>3. LowestN(S, c) \subseteq S /\ HighestN(S, c) \subseteq S
  BY DEF LowestN, HighestN
<1>4. LowestN(S, c) = {ks[i] : i \in 0 .. c - 1}
  BY <1>2, <1>3
<1>5. S \ LowestN(S, c) = {ks[i] : i \in c .. n - 1}
  BY <1>2, <1>3
<1>6. HighestN(S, c) = {ks[i] : i \in n - c .. n - 1}
  BY <1>2, <1>3
<1>7. S \ HighestN(S, c) = {ks[i] : i \in 0 .. (n - c) - 1}
  BY <1>2, <1>3
<1> QED
  BY <1>4, <1>5, <1>6, <1>7

\* A part of the slots that stays, or goes elsewhere, lists the entries of its keys.
LEMMA RangeListed ==
  ASSUME NEW ks, NEW vs, NEW n \in Nat, NEW m, Lists(ks, vs, n, m),
         NEW c \in Nat, NEW d \in Nat, c + d =< n,
         NEW ls, NEW ws, IsPart(ls, ks, c, d), IsPart(ws, vs, c, d),
         NEW T, T = KeysIn(ks, c, c + d)
  PROVE  Lists(ls, ws, d, Only(m, T))
<1> USE DEF IsPart, KeysIn
<1> DEFINE S == {ks[i] : i \in 0 .. n - 1}
<1>1. /\ DOMAIN m = S /\ T \subseteq S
      /\ \A i \in 0 .. n - 1 : m[ks[i]] = vs[i]
  BY DEF Lists
<1>2. Only(m, T) = [x \in T |-> m[x]]
  <2> HIDE DEF S
  <2>1. DOMAIN m \cap T = T
    BY <1>1
  <2> QED
    BY <2>1 DEF Only, Restrict
<1>3. \A i \in 0 .. d - 1 : c + i \in c .. c + d - 1 /\ c + i \in 0 .. n - 1
  OBVIOUS
<1>4. \A i \in c .. c + d - 1 : i - c \in 0 .. d - 1 /\ c + (i - c) = i
  OBVIOUS
<1>5. T = {ls[i] : i \in 0 .. d - 1}
  <2>1. ASSUME NEW i \in 0 .. d - 1 PROVE ls[i] \in T
    BY <1>3
  <2>2. ASSUME NEW i \in c .. c + d - 1 PROVE ks[i] \in {ls[j] : j \in 0 .. d - 1}
    BY <1>4
  <2> QED
    BY <2>1, <2>2
<1>6. \A i \in 0 .. d - 1 : ls[i] \in T /\ m[ls[i]] = ws[i]
  BY <1>1, <1>3, <1>5
<1> QED
  BY <1>2, <1>5, <1>6 DEF Lists

\* What is taken from a map and what is left of it.
LEMMA WithoutIs ==
  ASSUME NEW m, NEW S PROVE Without(m, S) = Only(m, DOMAIN m \ S)
<1>1. DOMAIN m \cap (DOMAIN m \ S) = DOMAIN m \ S
  OBVIOUS
<1> QED
  BY <1>1 DEF Without, Only

\* An element goes into slot i, after those before it have been moved up.
LEMMA InsertListed ==
  ASSUME NEW ks, NEW vs, NEW n \in Nat, NEW m, Lists(ks, vs, n, m),
         NEW x, NEW v, x \notin DOMAIN m, NEW i \in 0 .. n, NEW ls, NEW ws,
         IsRaised(ls, ks, n, i, x), IsRaised(ws, vs, n, i, v)
  PROVE  Lists(ls, ws, n + 1, Insert(m, x, v))
<1> USE DEF IsRaised
<1> DEFINE S == {ks[j] : j \in 0 .. n - 1}
           T == {ls[j] : j \in 0 .. (n + 1) - 1}
<1>1. DOMAIN m = S /\ \A j \in 0 .. n - 1 : m[ks[j]] = vs[j] /\ ks[j] # x
  BY DEF Lists
<1>2. T = S \cup {x}
  <2>1. ASSUME NEW j \in 0 .. (n + 1) - 1 PROVE ls[j] \in S \cup {x}
    <3>1. j \in 0 .. n /\ (j < i => j \in 0 .. n - 1) /\ (j > i => j - 1 \in 0 .. n - 1)
      OBVIOUS
    <3> QED
      BY <3>1
  <2>2. ASSUME NEW j \in 0 .. n - 1 PROVE ks[j] \in T
    <3>1. CASE j < i
      <4>1. j \in 0 .. (n + 1) - 1 /\ ls[j] = ks[j]
        BY <3>1
      <4> QED
        BY <4>1
    <3>2. CASE ~(j < i)
      <4>1. j + 1 \in 0 .. n /\ ~(j + 1 < i) /\ j + 1 # i /\ (j + 1) - 1 = j
        BY <3>2
      <4>2. j + 1 \in 0 .. (n + 1) - 1 /\ ls[j + 1] = ks[j]
        BY <4>1
      <4> QED
        BY <4>2
    <3> QED
      BY <3>1, <3>2
  <2>3. x \in T
    <3>1. i \in 0 .. (n + 1) - 1 /\ ls[i] = x
      OBVIOUS
    <3> QED
      BY <3>1
  <2> QED
    BY <2>1, <2>2, <2>3
<1>3. Insert(m, x, v) = [y \in T |-> IF y = x THEN v ELSE m[y]]
  <2> HIDE DEF S, T
  <2> QED
    BY <1>1, <1>2 DEF Insert
<1>4. ASSUME NEW j \in 0 .. n
      PROVE  ls[j] \in T /\ ws[j] = IF ls[j] = x THEN v ELSE m[ls[j]]
  <2>1. ls[j] \in T
    <3>1. j \in 0 .. (n + 1) - 1
      OBVIOUS
    <3> QED
      BY <3>1
  <2>2. CASE j < i
    BY <1>1, <2>1, <2>2
  <2>3. CASE j = i
    BY <2>1, <2>3
  <2>4. CASE j > i
    <3>1. j - 1 \in 0 .. n - 1 /\ ls[j] = ks[j - 1] /\ ws[j] = vs[j - 1]
      BY <2>4
    <3> QED
      BY <1>1, <2>1, <3>1
  <2> QED
    BY <2>2, <2>3, <2>4
<1>5. \A j \in 0 .. (n + 1) - 1 : j \in 0 .. n
  OBVIOUS
<1> HIDE DEF T
<1>6. DOMAIN Insert(m, x, v) = T /\ \A y \in T : Insert(m, x, v)[y] = IF y = x THEN v ELSE m[y]
  BY <1>3
<1> QED
  BY <1>3, <1>4, <1>5, <1>6 DEF Lists, T

\* The element in slot i goes, and those behind it are moved down.
LEMMA EraseListed ==
  ASSUME NEW ks, NEW vs, NEW n \in Nat, KeysOrdered(ks, n), NEW m, Lists(ks, vs, n, m),
         NEW i \in 0 .. n - 1, NEW ls, NEW ws,
         IsLowered(ls, ks, n, i), IsLowered(ws, vs, n, i)
  PROVE  Lists(ls, ws, n - 1, Without(m, {ks[i]}))
<1> USE DEF IsLowered
<1> DEFINE S == {ks[j] : j \in 0 .. n - 1}
           T == {ls[j] : j \in 0 .. (n - 1) - 1}
<1>1. DOMAIN m = S /\ \A j \in 0 .. n - 1 : m[ks[j]] = vs[j]
  BY DEF Lists
<1>2. \A j, k \in 0 .. n - 1 : ks[j] = ks[k] => j = k
  BY KeysCounted
<1>3. T = S \ {ks[i]}
  <2>1. ASSUME NEW j \in 0 .. (n - 1) - 1 PROVE ls[j] \in S \ {ks[i]}
    <3>1. j \in 0 .. n - 2 /\ j \in 0 .. n - 1 /\ j + 1 \in 0 .. n - 1
      OBVIOUS
    <3> QED
      BY <1>2, <3>1
  <2>2. ASSUME NEW j \in 0 .. n - 1, j # i PROVE ks[j] \in T
    <3>1. CASE j < i
      <4>1. j \in 0 .. (n - 1) - 1 /\ j \in 0 .. n - 2
        BY <3>1
      <4>2. ls[j] = ks[j]
        BY <3>1, <4>1
      <4> QED
        BY <4>1, <4>2
    <3>2. CASE j > i
      <4>1. j - 1 \in 0 .. (n - 1) - 1 /\ j - 1 \in 0 .. n - 2 /\ ~(j - 1 < i) /\ (j - 1) + 1 = j
        BY <3>2
      <4>2. ls[j - 1] = ks[j]
        BY <4>1
      <4> QED
        BY <4>1, <4>2
    <3> QED
      BY <2>2, <3>1, <3>2
  <2> QED
    BY <2>1, <2>2
<1>4. Without(m, {ks[i]}) = [y \in T |-> m[y]]
  <2> HIDE DEF S, T
  <2> QED
    BY <1>1, <1>3 DEF Without, Restrict
<1>5. ASSUME NEW j \in 0 .. (n - 1) - 1 PROVE ls[j] \in T /\ ws[j] = m[ls[j]]
  <2>1. j \in 0 .. n - 2 /\ j \in 0 .. n - 1 /\ j + 1 \in 0 .. n - 1
    OBVIOUS
  <2>2. ls[j] \in T
    OBVIOUS
  <2> HIDE DEF T
  <2> QED
    BY <1>1, <2>1, <2>2
<1> HIDE DEF T
<1> QED
  BY <1>4, <1>5 DEF Lists, T

\* A new value in slot i.
LEMMA AssignListed ==
  ASSUME NEW ks, NEW vs, NEW n \in Nat, KeysOrdered(ks, n), NEW m, Lists(ks, vs, n, m),
         NEW i \in 0 .. n - 1, NEW v, NEW ws,
         IsWritten(ws, vs, n, i, v)
  PROVE  Lists(ks, ws, n, Insert(m, ks[i], v))
<1> USE DEF IsWritten
<1> DEFINE S == {ks[j] : j \in 0 .. n - 1}
<1>1. DOMAIN m = S /\ \A j \in 0 .. n - 1 : m[ks[j]] = vs[j]
  BY DEF Lists
<1>2. \A j, k \in 0 .. n - 1 : ks[j] = ks[k] => j = k
  BY KeysCounted
<1>3. Insert(m, ks[i], v) = [y \in S |-> IF y = ks[i] THEN v ELSE m[y]]
  <2>1. S \cup {ks[i]} = S
    OBVIOUS
  <2> HIDE DEF S
  <2> QED
    BY <1>1, <2>1 DEF Insert
<1>4. \A j \in 0 .. n - 1 : ks[j] \in S /\ ws[j] = IF ks[j] = ks[i] THEN v ELSE m[ks[j]]
  BY <1>1, <1>2
<1> HIDE DEF S
<1> QED
  BY <1>3, <1>4 DEF Lists, S

\* The key in slot i is replaced.
LEMMA UpdateListed ==
  ASSUME NEW ks, NEW vs, NEW n \in Nat, KeysOrdered(ks, n), NEW m, Lists(ks, vs, n, m),
         NEW i \in 0 .. n - 1, NEW x, NEW ls, KeysOrdered(ls, n),
         IsWritten(ls, ks, n, i, x)
  PROVE  /\ Lists(ls, vs, n, Insert(Without(m, {ks[i]}), x, m[ks[i]]))
         /\ KeepsOrder(DOMAIN m, ks[i], x)
<1> USE DEF IsWritten
<1> DEFINE S == {ks[j] : j \in 0 .. n - 1}
           T == {ls[j] : j \in 0 .. n - 1}
           w == Without(m, {ks[i]})
<1>1. DOMAIN m = S /\ \A j \in 0 .. n - 1 : m[ks[j]] = vs[j]
  BY DEF Lists
<1>2. /\ \A j, k \in 0 .. n - 1 : ks[j] = ks[k] => j = k
      /\ \A j, k \in 0 .. n - 1 : ls[j] = ls[k] => j = k
  BY KeysCounted
<1>3. w = [y \in S \ {ks[i]} |-> m[y]]
  <2> HIDE DEF S
  <2> QED
    BY <1>1 DEF Without, Restrict
<1>4. (S \ {ks[i]}) \cup {x} = T
  <2>1. ASSUME NEW j \in 0 .. n - 1, ks[j] # ks[i] PROVE ks[j] \in T
    BY <2>1
  <2>2. x \in T
    BY <1>2
  <2>3. ASSUME NEW j \in 0 .. n - 1 PROVE ls[j] = x \/ ls[j] \in S \ {ks[i]}
    BY <1>2
  <2> QED
    BY <2>1, <2>2, <2>3
<1>5. Insert(w, x, m[ks[i]]) = [y \in T |-> IF y = x THEN m[ks[i]] ELSE w[y]]
  <2> HIDE DEF S, T, w
  <2> QED
    BY <1>3, <1>4 DEF Insert
<1>6. \A j \in 0 .. n - 1 : ls[j] \in T /\ vs[j] = IF ls[j] = x THEN m[ks[i]] ELSE w[ls[j]]
  <2> TAKE j \in 0 .. n - 1
  <2>1. CASE j = i
    BY <1>1, <2>1
  <2>2. CASE j # i
    <3>1. ls[j] = ks[j] /\ ls[j] # x /\ ks[j] \in S \ {ks[i]}
      BY <1>2, <2>2
    <3>2. w[ks[j]] = m[ks[j]]
      BY <1>3, <3>1
    <3> HIDE DEF w
    <3> QED
      BY <1>1, <3>1, <3>2
  <2> QED
    BY <2>1, <2>2
<1>7. ASSUME NEW t \in S \ {ks[i]} PROVE t # x /\ (t < ks[i] <=> t < x)
  <2>1. PICK j \in 0 .. n - 1 : t = ks[j] /\ j # i /\ ls[j] = t /\ ls[i] = x
    OBVIOUS
  <2>2. ks[j] \in Nat /\ ks[i] \in Nat /\ x \in Nat
    BY <2>1, KeyAssumption DEF KeysOrdered
  <2>3. CASE j < i
    <3>1. ks[j] < ks[i] /\ ls[j] < ls[i]
      BY <2>3 DEF KeysOrdered
    <3> QED
      BY <2>1, <2>2, <3>1
  <2>4. CASE i < j
    <3>1. ks[i] < ks[j] /\ ls[i] < ls[j]
      BY <2>4 DEF KeysOrdered
    <3> QED
      BY <2>1, <2>2, <3>1
  <2> QED
    BY <2>1, <2>3, <2>4
<1>8. KeepsOrder(DOMAIN m, ks[i], x)
  BY <1>1, <1>7 DEF KeepsOrder
<1> HIDE DEF T, w
<1>9. Lists(ls, vs, n, Insert(w, x, m[ks[i]]))
  BY <1>5, <1>6 DEF Lists, T
<1> QED
  BY <1>8, <1>9 DEF w

\* Entries appended behind others.
LEMMA JoinListed ==
  ASSUME NEW ks, NEW vs, NEW n \in Nat, NEW m, Lists(ks, vs, n, m),
         NEW ls, NEW ws, NEW k \in Nat, NEW o, Lists(ls, ws, k, o),
         NEW ps, NEW us, KeysOrdered(ps, n + k),
         IsAppended(ps, ks, n, ls, k), IsAppended(us, vs, n, ws, k)
  PROVE  /\ Lists(ps, us, n + k, Join(m, o)) /\ Lists(ps, us, n + k, Join(o, m))
         /\ \A s \in DOMAIN m, t \in DOMAIN o : s < t
<1> USE DEF IsAppended
<1> DEFINE S == {ks[j] : j \in 0 .. n - 1}
           T == {ls[j] : j \in 0 .. k - 1}
           U == {ps[j] : j \in 0 .. n + k - 1}
<1>1. /\ DOMAIN m = S /\ \A j \in 0 .. n - 1 : m[ks[j]] = vs[j]
      /\ DOMAIN o = T /\ \A j \in 0 .. k - 1 : o[ls[j]] = ws[j]
  BY DEF Lists
<1>2. /\ \A j \in 0 .. n - 1 : j \in 0 .. n + k - 1
      /\ \A j \in 0 .. k - 1 : n + j \in 0 .. n + k - 1 /\ n + j \in n .. n + k - 1 /\ (n + j) - n = j
      /\ \A j \in 0 .. n + k - 1 : j \in 0 .. n - 1 \/ (j \in n .. n + k - 1 /\ j - n \in 0 .. k - 1)
  OBVIOUS
<1>3. U = S \cup T
  <2>1. \A j \in 0 .. n - 1 : ks[j] \in U
    BY <1>2
  <2>2. \A j \in 0 .. k - 1 : ls[j] \in U
    <3> TAKE j \in 0 .. k - 1
    <3>1. ps[n + j] = ls[j]
      BY <1>2
    <3> QED
      BY <1>2, <3>1
  <2>3. \A j \in 0 .. n + k - 1 : ps[j] \in S \cup T
    BY <1>2
  <2> QED
    BY <2>1, <2>2, <2>3
<1>4. ASSUME NEW s \in S, NEW t \in T PROVE s < t /\ s # t
  <2>1. PICK i \in 0 .. n - 1 : s = ks[i]
    OBVIOUS
  <2>2. PICK j \in 0 .. k - 1 : t = ls[j]
    OBVIOUS
  <2>3. s = ps[i] /\ t = ps[n + j] /\ i < n + j /\ i \in 0 .. n + k - 1 /\ n + j \in 0 .. n + k - 1
    BY <1>2, <2>1, <2>2
  <2>4. s < t
    BY <2>3 DEF KeysOrdered
  <2>5. ps[i] \in Key /\ ps[n + j] \in Key
    BY <2>3 DEF KeysOrdered
  <2>6. ps[i] \in Nat /\ ps[n + j] \in Nat
    BY <2>5, KeyAssumption
  <2> QED
    BY <2>3, <2>4, <2>6
<1> HIDE DEF S, T
<1>5. Join(m, o) = [y \in U |-> IF y \in S THEN m[y] ELSE o[y]]
  BY <1>1, <1>3 DEF Join
<1>6. Join(o, m) = [y \in U |-> IF y \in S THEN m[y] ELSE o[y]]
  <2>1. \A y \in U : (IF y \in T THEN o[y] ELSE m[y]) = (IF y \in S THEN m[y] ELSE o[y])
    BY <1>3, <1>4
  <2>2. T \cup S = U
    BY <1>3
  <2> QED
    BY <1>1, <2>1, <2>2 DEF Join
<1>7. ASSUME NEW j \in 0 .. n + k - 1
      PROVE  ps[j] \in U /\ us[j] = IF ps[j] \in S THEN m[ps[j]] ELSE o[ps[j]]
  <2>1. CASE j \in 0 .. n - 1
    BY <1>1, <2>1 DEF S
  <2>2. CASE j \in n .. n + k - 1 /\ j - n \in 0 .. k - 1
    <3>1. ps[j] = ls[j - n] /\ ls[j - n] \in T
      BY <2>2 DEF T
    <3>2. ps[j] \notin S
      BY <1>4, <3>1
    <3> QED
      BY <1>1, <2>2, <3>1, <3>2
  <2> QED
    BY <1>2, <2>1, <2>2
<1> HIDE DEF U
<1>8. Lists(ps, us, n + k, Join(m, o))
  <2>1. \A y \in U : Join(m, o)[y] = IF y \in S THEN m[y] ELSE o[y]
    BY <1>5
  <2>2. Join(m, o) = [y \in U |-> Join(m, o)[y]]
    BY <1>5
  <2>3. \A j \in 0 .. n + k - 1 : Join(m, o)[ps[j]] = us[j]
    BY <1>7, <2>1
  <2>4. (n + k) - 1 = n + k - 1
    OBVIOUS
  <2> QED
    BY <2>2, <2>3, <2>4, Zenon DEF Lists, U
<1> QED
  BY <1>1, <1>4, <1>5, <1>6, <1>8

\* The variables of DenseMaps.
Maps   == [a \in Array |-> Contents(a)]
Result == [how |-> ret.how, arr |-> ret.arr,
           at  |-> IF ret.how \in {"inserted", "exists", "written", "erased", "updated"}
                   THEN KeyAt(ret.arr, ret.idx) ELSE {}]

LEMMA ContentsListed ==
  ASSUME IInv, NEW a \in Array
  PROVE  /\ Lists(keys[a], values[a], size[a], Contents(a))
         /\ DOMAIN Contents(a) = {keys[a][i] : i \in 0 .. size[a] - 1}
         /\ Size(Contents(a)) = size[a] /\ Maps[a] = Contents(a)
<1>1. size[a] \in Nat /\ KeysOrdered(keys[a], size[a])
  BY OneArray
<1>2. Contents(a) = [x \in {keys[a][i] : i \in 0 .. size[a] - 1} |->
                       values[a][CHOOSE i \in 0 .. size[a] - 1 : keys[a][i] = x]]
  BY DEF Contents, Used
<1>3. Lists(keys[a], values[a], size[a], Contents(a))
  BY ONLY <1>1, <1>2, ListsSome
<1>4. DOMAIN Contents(a) = {keys[a][i] : i \in 0 .. size[a] - 1}
  BY <1>2
<1>5. Size(Contents(a)) = size[a]
  BY <1>1, <1>4, KeysCounted DEF Size
<1> QED
  BY <1>3, <1>4, <1>5 DEF Maps

\* The maps after a step are those that the slots list.
LEMMA MapsBecome ==
  ASSUME IInv', NEW m, m = [c \in Array |-> m[c]],
         \A c \in Array : Lists(keys'[c], values'[c], size'[c], m[c])
  PROVE  Maps' = m
<1>1. ASSUME NEW c \in Array PROVE Contents(c)' = m[c]
  <2>1. size'[c] \in Nat /\ KeysOrdered(keys'[c], size'[c])
    BY DEF IInv, GoodKeys, KeysOrdered
  <2>2. Contents(c)' = [x \in {keys'[c][i] : i \in 0 .. size'[c] - 1} |->
                          values'[c][CHOOSE i \in 0 .. size'[c] - 1 : keys'[c][i] = x]]
    BY DEF Contents, Used
  <2>3. Lists(keys'[c], values'[c], size'[c], Contents(c)')
    BY ONLY <2>1, <2>2, ListsSome
  <2>4. Lists(keys'[c], values'[c], size'[c], m[c])
    OBVIOUS
  <2> QED
    BY ONLY <2>3, <2>4, SameMap
<1>2. Maps' = [c \in Array |-> Contents(c)']
  BY DEF Maps
<1> QED
  BY <1>1, <1>2

\* One array has changed, or two.
LEMMA OneMap ==
  ASSUME IInv, IInv', NEW a \in Array, NEW m, Lists(keys'[a], values'[a], size'[a], m),
         \A c \in Array \ {a} : keys'[c] = keys[c] /\ values'[c] = values[c] /\ size'[c] = size[c]
  PROVE  Maps' = [Maps EXCEPT ![a] = m]
<1> DEFINE new == [Maps EXCEPT ![a] = m]
<1>1. new = [c \in Array |-> IF c = a THEN m ELSE Contents(c)]
  BY DEF Maps
<1>2. \A c \in Array \ {a} : Lists(keys'[c], values'[c], size'[c], Contents(c))
  BY ContentsListed
<1>3. \A c \in Array : Lists(keys'[c], values'[c], size'[c], new[c])
  BY <1>1, <1>2
<1> QED
  BY <1>1, <1>3, MapsBecome

\* Two maps have been replaced.
Replaced(ms, src, o, dst, m) == [ms EXCEPT ![src] = o, ![dst] = m]

LEMMA TwoMaps ==
  ASSUME IInv, IInv', NEW a \in Array, NEW b \in Array, a # b,
         NEW m, Lists(keys'[a], values'[a], size'[a], m),
         NEW o, Lists(keys'[b], values'[b], size'[b], o),
         \A c \in Array \ {a, b} :
           keys'[c] = keys[c] /\ values'[c] = values[c] /\ size'[c] = size[c]
  PROVE  Maps' = Replaced(Maps, b, o, a, m)
<1> DEFINE new == Replaced(Maps, b, o, a, m)
<1>1. new = [c \in Array |-> IF c = a THEN m ELSE IF c = b THEN o ELSE Contents(c)]
  BY DEF Maps, Replaced
<1>2. \A c \in Array \ {a, b} : Lists(keys'[c], values'[c], size'[c], Contents(c))
  BY ContentsListed
<1>3. \A c \in Array : Lists(keys'[c], values'[c], size'[c], new[c])
  BY <1>1, <1>2
<1> QED
  BY <1>1, <1>3, MapsBecome

\* A cropped array lists what the array did.
LEMMA CroppedLists ==
  ASSUME NEW len \in Nat, NEW n \in 0 .. len, NEW m, NEW ks, NEW vs, Lists(ks, vs, n, m),
         DOMAIN ks = 0 .. len - 1, DOMAIN vs = 0 .. len - 1
  PROVE  Lists(Cropped(ks, n), Cropped(vs, n), n, m)
<1>1. \A i \in 0 .. n - 1 : Cropped(ks, n)[i] = ks[i] /\ Cropped(vs, n)[i] = vs[i]
  BY DEF Cropped
<1> QED
  BY <1>1, SameSlots

\* What Store leaves: a map, and its keys slot by slot.
LEMMA StoredMap ==
  ASSUME IInv, IInv', NEW a \in Array, NEW ks \in KeySlots(Length[a]),
         NEW vs \in ValueSlots(Length[a]), NEW n \in 0 .. Length[a], Store(a, ks, vs, n),
         NEW m, Lists(ks, vs, n, m)
  PROVE  Maps' = [Maps EXCEPT ![a] = m]
<1>1. /\ Length[a] \in Nat
      /\ DOMAIN keys = Array /\ DOMAIN values = Array /\ DOMAIN size = Array
  BY OneArray
<1>2. /\ keys'[a] = Cropped(ks, n) /\ values'[a] = Cropped(vs, n) /\ size'[a] = n
      /\ \A c \in Array \ {a} : keys'[c] = keys[c] /\ values'[c] = values[c] /\ size'[c] = size[c]
  BY <1>1 DEF Store
<1>3. DOMAIN ks = 0 .. Length[a] - 1 /\ DOMAIN vs = 0 .. Length[a] - 1
  BY DEF KeySlots, ValueSlots
<1>4. Lists(keys'[a], values'[a], size'[a], m)
  BY <1>1, <1>2, <1>3, CroppedLists
<1> QED
  BY <1>2, <1>4, OneMap

LEMMA StoredKey ==
  ASSUME IInv, NEW a \in Array, NEW ks \in KeySlots(Length[a]), NEW vs,
         NEW n \in 0 .. Length[a], Store(a, ks, vs, n)
  PROVE  /\ size'[a] = n
         /\ \A i \in 0 .. n - 1 : keys'[a][i] = ks[i]
<1>1. Length[a] \in Nat /\ DOMAIN keys = Array /\ DOMAIN size = Array
  BY OneArray
<1>2. keys'[a] = Cropped(ks, n) /\ size'[a] = n /\ DOMAIN ks = 0 .. Length[a] - 1
  BY <1>1 DEF Store, KeySlots
<1>3. \A i \in 0 .. n - 1 : keys'[a][i] = ks[i]
  BY <1>1, <1>2 DEF Cropped
<1> QED
  BY <1>2, <1>3

\* The first n slots of an array of that length list m.
Holds(ks, vs, n, len, m) ==
  /\ ks \in KeySlots(len) /\ vs \in ValueSlots(len) /\ n \in 0 .. len
  /\ Lists(ks, vs, n, m)

\* What Exchange leaves in both arrays.
LEMMA ExchangedMaps ==
  ASSUME IInv, IInv', NEW dst \in Array, NEW src \in Array, dst # src,
         NEW kd, NEW vd, NEW nd, NEW m, Holds(kd, vd, nd, Length[dst], m),
         NEW ks, NEW vs, NEW ns, NEW o, Holds(ks, vs, ns, Length[src], o),
         Exchange(dst, kd, vd, nd, src, ks, vs, ns)
  PROVE  Maps' = Replaced(Maps, src, o, dst, m)
<1> USE DEF Holds
<1>1. /\ Length[dst] \in Nat /\ Length[src] \in Nat
      /\ DOMAIN keys = Array /\ DOMAIN values = Array /\ DOMAIN size = Array
  BY OneArray
<1>2. /\ keys'[dst] = Cropped(kd, nd) /\ values'[dst] = Cropped(vd, nd) /\ size'[dst] = nd
      /\ keys'[src] = Cropped(ks, ns) /\ values'[src] = Cropped(vs, ns) /\ size'[src] = ns
      /\ \A c \in Array \ {dst, src} :
           keys'[c] = keys[c] /\ values'[c] = values[c] /\ size'[c] = size[c]
  BY <1>1 DEF Exchange
<1>3. /\ DOMAIN kd = 0 .. Length[dst] - 1 /\ DOMAIN vd = 0 .. Length[dst] - 1
      /\ DOMAIN ks = 0 .. Length[src] - 1 /\ DOMAIN vs = 0 .. Length[src] - 1
  BY DEF KeySlots, ValueSlots
<1>4. Lists(keys'[dst], values'[dst], size'[dst], m)
  BY <1>1, <1>2, <1>3, CroppedLists
<1>5. Lists(keys'[src], values'[src], size'[src], o)
  BY <1>1, <1>2, <1>3, CroppedLists
<1> QED
  BY <1>2, <1>4, <1>5, TwoMaps

\* The operators that DenseMaps gets from DenseMap are those that the arrays use.
LEMMA SameOperators ==
  ASSUME NEW m, NEW o, NEW S, NEW T, NEW x, NEW v, NEW n
  PROVE  /\ Abstract!Insert(m, x, v) = Insert(m, x, v)
         /\ Abstract!Without(m, S) = Without(m, S) /\ Abstract!Only(m, S) = Only(m, S)
         /\ Abstract!Join(m, o) = Join(m, o) /\ Abstract!Size(m) = Size(m)
         /\ Abstract!LowestN(S, n) = LowestN(S, n) /\ Abstract!HighestN(S, n) = HighestN(S, n)
         /\ Abstract!Above(S, x) = Above(S, x) /\ Abstract!Empty = Empty
         /\ Abstract!KeepsOrder(S, x, v) <=> KeepsOrder(S, x, v)
         /\ Abstract!MayJoin(S, T, n) <=> MayJoin(S, T, n)
<1>1. \A U : Abstract!Cardinality(U) = Cardinality(U)
  BY Zenon DEF Abstract!Cardinality, Cardinality, Abstract!IsFiniteSet, IsFiniteSet
<1>2. Abstract!Size(m) = Size(m)
  BY <1>1 DEF Abstract!Size, Size
<1>3. Abstract!LowestN(S, n) = LowestN(S, n) /\ Abstract!HighestN(S, n) = HighestN(S, n)
  BY <1>1 DEF Abstract!LowestN, LowestN, Abstract!HighestN, HighestN, Abstract!Rank, Rank
<1>4. Abstract!MayJoin(S, T, n) <=> MayJoin(S, T, n)
  BY <1>1 DEF Abstract!MayJoin, MayJoin
<1>5. Abstract!Without(m, S) = Without(m, S) /\ Abstract!Only(m, S) = Only(m, S)
  BY DEF Abstract!Without, Without, Abstract!Only, Only, Abstract!Restrict, Restrict
<1>6. Abstract!Insert(m, x, v) = Insert(m, x, v) /\ Abstract!Join(m, o) = Join(m, o)
  BY DEF Abstract!Insert, Insert, Abstract!Join, Join
<1>7. Abstract!Above(S, x) = Above(S, x) /\ Abstract!Empty = Empty
  BY DEF Abstract!Above, Above, Abstract!Empty, Empty
<1>8. Abstract!KeepsOrder(S, x, v) <=> KeepsOrder(S, x, v)
  BY DEF Abstract!KeepsOrder, KeepsOrder
<1> QED
  BY <1>2, <1>3, <1>4, <1>5, <1>6, <1>7, <1>8

\* The outcome of a call, as DenseMaps has it.
LEMMA Returned ==
  ASSUME NEW how, NEW a, NEW i, Return(how, a, i), NEW S,
         S = IF how \in {"inserted", "exists", "written", "erased", "updated"}
             THEN (IF i < size'[a] THEN {keys'[a][i]} ELSE {}) ELSE {}
  PROVE  Abstract!Return(how, a, S)
<1>1. ret' = [how |-> how, arr |-> a, idx |-> i]
  BY DEF Return
<1>2. Result' = [how |-> how, arr |-> a, at |-> S]
  BY <1>1 DEF Result, KeyAt
<1> QED
  BY <1>2 DEF Abstract!Return, Result

LEMMA KeptMaps == ASSUME Keep PROVE UNCHANGED Maps /\ UNCHANGED <<keys, values, size>>
BY DEF Keep, Maps, Contents, Used

----------------------------------------------------------------------------
(* The calls, one by one: each does what DenseMaps says of it.  A step of   *)
(* DenseMaps is stated for Maps and Result, which are all it knows.         *)

\* What DenseMaps says of one map.
LEMMA AbstractMap ==
  ASSUME IInv, NEW a \in Array
  PROVE  /\ Abstract!Keys(a) = DOMAIN Contents(a)
         /\ Abstract!HasRoom(a) <=> size[a] < Length[a]
<1>1. Maps[a] = Contents(a) /\ Size(Contents(a)) = size[a]
  BY ContentsListed
<1>2. Abstract!Size(Contents(a)) = Size(Contents(a))
  BY SameOperators
<1>3. Abstract!Keys(a) = DOMAIN Maps[a] /\ (Abstract!HasRoom(a) <=> Abstract!Size(Maps[a]) < Length[a])
  BY DEF Abstract!Keys, Abstract!HasRoom, Maps
<1> QED
  BY <1>1, <1>2, <1>3

\* Where the code has found the key, the map has it.
LEMMA Found ==
  ASSUME IInv, NEW a \in Array, NEW x \in Key
  PROVE  /\ IsAt(a, LowerBoundKey(a, x), x) <=> x \in DOMAIN Contents(a)
         /\ Find(a, x) # size[a] <=> x \in DOMAIN Contents(a)
         /\ x \in DOMAIN Contents(a) => Find(a, x) = LowerBoundKey(a, x)
<1> DEFINE S == {keys[a][i] : i \in Used(a)}
<1>1. KeyAt(a, Find(a, x)) = S \cap {x}
  BY InvLookupsExact DEF LookupsExact
<1>2. DOMAIN Contents(a) = S
  BY ContentsListed DEF Used
<1>3. size[a] \in Nat
  BY OneArray
<1> HIDE DEF S
<1>4. CASE IsAt(a, LowerBoundKey(a, x), x)
  <2>1. Find(a, x) = LowerBoundKey(a, x) /\ Find(a, x) < size[a]
    BY <1>4 DEF Find, IsAt
  <2>2. KeyAt(a, Find(a, x)) = {keys[a][Find(a, x)]}
    BY <2>1 DEF KeyAt
  <2>3. x \in S
    BY <1>1, <2>2
  <2> QED
    BY <1>2, <1>3, <1>4, <2>1, <2>3
<1>5. CASE ~IsAt(a, LowerBoundKey(a, x), x)
  <2>1. Find(a, x) = size[a]
    BY <1>5 DEF Find
  <2>2. KeyAt(a, Find(a, x)) = {}
    BY <1>3, <2>1 DEF KeyAt
  <2> QED
    BY <1>1, <1>2, <1>5, <2>1, <2>2
<1> QED
  BY <1>4, <1>5

\* A call that changes nothing.
LEMMA RefusedMaps ==
  ASSUME NEW how, NEW a, NEW i, Keep, Return(how, a, i), how \in {"full", "threw", "absent", "refused"}
  PROVE  Abstract!Refuse(how, a)
<1>1. UNCHANGED Maps
  BY KeptMaps
<1>2. how \notin {"inserted", "exists", "written", "erased", "updated"}
  OBVIOUS
<1>3. Abstract!Return(how, a, {})
  BY <1>2, Returned
<1> QED
  BY <1>1, <1>3 DEF Abstract!Refuse, Maps

\* A new element, or what a copy that throws leaves: the keys of the shifted slots, the
\* last one no longer counted.
LEMMA InsertImplMaps ==
  ASSUME IInv, IInv', NEW a \in Array, NEW x \in Key, NEW v \in Value,
         x \notin DOMAIN Contents(a), InsertImpl(a, LowerBoundKey(a, x), x, v)
  PROVE  Abstract!Add(a, x, v) \/ Abstract!AddThrows(a, x)
<1> DEFINE i  == LowerBoundKey(a, x)
           n  == size[a]
           m  == Contents(a)
           vs == MoveBackward(values[a], i, n, n + 1)
           ks == [MoveBackward(keys[a], i, n, n + 1) EXCEPT ![i] = x]
           ws == [vs EXCEPT ![i] = v]
<1>1. n \in Nat /\ n =< Length[a] /\ Length[a] \in Nat
  BY OneArray
<1>2. CASE n >= Length[a]
  <2>1. Keep /\ Return("full", a, n)
    BY <1>2 DEF InsertImpl
  <2>2. Abstract!Refuse("full", a) /\ ~Abstract!HasRoom(a)
    BY <1>1, <1>2, <2>1, RefusedMaps, AbstractMap
  <2> QED
    BY <2>2 DEF Abstract!Add
<1>3. CASE n < Length[a]
  <2>1. ~IsAt(a, i, x)
    BY Found
  <2>2. /\ i \in 0 .. n /\ n + 1 \in 0 .. Length[a]
        /\ ks \in KeySlots(Length[a]) /\ KeysOrdered(ks, n + 1)
        /\ vs \in ValueSlots(Length[a])
        /\ IsRaised(ks, keys[a], n, i, x) /\ IsRaised(vs, values[a], n, i, vs[i])
    BY <1>3, <2>1, RoomMade
  <2>3. /\ i \in Nat /\ i =< n /\ n + 1 \in Nat /\ i \in 0 .. Length[a] - 1
        /\ \A j \in 0 .. n : j \in 0 .. Length[a] - 1
    BY <1>1, <1>3, <2>2
  <2>4. \/ Store(a, ks, ws, n + 1) /\ Return("inserted", a, i)
        \/ ValuesThrow /\ Store(a, ks, vs, n) /\ Return("threw", a, i)
    BY <1>1, <1>3 DEF InsertImpl
  <2>5. Lists(keys[a], values[a], n, m) /\ Maps[a] = m /\ x \notin DOMAIN m
    BY ContentsListed
  <2>6. x \notin Abstract!Keys(a) /\ Abstract!HasRoom(a)
    BY <1>3, AbstractMap
  <2>7. ws \in ValueSlots(Length[a]) /\ IsRaised(ws, values[a], n, i, v)
    <3>1. ws \in ValueSlots(Length[a])
      BY <2>2 DEF ValueSlots
    <3>2. DOMAIN vs = 0 .. Length[a] - 1
      BY <2>2 DEF ValueSlots
    <3>3. \A j \in 0 .. n : ws[j] = IF j = i THEN v ELSE vs[j]
      BY <2>3, <3>2
    <3> HIDE DEF i, n, ws, vs
    <3>4. IsRaised(ws, values[a], n, i, v)
      BY ONLY <2>2, <2>3, <3>3 DEF IsRaised
    <3> QED
      BY <3>1, <3>4
  <2> HIDE DEF i, n, m, vs, ks, ws
  <2>8. CASE Store(a, ks, ws, n + 1) /\ Return("inserted", a, i)
    <3>1. Lists(ks, ws, n + 1, Insert(m, x, v))
      BY ONLY <1>1, <2>2, <2>5, <2>7, InsertListed
    <3>2. Maps' = [Maps EXCEPT ![a] = Insert(m, x, v)]
      BY <2>2, <2>7, <2>8, <3>1, StoredMap
    <3>3. i < size'[a] /\ keys'[a][i] = x
      <4>1. i < n + 1 /\ i \in 0 .. (n + 1) - 1 /\ ks[i] = x
        BY <1>1, <2>2, <2>3 DEF IsRaised
      <4>2. size'[a] = n + 1 /\ keys'[a][i] = ks[i]
        BY <2>2, <2>8, <4>1, StoredKey
      <4> QED
        BY <4>1, <4>2
    <3>4. Abstract!Return("inserted", a, {x})
      BY <2>8, <3>3, Returned
    <3>5. Maps' = [Maps EXCEPT ![a] = Abstract!Insert(Maps[a], x, v)]
      BY <2>5, <3>2, SameOperators
    <3> QED
      BY <2>6, <3>4, <3>5 DEF Abstract!Add, Maps
  <2>9. CASE ValuesThrow /\ Store(a, ks, vs, n) /\ Return("threw", a, i)
    <3> DEFINE o == Insert(m, x, vs[i])
               T == LowestN(DOMAIN m \cup {x}, n)
    <3>1. Lists(ks, vs, n + 1, o)
      BY ONLY <1>1, <2>2, <2>5, InsertListed
    <3>2. DOMAIN o = DOMAIN m \cup {x} /\ DOMAIN o = KeysIn(ks, 0, n + 1)
      BY <3>1 DEF Insert, Lists, KeysIn
    <3> HIDE DEF o
    <3>3. T = KeysIn(ks, 0, 0 + n)
      <4>1. n \in 0 .. n + 1 /\ n + 1 \in Nat /\ 0 + n = n
        BY <1>1
      <4>2. LowestN(DOMAIN o, n) = KeysIn(ks, 0, n)
        BY <2>2, <3>2, <4>1, LowestAre
      <4> QED
        BY <3>2, <4>1, <4>2
    <3> HIDE DEF T
    <3>4. Lists(ks, vs, n, Only(o, T))
      <4>1. /\ n + 1 \in Nat /\ n \in Nat /\ 0 \in Nat /\ 0 + n =< n + 1
            /\ IsPart(ks, ks, 0, n) /\ IsPart(vs, vs, 0, n)
        BY <1>1 DEF IsPart
      <4> QED
        BY ONLY <3>1, <3>3, <4>1, RangeListed
    <3>5. n \in 0 .. Length[a]
      BY <1>1
    <3>6. Maps' = [Maps EXCEPT ![a] = Only(o, T)]
      BY <2>2, <2>9, <3>4, <3>5, StoredMap
    <3>7. Abstract!Return("threw", a, {})
      BY <2>9, Returned
    <3>8. vs[i] \in Value \cup {Gone}
      BY <2>2, <2>3 DEF ValueSlots
    <3>9. /\ o = Abstract!Insert(Maps[a], x, vs[i])
          /\ T = Abstract!LowestN(Abstract!Keys(a) \cup {x}, Abstract!Size(Maps[a]))
      <4>1. Abstract!Keys(a) = DOMAIN m /\ Size(m) = n
        BY AbstractMap, ContentsListed DEF m, n
      <4> QED
        BY <2>5, <4>1, SameOperators DEF o, T
    <3>10. Maps' = [Maps EXCEPT ![a] = Abstract!Only(Abstract!Insert(Maps[a], x, vs[i]),
                      Abstract!LowestN(Abstract!Keys(a) \cup {x}, Abstract!Size(Maps[a])))]
      BY <3>6, <3>9, SameOperators
    <3> QED
      BY <2>6, <2>9, <3>7, <3>8, <3>10 DEF Abstract!AddThrows, Maps
  <2> QED
    BY <2>4, <2>8, <2>9
<1> QED
  BY <1>1, <1>2, <1>3

LEMMA InsertNewMaps ==
  ASSUME IInv, IInv', NEW a \in Array, InsertNew(a) PROVE Abstract!InsertNew(a)
<1>1. PICK x \in Key, v \in Value :
        LET i == LowerBoundKey(a, x)
        IN  \/ size[a] >= Length[a] /\ Keep /\ Return("full", a, size[a])
            \/ size[a] < Length[a] /\ IsAt(a, i, x) /\ Keep /\ Return("exists", a, i)
            \/ size[a] < Length[a] /\ ~IsAt(a, i, x) /\ InsertImpl(a, i, x, v)
  BY DEF InsertNew
<1> DEFINE i == LowerBoundKey(a, x)
<1>2. size[a] \in Nat /\ Length[a] \in Nat
  BY OneArray
<1>3. /\ IsAt(a, i, x) <=> x \in DOMAIN Contents(a)
      /\ Abstract!Keys(a) = DOMAIN Contents(a) /\ (Abstract!HasRoom(a) <=> size[a] < Length[a])
  BY Found, AbstractMap
<1>4. CASE size[a] >= Length[a] /\ Keep /\ Return("full", a, size[a])
  <2>1. Abstract!Refuse("full", a) /\ ~Abstract!HasRoom(a)
    BY <1>2, <1>3, <1>4, RefusedMaps
  <2>2. Abstract!Add(a, x, v)
    BY <2>1 DEF Abstract!Add
  <2> QED
    BY <2>2 DEF Abstract!InsertNew
<1>5. CASE size[a] < Length[a] /\ IsAt(a, i, x) /\ Keep /\ Return("exists", a, i)
  <2>1. i < size'[a] /\ keys'[a][i] = x /\ UNCHANGED Maps
    BY <1>5, KeptMaps DEF IsAt
  <2>2. Abstract!Return("exists", a, {x})
    BY <1>5, <2>1, Returned
  <2> QED
    BY <1>3, <1>5, <2>1, <2>2 DEF Abstract!InsertNew, Maps
<1>6. CASE ~IsAt(a, i, x) /\ InsertImpl(a, i, x, v)
  <2>1. Abstract!Add(a, x, v) \/ Abstract!AddThrows(a, x)
    BY <1>3, <1>6, InsertImplMaps
  <2> QED
    BY <2>1 DEF Abstract!InsertNew
<1> QED
  BY <1>1, <1>4, <1>5, <1>6

\* A value is written where the key is.
LEMMA ValueMaps ==
  ASSUME IInv, IInv', NEW a \in Array, NEW i \in Used(a), NEW v \in Value,
         values' = [values EXCEPT ![a][i] = v], UNCHANGED <<keys, size>>
  PROVE  /\ Maps' = [Maps EXCEPT ![a] = Abstract!Insert(Maps[a], keys[a][i], v)]
         /\ i < size'[a] /\ keys'[a][i] = keys[a][i]
<1> DEFINE n  == size[a]
           ks == keys[a]
           ws == [values[a] EXCEPT ![i] = v]
<1>1. /\ n \in Nat /\ n =< Length[a] /\ Length[a] \in Nat /\ KeysOrdered(ks, n)
      /\ DOMAIN values[a] = 0 .. Length[a] - 1 /\ DOMAIN values = Array
  BY OneArray DEF ValueSlots
<1>2. i \in 0 .. n - 1 /\ i \in Nat /\ i < n
  BY <1>1 DEF Used
<1>3. Lists(ks, values[a], n, Contents(a)) /\ Maps[a] = Contents(a)
  BY ContentsListed
<1>4. IsWritten(ws, values[a], n, i, v)
  BY <1>1, <1>2 DEF IsWritten
<1>5. keys' = keys /\ size' = size /\ values'[a] = ws /\ \A c \in Array \ {a} : values'[c] = values[c]
  BY <1>1
<1> HIDE DEF n, ks, ws
<1>6. Lists(ks, ws, n, Insert(Contents(a), ks[i], v))
  BY ONLY <1>1, <1>2, <1>3, <1>4, AssignListed
<1>7. Lists(keys'[a], values'[a], size'[a], Insert(Contents(a), ks[i], v))
  BY <1>5, <1>6 DEF ks, n
<1>8. Maps' = [Maps EXCEPT ![a] = Insert(Contents(a), ks[i], v)]
  BY <1>5, <1>7, OneMap
<1>9. Abstract!Insert(Maps[a], ks[i], v) = Insert(Contents(a), ks[i], v)
  BY <1>3, SameOperators
<1> QED
  BY <1>2, <1>5, <1>8, <1>9 DEF n, ks

LEMMA InsertOrAssignMaps ==
  ASSUME IInv, IInv', NEW a \in Array, InsertOrAssign(a) PROVE Abstract!InsertOrAssign(a)
<1>1. PICK x \in Key, v \in Value :
        LET i == LowerBoundKey(a, x)
        IN  \/ /\ IsAt(a, i, x)
               /\ values' = [values EXCEPT ![a][i] = v]
               /\ UNCHANGED <<keys, size>>
               /\ Return("exists", a, i)
            \/ ValuesThrow /\ IsAt(a, i, x) /\ Keep /\ Return("threw", a, i)
            \/ ~IsAt(a, i, x) /\ InsertImpl(a, i, x, v)
  BY DEF InsertOrAssign
<1> DEFINE i == LowerBoundKey(a, x)
<1>2. /\ IsAt(a, i, x) <=> x \in DOMAIN Contents(a)
      /\ Abstract!Keys(a) = DOMAIN Contents(a) /\ i \in Nat
  BY Found, AbstractMap, LowerBoundIs, OneArray
<1>3. CASE /\ IsAt(a, i, x) /\ values' = [values EXCEPT ![a][i] = v]
           /\ UNCHANGED <<keys, size>> /\ Return("exists", a, i)
  <2>1. i \in Used(a) /\ keys[a][i] = x
    BY <1>2, <1>3, OneArray DEF IsAt, Used
  <2>2. /\ Maps' = [Maps EXCEPT ![a] = Abstract!Insert(Maps[a], x, v)]
        /\ i < size'[a] /\ keys'[a][i] = x
    BY <1>3, <2>1, ValueMaps
  <2>3. Abstract!Return("exists", a, {x})
    BY <1>3, <2>2, Returned
  <2> QED
    BY <1>2, <1>3, <2>2, <2>3 DEF Abstract!InsertOrAssign, Maps
<1>4. CASE ValuesThrow /\ IsAt(a, i, x) /\ Keep /\ Return("threw", a, i)
  <2>1. Abstract!Refuse("threw", a)
    BY <1>4, RefusedMaps
  <2> QED
    BY <1>2, <1>4, <2>1 DEF Abstract!InsertOrAssign
<1>5. CASE ~IsAt(a, i, x) /\ InsertImpl(a, i, x, v)
  <2>1. Abstract!Add(a, x, v) \/ Abstract!AddThrows(a, x)
    BY <1>2, <1>5, InsertImplMaps
  <2> QED
    BY <1>2, <1>5, <2>1 DEF Abstract!InsertOrAssign
<1> QED
  BY <1>1, <1>3, <1>4, <1>5

LEMMA SubscriptMaps ==
  ASSUME IInv, IInv', NEW a \in Array, Subscript(a) PROVE Abstract!Subscript(a)
<1>1. PICK x \in Key :
        LET i == LowerBoundKey(a, x)
        IN  \/ Find(a, x) # size[a] /\ Keep /\ Return("exists", a, Find(a, x))
            \/ Find(a, x) = size[a] /\ InsertImpl(a, i, x, DefaultValue)
  BY DEF Subscript
<1> DEFINE i == LowerBoundKey(a, x)
<1>2. /\ IsAt(a, i, x) <=> x \in DOMAIN Contents(a)
      /\ Find(a, x) # size[a] <=> x \in DOMAIN Contents(a)
      /\ x \in DOMAIN Contents(a) => Find(a, x) = i
      /\ Abstract!Keys(a) = DOMAIN Contents(a)
  BY Found, AbstractMap
<1>3. CASE Find(a, x) # size[a] /\ Keep /\ Return("exists", a, Find(a, x))
  <2>1. i < size'[a] /\ keys'[a][i] = x /\ UNCHANGED Maps /\ Return("exists", a, i)
    BY <1>2, <1>3, KeptMaps DEF IsAt
  <2>2. Abstract!Return("exists", a, {x})
    BY <2>1, Returned
  <2> QED
    BY <1>2, <1>3, <2>1, <2>2 DEF Abstract!Subscript, Maps
<1>4. CASE Find(a, x) = size[a] /\ InsertImpl(a, i, x, DefaultValue)
  <2>1. Abstract!Add(a, x, DefaultValue) \/ Abstract!AddThrows(a, x)
    BY <1>2, <1>4, ValueAssumption, InsertImplMaps
  <2> QED
    BY <1>2, <1>4, <2>1 DEF Abstract!Subscript
<1> QED
  BY <1>1, <1>3, <1>4

LEMMA WriteMaps ==
  ASSUME IInv, IInv', NEW a \in Array, Write(a) PROVE Abstract!Write(a)
<1>1. PICK i \in Used(a), v \in Value :
        /\ values' = [values EXCEPT ![a][i] = v] /\ UNCHANGED <<keys, size>>
        /\ Return("written", a, i)
  BY DEF Write
<1>2. /\ Maps' = [Maps EXCEPT ![a] = Abstract!Insert(Maps[a], keys[a][i], v)]
      /\ i < size'[a] /\ keys'[a][i] = keys[a][i]
  BY <1>1, ValueMaps
<1>3. keys[a][i] \in Abstract!Keys(a)
  BY AbstractMap, ContentsListed DEF Used
<1>4. Abstract!Return("written", a, {keys[a][i]})
  BY <1>1, <1>2, Returned
<1> QED
  BY <1>2, <1>3, <1>4 DEF Abstract!Write, Maps

LEMMA EraseMaps ==
  ASSUME IInv, IInv', NEW a \in Array, Erase(a) PROVE Abstract!Erase(a)
<1>1. PICK i \in Used(a) :
        /\ Store(a, MoveForward(keys[a], i + 1, size[a], i),
                    MoveForward(values[a], i + 1, size[a], i), size[a] - 1)
        /\ Return("erased", a, i)
  BY DEF Erase
<1> DEFINE n   == size[a]
           len == Length[a]
           m   == Contents(a)
           k   == keys[a][i]
           ks  == MoveForward(keys[a], i + 1, n, i)
           vs  == MoveForward(values[a], i + 1, n, i)
<1>2. /\ len \in Nat /\ n \in Nat /\ n =< len /\ KeysOrdered(keys[a], n)
      /\ keys[a] \in [0 .. len - 1 -> Key \cup {Gone}]
      /\ values[a] \in [0 .. len - 1 -> Value \cup {Gone}]
  BY OneArray DEF KeySlots, ValueSlots
<1>3. i \in Nat /\ i < n /\ i + 1 \in Nat /\ i < i + 1 /\ i + 1 =< n /\ i \in 0 .. n - 1
      /\ n - 1 \in 0 .. len
  BY <1>2 DEF Used
<1>4. Lists(keys[a], values[a], n, m) /\ Maps[a] = m
      /\ Abstract!Keys(a) = DOMAIN m /\ DOMAIN m = {keys[a][j] : j \in 0 .. n - 1}
  BY ContentsListed, AbstractMap
<1>5. Store(a, ks, vs, n - 1) /\ Return("erased", a, i)
  BY <1>1
<1> HIDE DEF n, len, m
<1>6. /\ ks \in [0 .. len - 1 -> Key \cup {Gone}] /\ IsShiftedDown(ks, keys[a], i + 1, n, i)
      /\ vs \in [0 .. len - 1 -> Value \cup {Gone}] /\ IsShiftedDown(vs, values[a], i + 1, n, i)
  <2>1. ks \in [0 .. len - 1 -> Key \cup {Gone}] /\ IsShiftedDown(ks, keys[a], i + 1, n, i)
    BY ONLY <1>2, <1>3, ShiftedDown
  <2>2. vs \in [0 .. len - 1 -> Value \cup {Gone}] /\ IsShiftedDown(vs, values[a], i + 1, n, i)
    BY ONLY <1>2, <1>3, ShiftedDown
  <2> QED
    BY <2>1, <2>2
<1> HIDE DEF ks, vs
<1>7. IsLowered(ks, keys[a], n, i) /\ IsLowered(vs, values[a], n, i)
  <2>1. ASSUME NEW j \in 0 .. n - 2
        PROVE  /\ j < i => j \in 0 .. i - 1
               /\ ~(j < i) => j \in i .. i + (n - (i + 1)) - 1 /\ j - i + (i + 1) = j + 1
    BY ONLY <1>2, <1>3, j \in 0 .. n - 2
  <2>2. ASSUME NEW j \in 0 .. n - 2
        PROVE  /\ ks[j] = IF j < i THEN keys[a][j] ELSE keys[a][j + 1]
               /\ vs[j] = IF j < i THEN values[a][j] ELSE values[a][j + 1]
    BY <1>6, <2>1 DEF IsShiftedDown
  <2> QED
    BY <2>2 DEF IsLowered
<1>8. Lists(ks, vs, n - 1, Without(m, {k}))
  BY ONLY <1>2, <1>3, <1>4, <1>7, EraseListed
<1>9. Maps' = [Maps EXCEPT ![a] = Without(m, {k})]
  BY <1>3, <1>5, <1>6, <1>8, StoredMap DEF KeySlots, ValueSlots, len
<1>10. Maps' = [Maps EXCEPT ![a] = Abstract!Without(Maps[a], {k})]
  BY <1>4, <1>9, SameOperators
<1>11. /\ size'[a] = n - 1
       /\ i < n - 1 => keys'[a][i] = keys[a][i + 1]
  <2>1. ks \in KeySlots(Length[a]) /\ n - 1 \in 0 .. Length[a]
    BY <1>3, <1>6 DEF KeySlots, len
  <2>2. size'[a] = n - 1 /\ \A j \in 0 .. (n - 1) - 1 : keys'[a][j] = ks[j]
    BY <1>5, <2>1, StoredKey
  <2>3. i < n - 1 => i \in 0 .. (n - 1) - 1 /\ i \in 0 .. n - 2
    BY <1>2, <1>3
  <2> QED
    BY <1>3, <1>7, <2>2, <2>3 DEF IsLowered
<1>12. Abstract!Above(Abstract!Keys(a), k)
         = IF i < n - 1 THEN {keys[a][i + 1]} ELSE {}
  <2> DEFINE S == DOMAIN m
  <2>1. /\ \A j \in 0 .. n - 1 : keys[a][j] \in Nat
        /\ \A j, l \in 0 .. n - 1 : j < l => keys[a][j] < keys[a][l]
    BY <1>2, KeyAssumption DEF KeysOrdered
  <2>2. \A t : t \in S <=> \E j \in 0 .. n - 1 : t = keys[a][j]
    BY <1>4
  <2> HIDE DEF S
  <2>3. ASSUME NEW j \in 0 .. n - 1 PROVE keys[a][j] > k <=> j > i
    <3>1. (j < i => keys[a][j] < k) /\ (j > i => k < keys[a][j]) /\ keys[a][j] \in Nat /\ k \in Nat
      BY <1>3, <2>1
    <3> QED
      BY <1>3, <3>1
  <2>4. CASE i < n - 1
    <3>1. i + 1 \in 0 .. n - 1 /\ i + 1 > i
      BY <1>3, <2>4
    <3>2. \A j \in 0 .. n - 1 : j > i => keys[a][i + 1] =< keys[a][j]
      <4> TAKE j \in 0 .. n - 1
      <4>1. j > i => j = i + 1 \/ i + 1 < j
        BY <1>3
      <4> QED
        BY <2>1, <3>1, <4>1
    <3>3. ASSUME NEW t \in S, t > k, \A u \in S : u > k => t =< u PROVE t = keys[a][i + 1]
      <4>1. PICK j \in 0 .. n - 1 : t = keys[a][j]
        BY <2>2
      <4>2. keys[a][i + 1] \in S /\ keys[a][i + 1] > k /\ j > i
        BY <2>2, <2>3, <3>1, <3>3, <4>1
      <4>3. t =< keys[a][i + 1] /\ keys[a][i + 1] =< t /\ t \in Nat /\ keys[a][i + 1] \in Nat
        BY <2>1, <3>1, <3>2, <3>3, <4>1, <4>2
      <4> QED
        BY <4>3
    <3>4. /\ keys[a][i + 1] \in S /\ keys[a][i + 1] > k
          /\ \A u \in S : u > k => keys[a][i + 1] =< u
      BY <2>2, <2>3, <3>1, <3>2
    <3>5. Above(S, k) = {keys[a][i + 1]}
      BY <3>3, <3>4 DEF Above
    <3> QED
      BY <1>4, <2>4, <3>5, SameOperators DEF S
  <2>5. CASE ~(i < n - 1)
    <3>1. \A j \in 0 .. n - 1 : ~(j > i)
      BY <1>2, <1>3, <2>5
    <3>2. Above(S, k) = {}
      BY <2>2, <2>3, <3>1 DEF Above
    <3> QED
      BY <1>4, <2>5, <3>2, SameOperators DEF S
  <2> QED
    BY <2>4, <2>5
<1>13. Abstract!Return("erased", a, Abstract!Above(Abstract!Keys(a), k))
  BY <1>5, <1>11, <1>12, Returned
<1>14. k \in Abstract!Keys(a)
  BY <1>3, <1>4
<1> HIDE DEF k
<1> QED
  BY <1>10, <1>13, <1>14 DEF Abstract!Erase, Maps

LEMMA EraseAbsentMaps ==
  ASSUME IInv, NEW a \in Array, EraseAbsent(a) PROVE Abstract!EraseAbsent(a)
<1>1. PICK x \in Key : Find(a, x) = size[a]
  BY DEF EraseAbsent
<1>2. x \notin Abstract!Keys(a)
  BY <1>1, Found, AbstractMap
<1>3. Abstract!Refuse("absent", a)
  BY RefusedMaps DEF EraseAbsent
<1> QED
  BY <1>2, <1>3 DEF Abstract!EraseAbsent

\* No slots list the empty map.
LEMMA EmptyListed ==
  ASSUME NEW ks, NEW vs PROVE Lists(ks, vs, 0, Empty)
<1>1. {ks[i] : i \in 0 .. 0 - 1} = {} /\ \A i \in 0 .. 0 - 1 : FALSE
  OBVIOUS
<1>2. Empty = [x \in {} |-> Empty[x]]
  BY DEF Empty
<1> QED
  BY <1>1, <1>2 DEF Lists

LEMMA ClearMaps ==
  ASSUME IInv, IInv', NEW a \in Array, Clear(a) PROVE Abstract!Clear(a)
<1>1. Store(a, keys[a], values[a], 0) /\ Return("cleared", a, 0)
  BY DEF Clear
<1>2. /\ keys[a] \in KeySlots(Length[a]) /\ values[a] \in ValueSlots(Length[a])
      /\ 0 \in 0 .. Length[a]
  BY OneArray
<1>3. Maps' = [Maps EXCEPT ![a] = Empty]
  BY <1>1, <1>2, EmptyListed, StoredMap
<1>4. Abstract!Return("cleared", a, {})
  BY <1>1, Returned
<1>5. Abstract!Empty = Empty
  BY SameOperators
<1> QED
  BY <1>3, <1>4, <1>5 DEF Abstract!Clear, Maps

LEMMA UpdateKeyMaps ==
  ASSUME IInv, IInv', NEW a \in Array, UpdateKey(a) PROVE Abstract!UpdateKey(a)
<1>1. PICK i \in Used(a), x \in Key :
        /\ keys' = [keys EXCEPT ![a][i] = x]
        /\ UNCHANGED <<values, size>>
        /\ Return("updated", a, i)
  BY DEF UpdateKey
<1> DEFINE n  == size[a]
           m  == Contents(a)
           k  == keys[a][i]
           ls == [keys[a] EXCEPT ![i] = x]
<1>2. /\ Length[a] \in Nat /\ n \in Nat /\ n =< Length[a] /\ KeysOrdered(keys[a], n)
      /\ DOMAIN keys[a] = 0 .. Length[a] - 1 /\ DOMAIN keys = Array
  BY OneArray DEF KeySlots
<1>3. i \in 0 .. n - 1 /\ i \in Nat /\ i < n
  BY <1>2 DEF Used
<1>4. /\ Lists(keys[a], values[a], n, m) /\ Maps[a] = m
      /\ Abstract!Keys(a) = DOMAIN m /\ DOMAIN m = {keys[a][j] : j \in 0 .. n - 1}
  BY ContentsListed, AbstractMap
<1>5. /\ keys'[a] = ls /\ size' = size /\ values' = values
      /\ \A c \in Array \ {a} : keys'[c] = keys[c]
  BY <1>1, <1>2
<1>6. IsWritten(ls, keys[a], n, i, x)
  BY <1>2, <1>3 DEF IsWritten
<1>7. KeysOrdered(ls, n)
  <2>1. KeysOrdered(keys'[a], size'[a])
    BY DEF IInv, GoodKeys, KeysOrdered
  <2> QED
    BY <1>5, <2>1
<1> HIDE DEF n, m, ls
<1>8. Lists(ls, values[a], n, Insert(Without(m, {k}), x, m[k])) /\ KeepsOrder(DOMAIN m, k, x)
  BY ONLY <1>2, <1>3, <1>4, <1>6, <1>7, UpdateListed
<1>9. Lists(keys'[a], values'[a], size'[a], Insert(Without(m, {k}), x, m[k]))
  BY <1>5, <1>8 DEF n
<1>10. Maps' = [Maps EXCEPT ![a] = Insert(Without(m, {k}), x, m[k])]
  BY <1>5, <1>9, OneMap
<1>11. Maps' = [Maps EXCEPT ![a] = Abstract!Insert(Abstract!Without(Maps[a], {k}), x, Maps[a][k])]
  <2>1. Abstract!Without(m, {k}) = Without(m, {k})
    BY SameOperators
  <2>2. Abstract!Insert(Without(m, {k}), x, m[k]) = Insert(Without(m, {k}), x, m[k])
    BY SameOperators
  <2> QED
    BY <1>4, <1>10, <2>1, <2>2
<1>12. Abstract!KeepsOrder(Abstract!Keys(a), k, x) /\ k \in Abstract!Keys(a)
  BY <1>3, <1>4, <1>8, SameOperators
<1>13. Abstract!Return("updated", a, {x})
  <2>1. i < size'[a] /\ keys'[a][i] = x
    BY <1>2, <1>3, <1>5, <1>6 DEF IsWritten, n
  <2> QED
    BY <1>1, <2>1, Returned
<1> HIDE DEF k
<1> QED
  BY <1>11, <1>12, <1>13 DEF Abstract!UpdateKey, Maps

\* The elements of src with keys in S have gone to dst.
LEMMA Taken ==
  ASSUME IInv, NEW dst \in Array, NEW src \in Array, NEW S, NEW i, Return("moved", dst, i),
         Maps' = [Maps EXCEPT ![src] = Without(Contents(src), S),
                              ![dst] = Join(Contents(dst), Only(Contents(src), S))],
         dst # src
  PROVE  Abstract!Take(dst, src, S)
<1>1. Maps[src] = Contents(src) /\ Maps[dst] = Contents(dst)
  BY ContentsListed
<1>2. /\ Abstract!Without(Contents(src), S) = Without(Contents(src), S)
      /\ Abstract!Only(Contents(src), S) = Only(Contents(src), S)
  BY SameOperators
<1>3. Abstract!Join(Contents(dst), Only(Contents(src), S))
        = Join(Contents(dst), Only(Contents(src), S))
  BY SameOperators
<1>4. Abstract!Return("moved", dst, {})
  BY Returned
<1>5. DOMAIN Maps = Array
  BY DEF Maps
<1>6. Maps' = [Maps EXCEPT ![src] = Abstract!Without(Maps[src], S),
                           ![dst] = Abstract!Join(Maps[dst], Abstract!Only(Maps[src], S))]
  BY <1>1, <1>2, <1>3
<1>7. Maps' = [Maps EXCEPT ![src] = Abstract!Without(@, S),
                           ![dst] = Abstract!Join(@, Abstract!Only(Maps[src], S))]
  BY <1>5, <1>6
<1> QED
  BY <1>4, <1>7 DEF Abstract!Take, Maps

\* A split or a transfer of no element.
LEMMA NothingTaken ==
  ASSUME IInv, NEW dst \in Array, NEW src \in Array, dst # src, NEW i,
         Return("moved", dst, i), UNCHANGED Maps
  PROVE  Abstract!Take(dst, src, {})
<1> DEFINE m == Contents(src)
           o == Contents(dst)
<1>1. /\ m = [x \in DOMAIN m |-> m[x]] /\ o = [x \in DOMAIN o |-> o[x]]
      /\ Maps[src] = m /\ Maps[dst] = o /\ Maps = [c \in Array |-> Maps[c]]
  BY ContentsListed DEF Contents, Maps
<1> HIDE DEF m, o
<1>2. Without(m, {}) = m
  <2>1. DOMAIN m \ {} = DOMAIN m
    OBVIOUS
  <2> QED
    BY <1>1, <2>1 DEF Without, Restrict
<1>3. Join(o, Only(m, {})) = o
  <2>1. DOMAIN Only(m, {}) = {}
    BY DEF Only, Restrict
  <2>2. DOMAIN o \cup {} = DOMAIN o
    OBVIOUS
  <2>3. Join(o, Only(m, {})) = [y \in DOMAIN o |-> o[y]]
    BY <2>1, <2>2 DEF Join
  <2> QED
    BY <1>1, <2>3
<1>4. Maps' = [Maps EXCEPT ![src] = Without(m, {}), ![dst] = Join(o, Only(m, {}))]
  BY <1>1, <1>2, <1>3
<1> QED
  BY <1>4, Taken DEF m, o

\* Slots copied to the front of an array.
LEMMA OntoPart ==
  ASSUME NEW C, NEW len \in Nat, NEW g \in [0 .. len - 1 -> C \cup {Gone}], NEW f,
         NEW first \in Nat, NEW last \in Nat, first =< last, last - first =< len
  PROVE  IsPart(Onto(g, 0, f, first, last), f, first, last - first)
<1>1. DOMAIN g = 0 .. len - 1
  OBVIOUS
<1>2. ASSUME NEW j \in 0 .. (last - first) - 1
      PROVE  j \in 0 .. len - 1 /\ j \in 0 .. 0 + (last - first) - 1 /\ first + j - 0 = first + j
  OBVIOUS
<1> QED
  BY <1>1, <1>2 DEF Onto, IsPart

LEMMA SplitMaps ==
  ASSUME IInv, IInv', NEW a \in Array, NEW b \in Array, a # b, Split(a, b)
  PROVE  Abstract!Split(a, b)
<1>1. PICK i \in 0 .. size[a] :
        LET n == size[a] - i
        IN  IF size[b] = 0 /\ n =< Length[b]
            THEN Exchange(b, Onto(keys[b], 0, keys[a], i, size[a]),
                             Onto(values[b], 0, values[a], i, size[a]), n,
                          a, keys[a], values[a], i)
            ELSE Keep /\ Return("refused", b, size[b])
  BY DEF Split
<1> DEFINE na == size[a]
           n  == na - i
           m  == Contents(a)
           kd == Onto(keys[b], 0, keys[a], i, na)
           vd == Onto(values[b], 0, values[a], i, na)
           S  == HighestN(DOMAIN m, n)
<1>2. /\ Length[a] \in Nat /\ na \in Nat /\ na =< Length[a]
      /\ keys[a] \in KeySlots(Length[a]) /\ KeysOrdered(keys[a], na)
      /\ values[a] \in ValueSlots(Length[a])
  BY OneArray
<1>3. /\ Length[b] \in Nat /\ size[b] \in Nat
      /\ keys[b] \in KeySlots(Length[b]) /\ values[b] \in ValueSlots(Length[b])
  BY OneArray
<1>4. /\ Lists(keys[a], values[a], na, m) /\ Maps[a] = m
      /\ DOMAIN m = {keys[a][j] : j \in 0 .. na - 1}
      /\ Abstract!Keys(a) = DOMAIN m /\ Abstract!Keys(b) = DOMAIN Contents(b)
      /\ Size(m) = na /\ Size(Contents(b)) = size[b]
      /\ DOMAIN Contents(b) = {keys[b][j] : j \in 0 .. size[b] - 1}
  BY ContentsListed, AbstractMap
<1>5. /\ n \in Nat /\ i \in Nat /\ i + n = na /\ na - n = i /\ i =< na /\ n \in 0 .. na
      /\ na - i = n /\ i \in 0 .. Length[a]
  BY <1>2
<1>6. Abstract!Keys(b) = {} <=> size[b] = 0
  <2>1. CASE size[b] = 0
    <3>1. {keys[b][j] : j \in 0 .. 0 - 1} = {}
      OBVIOUS
    <3>2. DOMAIN Contents(b) = {}
      BY ONLY <1>4, <2>1, <3>1
    <3> QED
      BY ONLY <1>4, <2>1, <3>2
  <2>2. CASE size[b] # 0
    <3>1. 0 \in 0 .. size[b] - 1
      BY ONLY <1>3, <2>2
    <3>2. keys[b][0] \in DOMAIN Contents(b)
      BY ONLY <1>4, <3>1
    <3> QED
      BY ONLY <1>4, <2>2, <3>2
  <2> QED
    BY <2>1, <2>2
<1>7. n \in 0 .. Abstract!Size(Maps[a]) /\ Abstract!HighestN(Abstract!Keys(a), n) = S
  <2>1. Abstract!Size(m) = Size(m)
    BY SameOperators
  <2>2. Abstract!HighestN(DOMAIN m, n) = HighestN(DOMAIN m, n)
    BY SameOperators
  <2> QED
    BY <1>4, <1>5, <2>1, <2>2
<1>8. CASE ~(size[b] = 0 /\ n =< Length[b])
  <2>1. Abstract!Refuse("refused", b)
    BY <1>1, <1>8, RefusedMaps
  <2>2. Abstract!Keys(b) = {} => n > Length[b]
    BY <1>3, <1>5, <1>6, <1>8
  <2> HIDE DEF n
  <2> QED
    BY <1>7, <2>1, <2>2 DEF Abstract!Split, Maps
<1>9. CASE size[b] = 0 /\ n =< Length[b]
  <2>1. Exchange(b, kd, vd, n, a, keys[a], values[a], i) /\ n \in 0 .. Length[b]
    BY <1>1, <1>5, <1>9
  <2> HIDE DEF na, n, m, S
  <2>2. /\ kd \in KeySlots(Length[b]) /\ vd \in ValueSlots(Length[b])
        /\ IsPart(kd, keys[a], i, n) /\ IsPart(vd, values[a], i, n)
    <3>1. /\ keys[b] \in [0 .. Length[b] - 1 -> Key \cup {Gone}]
          /\ values[b] \in [0 .. Length[b] - 1 -> Value \cup {Gone}]
          /\ keys[a] \in [0 .. Length[a] - 1 -> Key \cup {Gone}]
          /\ values[a] \in [0 .. Length[a] - 1 -> Value \cup {Gone}]
      BY <1>2, <1>3 DEF KeySlots, ValueSlots
    <3>2. kd \in [0 .. Length[b] - 1 -> Key \cup {Gone}]
      BY ONLY <1>2, <1>3, <1>5, <3>1, 0 \in Nat, OntoType
    <3>3. vd \in [0 .. Length[b] - 1 -> Value \cup {Gone}]
      BY ONLY <1>2, <1>3, <1>5, <3>1, 0 \in Nat, OntoType
    <3>4. na - i =< Length[b]
      BY <1>5, <1>9
    <3>5. IsPart(kd, keys[a], i, na - i)
      BY ONLY <1>2, <1>3, <1>5, <3>1, <3>4, OntoPart
    <3>6. IsPart(vd, values[a], i, na - i)
      BY ONLY <1>2, <1>3, <1>5, <3>1, <3>4, OntoPart
    <3> QED
      BY <1>5, <3>2, <3>3, <3>5, <3>6 DEF KeySlots, ValueSlots
  <2> HIDE DEF kd, vd
  <2>3. S = KeysIn(keys[a], i, i + n) /\ DOMAIN m \ S = KeysIn(keys[a], 0, 0 + i)
    <3>1. DOMAIN m = KeysIn(keys[a], 0, na)
      BY <1>4 DEF KeysIn
    <3>2. /\ HighestN(DOMAIN m, n) = KeysIn(keys[a], na - n, na)
          /\ DOMAIN m \ HighestN(DOMAIN m, n) = KeysIn(keys[a], 0, na - n)
      BY ONLY <1>2, <1>5, <3>1, LowestAre
    <3>3. 0 + i = i
      BY <1>5
    <3> QED
      BY <1>5, <3>2, <3>3 DEF S
  <2>4. Lists(kd, vd, n, Only(m, S))
    <3>1. i + n =< na
      BY <1>5
    <3> QED
      BY ONLY <1>2, <1>4, <1>5, <2>2, <2>3, <3>1, RangeListed
  <2>5. Lists(keys[a], values[a], i, Without(m, S))
    <3>1. 0 + i =< na /\ 0 \in Nat /\ IsPart(keys[a], keys[a], 0, i)
          /\ IsPart(values[a], values[a], 0, i)
      BY <1>5 DEF IsPart
    <3>2. Lists(keys[a], values[a], i, Only(m, DOMAIN m \ S))
      BY ONLY <1>2, <1>4, <1>5, <2>3, <3>1, RangeListed
    <3> QED
      BY <3>2, WithoutIs
  <2>6. Join(Contents(b), Only(m, S)) = Only(m, S)
    <3>1. DOMAIN Contents(b) = {}
      BY <1>4, <1>6, <1>9
    <3>2. Only(m, S) = [x \in DOMAIN Only(m, S) |-> Only(m, S)[x]]
      BY DEF Only, Restrict
    <3>3. \A x \in DOMAIN Contents(b) \cup DOMAIN Only(m, S) : x \notin DOMAIN Contents(b)
      BY <3>1
    <3>4. DOMAIN Contents(b) \cup DOMAIN Only(m, S) = DOMAIN Only(m, S)
      BY <3>1
    <3> QED
      BY <3>2, <3>3, <3>4 DEF Join
  <2>7. Maps' = [Maps EXCEPT ![a] = Without(m, S), ![b] = Only(m, S)]
    <3>1. /\ Holds(kd, vd, n, Length[b], Only(m, S))
          /\ Holds(keys[a], values[a], i, Length[a], Without(m, S))
      BY <1>2, <1>5, <2>1, <2>2, <2>4, <2>5 DEF Holds
    <3>2. Maps' = Replaced(Maps, a, Without(m, S), b, Only(m, S))
      BY <2>1, <3>1, ExchangedMaps
    <3> QED
      BY <3>2 DEF Replaced
  <2>8. Abstract!Take(b, a, S)
    <3>1. Return("moved", b, n)
      BY <2>1 DEF Exchange
    <3> QED
      BY <2>6, <2>7, <3>1, Taken DEF m
  <2> QED
    BY <1>6, <1>7, <1>9, <2>8 DEF Abstract!Split, Maps
<1> QED
  BY <1>8, <1>9

\* Slots appended by Onto, and slots put in front of others that have been shifted.
LEMMA OntoBehind ==
  ASSUME NEW C, NEW len \in Nat, NEW g \in [0 .. len - 1 -> C \cup {Gone}], NEW f,
         NEW d \in Nat, NEW n \in Nat, d + n =< len
  PROVE  IsAppended(Onto(g, d, f, 0, n), g, d, f, n)
<1>1. DOMAIN g = 0 .. len - 1
  OBVIOUS
<1>2. ASSUME NEW j \in 0 .. d - 1 PROVE j \in 0 .. len - 1 /\ j \notin d .. d + (n - 0) - 1
  OBVIOUS
<1>3. ASSUME NEW j \in d .. d + n - 1
      PROVE  j \in 0 .. len - 1 /\ j \in d .. d + (n - 0) - 1 /\ 0 + j - d = j - d
  OBVIOUS
<1> QED
  BY <1>1, <1>2, <1>3 DEF Onto, IsAppended

LEMMA OntoBefore ==
  ASSUME NEW C, NEW len \in Nat, NEW up \in [0 .. len - 1 -> C \cup {Gone}],
         NEW f, NEW start \in Nat, NEW n \in Nat, NEW last, last = start + n,
         NEW k \in Nat, k + n =< len, NEW g, IsShiftedUp(up, g, 0, k, k + n),
         NEW ls, IsPart(ls, f, start, n)
  PROVE  IsAppended(Onto(up, 0, f, start, last), ls, n, g, k)
<1> DEFINE kd == Onto(up, 0, f, start, last)
<1>1. DOMAIN up = 0 .. len - 1
  OBVIOUS
<1>2. ASSUME NEW j \in 0 .. n - 1 PROVE kd[j] = ls[j]
  <2>1. j \in 0 .. len - 1 /\ j \in 0 .. 0 + (last - start) - 1 /\ start + j - 0 = start + j
    OBVIOUS
  <2>2. kd[j] = f[start + j]
    BY <1>1, <2>1 DEF Onto
  <2>3. ls[j] = f[start + j]
    BY DEF IsPart
  <2> QED
    BY <2>2, <2>3
<1>3. ASSUME NEW j \in n .. n + k - 1 PROVE kd[j] = g[j - n]
  <2>1. /\ j \in 0 .. len - 1 /\ j \notin 0 .. 0 + (last - start) - 1
        /\ j \in (k + n) - (k - 0) .. (k + n) - 1 /\ j - (k + n) + k = j - n
    OBVIOUS
  <2>2. kd[j] = up[j]
    BY <1>1, <2>1 DEF Onto
  <2>3. up[j] = g[j - n]
    BY <2>1 DEF IsShiftedUp
  <2> QED
    BY <2>2, <2>3
<1> HIDE DEF kd
<1>4. IsAppended(kd, ls, n, g, k)
  BY <1>2, <1>3 DEF IsAppended
<1> QED
  BY <1>4 DEF kd

\* What the destination holds afterwards is in order.
LEMMA ExchangedOrdered ==
  ASSUME IInv, IInv', NEW dst \in Array, NEW src \in Array, dst # src,
         NEW kd \in KeySlots(Length[dst]), NEW vd, NEW nd \in 0 .. Length[dst],
         NEW ks, NEW vs, NEW ns, Exchange(dst, kd, vd, nd, src, ks, vs, ns)
  PROVE  KeysOrdered(kd, nd)
<1>1. Length[dst] \in Nat /\ DOMAIN keys = Array /\ DOMAIN size = Array
  BY OneArray
<1>2. keys'[dst] = Cropped(kd, nd) /\ size'[dst] = nd
  BY <1>1 DEF Exchange
<1>3. KeysOrdered(keys'[dst], size'[dst])
  BY DEF IInv, GoodKeys, KeysOrdered
<1>4. \A i \in 0 .. nd - 1 : Cropped(kd, nd)[i] = kd[i]
  BY <1>1 DEF Cropped, KeySlots
<1> QED
  BY <1>2, <1>3, <1>4 DEF KeysOrdered

\* Both transfers: the elements with keys in T have gone from b to a, and T is what
\* DenseMaps lets a transfer take.
LEMMA TransferTaken ==
  ASSUME IInv, IInv', NEW a \in Array, NEW b \in Array, a # b, NEW n, NEW T, NEW kd, NEW vd,
         Holds(kd, vd, size[a] + n, Length[a], Join(Contents(a), Only(Contents(b), T))),
         NEW ks, NEW vs, Holds(ks, vs, size[b] - n, Length[b], Without(Contents(b), T)),
         Exchange(a, kd, vd, size[a] + n, b, ks, vs, size[b] - n)
  PROVE  Abstract!Take(a, b, T)
<1> DEFINE m == Join(Contents(a), Only(Contents(b), T))
           o == Without(Contents(b), T)
<1>1. Return("moved", a, size[a] + n)
  BY DEF Exchange
<1> HIDE DEF m, o
<1>2. Maps' = Replaced(Maps, b, o, a, m)
  BY ExchangedMaps DEF m, o
<1>3. Maps' = [Maps EXCEPT ![b] = o, ![a] = m]
  BY <1>2 DEF Replaced
<1> QED
  BY <1>1, <1>3, Taken DEF m, o

LEMMA TransferMaps ==
  ASSUME IInv, NEW a \in Array, NEW b \in Array, NEW n \in 0 .. size[b], NEW T,
         Abstract!Take(a, b, T),
         \/ /\ T = LowestN(DOMAIN Contents(b), n)
            /\ MayJoin(DOMAIN Contents(a), T, Length[a])
         \/ /\ T = HighestN(DOMAIN Contents(b), n)
            /\ MayJoin(T, DOMAIN Contents(a), Length[a])
  PROVE  Abstract!Transfer(a, b)
<1> DEFINE m == Contents(b)
<1>1. /\ Abstract!Keys(a) = DOMAIN Contents(a) /\ Abstract!Keys(b) = DOMAIN m
      /\ Maps[b] = m /\ Size(m) = size[b]
  BY AbstractMap, ContentsListed
<1>2. Abstract!Size(m) = Size(m)
  BY SameOperators
<1>3. Abstract!LowestN(DOMAIN m, n) = LowestN(DOMAIN m, n)
  BY SameOperators
<1>4. Abstract!HighestN(DOMAIN m, n) = HighestN(DOMAIN m, n)
  BY SameOperators
<1>5. /\ Abstract!MayJoin(DOMAIN Contents(a), T, Length[a])
           <=> MayJoin(DOMAIN Contents(a), T, Length[a])
      /\ Abstract!MayJoin(T, DOMAIN Contents(a), Length[a])
           <=> MayJoin(T, DOMAIN Contents(a), Length[a])
  BY SameOperators
<1> HIDE DEF m
<1>6. n \in 0 .. Abstract!Size(Maps[b])
  BY <1>1, <1>2
<1>7. CASE T = LowestN(DOMAIN m, n) /\ MayJoin(DOMAIN Contents(a), T, Length[a])
  <2>1. /\ Abstract!Take(a, b, Abstract!LowestN(Abstract!Keys(b), n))
        /\ Abstract!MayJoin(Abstract!Keys(a), Abstract!LowestN(Abstract!Keys(b), n), Length[a])
    BY <1>1, <1>3, <1>5, <1>7
  <2> QED
    BY <1>6, <2>1 DEF Abstract!Transfer, Maps
<1>8. CASE T = HighestN(DOMAIN m, n) /\ MayJoin(T, DOMAIN Contents(a), Length[a])
  <2>1. /\ Abstract!Take(a, b, Abstract!HighestN(Abstract!Keys(b), n))
        /\ Abstract!MayJoin(Abstract!HighestN(Abstract!Keys(b), n), Abstract!Keys(a), Length[a])
    BY <1>1, <1>4, <1>5, <1>8
  <2> QED
    BY <1>6, <2>1 DEF Abstract!Transfer, Maps
<1> QED
  BY <1>7, <1>8 DEF m

LEMMA NoneTransferred ==
  ASSUME IInv, NEW a \in Array, NEW b \in Array, a # b,
         Keep, Return("moved", a, size[a]) \/ Return("refused", a, size[a])
  PROVE  Abstract!Transfer(a, b)
<1>1. CASE Return("moved", a, size[a])
  <2>1. UNCHANGED Maps
    BY KeptMaps
  <2>2. Abstract!Take(a, b, {})
    BY <1>1, <2>1, NothingTaken
  <2>3. /\ size[a] \in Nat /\ size[a] =< Length[a] /\ Length[a] \in Nat
        /\ size[b] \in Nat /\ KeysOrdered(keys[b], size[b])
    BY OneArray
  <2>4. LowestN(DOMAIN Contents(b), 0) = {}
    <3>1. DOMAIN Contents(b) = KeysIn(keys[b], 0, size[b])
      BY ContentsListed DEF KeysIn
    <3>2. 0 \in 0 .. size[b]
      BY <2>3
    <3>3. LowestN(DOMAIN Contents(b), 0) = KeysIn(keys[b], 0, 0)
      BY <2>3, <3>1, <3>2, LowestAre
    <3> QED
      BY <3>3 DEF KeysIn
  <2>5. MayJoin(DOMAIN Contents(a), {}, Length[a])
    <3>1. Cardinality(DOMAIN Contents(a)) = size[a]
      BY ContentsListed DEF Size
    <3>2. Cardinality({}) = 0
      BY FS_EmptySet
    <3>3. size[a] + 0 =< Length[a]
      BY <2>3
    <3> QED
      BY <3>1, <3>2, <3>3 DEF MayJoin
  <2>6. 0 \in 0 .. size[b]
    BY <2>3
  <2> QED
    BY <2>2, <2>4, <2>5, <2>6, TransferMaps
<1>2. CASE Return("refused", a, size[a])
  <2>1. Abstract!Refuse("refused", a)
    BY <1>2, RefusedMaps
  <2> QED
    BY <2>1 DEF Abstract!Transfer
<1> QED
  BY <1>1, <1>2

LEMMA TransferPrefixMaps ==
  ASSUME IInv, IInv', NEW a \in Array, NEW b \in Array, a # b, TransferPrefix(a, b)
  PROVE  Abstract!Transfer(a, b)
<1>1. PICK n \in 0 .. size[b] + 1 :
        \/ ~MayTransfer(a, b, n) /\ Keep /\ Return("refused", a, size[a])
        \/ n = 0 /\ Keep /\ Return("moved", a, size[a])
        \/ /\ n > 0 /\ MayTransfer(a, b, n)
           /\ size[a] > 0 => keys[a][size[a] - 1] < keys[b][0]
           /\ Exchange(a, Onto(keys[a], size[a], keys[b], 0, n),
                          Onto(values[a], size[a], values[b], 0, n), size[a] + n,
                       b, MoveForward(keys[b], n, size[b], 0),
                          MoveForward(values[b], n, size[b], 0), size[b] - n)
  BY DEF TransferPrefix
<1> DEFINE na == size[a]
           nb == size[b]
           la == Length[a]
           lb == Length[b]
           m  == Contents(b)
           o  == Contents(a)
           T  == LowestN(DOMAIN m, n)
           kd == Onto(keys[a], na, keys[b], 0, n)
           vd == Onto(values[a], na, values[b], 0, n)
           ks == MoveForward(keys[b], n, nb, 0)
           vs == MoveForward(values[b], n, nb, 0)
<1>2. CASE Keep /\ (Return("refused", a, na) \/ Return("moved", a, na))
  BY <1>2, NoneTransferred
<1>3. CASE n > 0 /\ MayTransfer(a, b, n) /\ Exchange(a, kd, vd, na + n, b, ks, vs, nb - n)
  <2>1. /\ la \in Nat /\ na \in Nat /\ na =< la
        /\ keys[a] \in [0 .. la - 1 -> Key \cup {Gone}]
        /\ values[a] \in [0 .. la - 1 -> Value \cup {Gone}]
    BY OneArray DEF KeySlots, ValueSlots
  <2>2. /\ lb \in Nat /\ nb \in Nat /\ nb =< lb /\ KeysOrdered(keys[b], nb)
        /\ keys[b] \in [0 .. lb - 1 -> Key \cup {Gone}]
        /\ values[b] \in [0 .. lb - 1 -> Value \cup {Gone}]
    BY OneArray DEF KeySlots, ValueSlots
  <2>3. n \in Nat /\ 0 < n /\ n =< nb /\ na + n =< la
    BY <1>3, <2>2 DEF MayTransfer
  <2>4. /\ Lists(keys[a], values[a], na, o) /\ Lists(keys[b], values[b], nb, m)
        /\ DOMAIN m = KeysIn(keys[b], 0, nb) /\ Cardinality(DOMAIN o) = na
    BY ContentsListed DEF KeysIn, Size
  <2> HIDE DEF na, nb, la, lb, m, o
  <2>5. /\ na + n \in 0 .. la /\ na + n \in Nat /\ nb - n \in Nat /\ nb - n \in 0 .. lb
        /\ n \in 0 .. nb /\ n =< lb /\ 0 + n =< nb /\ n + (nb - n) =< nb /\ 0 \in Nat
        /\ n + (nb - n) = nb /\ 0 + n = n
    BY ONLY <2>1, <2>2, <2>3
  <2>6. /\ kd \in [0 .. la - 1 -> Key \cup {Gone}] /\ IsAppended(kd, keys[a], na, keys[b], n)
        /\ vd \in [0 .. la - 1 -> Value \cup {Gone}] /\ IsAppended(vd, values[a], na, values[b], n)
    <3>1. kd \in [0 .. la - 1 -> Key \cup {Gone}]
      BY ONLY <2>1, <2>2, <2>3, <2>5, OntoType
    <3>2. vd \in [0 .. la - 1 -> Value \cup {Gone}]
      BY ONLY <2>1, <2>2, <2>3, <2>5, OntoType
    <3>3. IsAppended(kd, keys[a], na, keys[b], n)
      BY ONLY <2>1, <2>3, OntoBehind
    <3>4. IsAppended(vd, values[a], na, values[b], n)
      BY ONLY <2>1, <2>3, OntoBehind
    <3> QED
      BY <3>1, <3>2, <3>3, <3>4
  <2>7. /\ ks \in [0 .. lb - 1 -> Key \cup {Gone}] /\ IsPart(ks, keys[b], n, nb - n)
        /\ vs \in [0 .. lb - 1 -> Value \cup {Gone}] /\ IsPart(vs, values[b], n, nb - n)
    <3>1. ks \in [0 .. lb - 1 -> Key \cup {Gone}] /\ IsShiftedDown(ks, keys[b], n, nb, 0)
      BY ONLY <2>2, <2>3, <2>5, ShiftedDown
    <3>2. vs \in [0 .. lb - 1 -> Value \cup {Gone}] /\ IsShiftedDown(vs, values[b], n, nb, 0)
      BY ONLY <2>2, <2>3, <2>5, ShiftedDown
    <3> HIDE DEF ks, vs
    <3>3. ASSUME NEW j \in 0 .. (nb - n) - 1 PROVE j \in 0 .. 0 + (nb - n) - 1 /\ j - 0 + n = n + j
      BY ONLY <2>2, <2>3, j \in 0 .. (nb - n) - 1
    <3>4. ASSUME NEW j \in 0 .. (nb - n) - 1 PROVE ks[j] = keys[b][n + j] /\ vs[j] = values[b][n + j]
      BY <3>1, <3>2, <3>3 DEF IsShiftedDown
    <3> QED
      BY <3>1, <3>2, <3>4 DEF IsPart
  <2> HIDE DEF kd, vd, ks, vs
  <2>8. T = KeysIn(keys[b], 0, n) /\ DOMAIN m \ T = KeysIn(keys[b], n, nb)
    BY ONLY <2>2, <2>4, <2>5, LowestAre DEF T
  <2> HIDE DEF T
  <2>9. Lists(keys[b], values[b], n, Only(m, T))
    <3>1. IsPart(keys[b], keys[b], 0, n) /\ IsPart(values[b], values[b], 0, n)
      BY <2>3 DEF IsPart
    <3>2. T = KeysIn(keys[b], 0, 0 + n)
      BY <2>5, <2>8
    <3> QED
      BY ONLY <2>2, <2>3, <2>4, <2>5, <3>1, <3>2, RangeListed
  <2>10. Lists(ks, vs, nb - n, Without(m, T))
    <3>1. DOMAIN m \ T = KeysIn(keys[b], n, n + (nb - n))
      BY <2>5, <2>8
    <3>2. Lists(ks, vs, nb - n, Only(m, DOMAIN m \ T))
      BY ONLY <2>2, <2>3, <2>4, <2>5, <2>7, <3>1, RangeListed
    <3> QED
      BY <3>2, WithoutIs
  <2>11. /\ Lists(kd, vd, na + n, Join(o, Only(m, T)))
         /\ \A s \in DOMAIN o, t \in DOMAIN Only(m, T) : s < t
    <3>1. KeysOrdered(kd, na + n)
      BY <1>3, <2>5, <2>6, ExchangedOrdered DEF KeySlots, la
    <3> QED
      BY ONLY <2>1, <2>3, <2>4, <2>6, <2>9, <3>1, JoinListed
  <2>12. Abstract!Take(a, b, T)
    <3>1. /\ Holds(kd, vd, na + n, la, Join(o, Only(m, T)))
          /\ Holds(ks, vs, nb - n, lb, Without(m, T))
      BY <2>5, <2>6, <2>7, <2>10, <2>11 DEF Holds, KeySlots, ValueSlots
    <3> QED
      BY <1>3, <3>1, TransferTaken DEF na, nb, la, lb, m, o
  <2>13. MayJoin(DOMAIN o, T, la)
    <3>1. T \subseteq DOMAIN m /\ DOMAIN Only(m, T) = T
      <4>1. T \subseteq DOMAIN m
        BY DEF T, LowestN
      <4>2. DOMAIN m \cap T = T
        BY <4>1
      <4> QED
        BY <4>1, <4>2 DEF Only, Restrict
    <3>2. Cardinality(T) = n
      <4>1. KeysOrdered(keys[b], n)
        BY <2>2, <2>3 DEF KeysOrdered
      <4>2. T = {keys[b][i] : i \in 0 .. n - 1}
        BY <2>8 DEF KeysIn
      <4> QED
        BY <2>3, <4>1, <4>2, KeysCounted
    <3> QED
      BY <2>3, <2>4, <2>11, <3>1, <3>2 DEF MayJoin
  <2> QED
    BY <2>5, <2>12, <2>13, TransferMaps DEF T, nb, la, m, o
<1> QED
  BY <1>1, <1>2, <1>3

LEMMA TransferSuffixMaps ==
  ASSUME IInv, IInv', NEW a \in Array, NEW b \in Array, a # b, TransferSuffix(a, b)
  PROVE  Abstract!Transfer(a, b)
<1>1. PICK n \in 0 .. size[b] + 1 :
        \/ ~MayTransfer(a, b, n) /\ Keep /\ Return("refused", a, size[a])
        \/ n = 0 /\ Keep /\ Return("moved", a, size[a])
        \/ /\ n > 0 /\ MayTransfer(a, b, n)
           /\ size[a] > 0 => keys[b][size[b] - 1] < keys[a][0]
           /\ LET start == size[b] - n
              IN  Exchange(a, Onto(MoveBackward(keys[a], 0, size[a], size[a] + n), 0,
                                   keys[b], start, size[b]),
                              Onto(MoveBackward(values[a], 0, size[a], size[a] + n), 0,
                                   values[b], start, size[b]), size[a] + n,
                           b, keys[b], values[b], start)
  BY DEF TransferSuffix
<1> DEFINE na == size[a]
           nb == size[b]
           la == Length[a]
           lb == Length[b]
           c  == nb - n
           m  == Contents(b)
           o  == Contents(a)
           T  == HighestN(DOMAIN m, n)
           km == MoveBackward(keys[a], 0, na, na + n)
           vm == MoveBackward(values[a], 0, na, na + n)
           kd == Onto(km, 0, keys[b], c, nb)
           vd == Onto(vm, 0, values[b], c, nb)
           ls == [j \in 0 .. n - 1 |-> keys[b][c + j]]
           ws == [j \in 0 .. n - 1 |-> values[b][c + j]]
<1>2. CASE Keep /\ (Return("refused", a, na) \/ Return("moved", a, na))
  BY <1>2, NoneTransferred
<1>3. CASE n > 0 /\ MayTransfer(a, b, n) /\ Exchange(a, kd, vd, na + n, b, keys[b], values[b], c)
  <2>1. /\ la \in Nat /\ na \in Nat /\ na =< la
        /\ keys[a] \in [0 .. la - 1 -> Key \cup {Gone}]
        /\ values[a] \in [0 .. la - 1 -> Value \cup {Gone}]
    BY OneArray DEF KeySlots, ValueSlots
  <2>2. /\ lb \in Nat /\ nb \in Nat /\ nb =< lb /\ KeysOrdered(keys[b], nb)
        /\ keys[b] \in [0 .. lb - 1 -> Key \cup {Gone}]
        /\ values[b] \in [0 .. lb - 1 -> Value \cup {Gone}]
    BY OneArray DEF KeySlots, ValueSlots
  <2>3. n \in Nat /\ 0 < n /\ n =< nb /\ na + n =< la
    BY <1>3, <2>2 DEF MayTransfer
  <2>4. /\ Lists(keys[a], values[a], na, o) /\ Lists(keys[b], values[b], nb, m)
        /\ DOMAIN m = KeysIn(keys[b], 0, nb) /\ Cardinality(DOMAIN o) = na
    BY ContentsListed DEF KeysIn, Size
  <2>5. IsPart(ls, keys[b], c, n) /\ IsPart(ws, values[b], c, n)
    BY DEF IsPart
  <2>6. c = nb - n
    OBVIOUS
  <2> HIDE DEF na, nb, la, lb, m, o, c, ls, ws
  <2>7. /\ na + n \in 0 .. la /\ na + n \in Nat /\ c \in Nat /\ c \in 0 .. lb /\ c =< nb
        /\ n \in 0 .. nb /\ c + n = nb /\ c + n =< nb /\ nb = c + n /\ 0 + c =< nb /\ 0 \in Nat
        /\ 0 =< na /\ na < na + n /\ 0 + c = c /\ na + n = n + na
    BY ONLY <2>1, <2>2, <2>3, <2>6
  <2>8. /\ km \in [0 .. la - 1 -> Key \cup {Gone}] /\ IsShiftedUp(km, keys[a], 0, na, na + n)
        /\ vm \in [0 .. la - 1 -> Value \cup {Gone}] /\ IsShiftedUp(vm, values[a], 0, na, na + n)
    <3>1. km \in [0 .. la - 1 -> Key \cup {Gone}] /\ IsShiftedUp(km, keys[a], 0, na, na + n)
      BY ONLY <2>1, <2>3, <2>7, ShiftedUp
    <3>2. vm \in [0 .. la - 1 -> Value \cup {Gone}] /\ IsShiftedUp(vm, values[a], 0, na, na + n)
      BY ONLY <2>1, <2>3, <2>7, ShiftedUp
    <3> QED
      BY <3>1, <3>2
  <2> HIDE DEF km, vm
  <2>9. /\ kd \in [0 .. la - 1 -> Key \cup {Gone}] /\ IsAppended(kd, ls, n, keys[a], na)
        /\ vd \in [0 .. la - 1 -> Value \cup {Gone}] /\ IsAppended(vd, ws, n, values[a], na)
    <3>1. kd \in [0 .. la - 1 -> Key \cup {Gone}]
      BY ONLY <2>1, <2>2, <2>7, <2>8, OntoType
    <3>2. vd \in [0 .. la - 1 -> Value \cup {Gone}]
      BY ONLY <2>1, <2>2, <2>7, <2>8, OntoType
    <3>3. IsAppended(kd, ls, n, keys[a], na)
      BY ONLY <2>1, <2>3, <2>5, <2>7, <2>8, OntoBefore
    <3>4. IsAppended(vd, ws, n, values[a], na)
      BY ONLY <2>1, <2>3, <2>5, <2>7, <2>8, OntoBefore
    <3> QED
      BY <3>1, <3>2, <3>3, <3>4
  <2> HIDE DEF kd, vd
  <2>10. T = KeysIn(keys[b], c, nb) /\ DOMAIN m \ T = KeysIn(keys[b], 0, c)
    BY ONLY <2>2, <2>4, <2>6, <2>7, LowestAre DEF T
  <2> HIDE DEF T
  <2>11. Lists(ls, ws, n, Only(m, T))
    <3>1. T = KeysIn(keys[b], c, c + n)
      BY <2>7, <2>10
    <3> QED
      BY ONLY <2>2, <2>3, <2>4, <2>5, <2>7, <3>1, RangeListed
  <2>12. Lists(keys[b], values[b], c, Without(m, T))
    <3>1. DOMAIN m \ T = KeysIn(keys[b], 0, 0 + c)
      BY <2>7, <2>10
    <3>2. IsPart(keys[b], keys[b], 0, c) /\ IsPart(values[b], values[b], 0, c)
      BY <2>7 DEF IsPart
    <3>3. Lists(keys[b], values[b], c, Only(m, DOMAIN m \ T))
      BY ONLY <2>2, <2>4, <2>7, <3>1, <3>2, RangeListed
    <3> QED
      BY <3>3, WithoutIs
  <2>13. KeysOrdered(kd, n + na)
    <3>1. KeysOrdered(kd, na + n)
      BY <1>3, <2>7, <2>9, ExchangedOrdered DEF KeySlots, la
    <3> QED
      BY <2>7, <3>1
  <2>14. /\ Lists(kd, vd, n + na, Join(o, Only(m, T)))
         /\ \A s \in DOMAIN Only(m, T), t \in DOMAIN o : s < t
    <3> DEFINE p == Only(m, T)
    <3>1. Lists(ls, ws, n, p)
      BY <2>11
    <3> HIDE DEF p
    <3>2. /\ na \in Nat /\ n \in Nat /\ Lists(keys[a], values[a], na, o)
          /\ IsAppended(kd, ls, n, keys[a], na) /\ IsAppended(vd, ws, n, values[a], na)
      BY <2>1, <2>3, <2>4, <2>9
    <3>3. Lists(kd, vd, n + na, Join(o, p))
      BY ONLY <2>13, <3>1, <3>2, JoinListed
    <3>4. \A s \in DOMAIN p, t \in DOMAIN o : s < t
      BY ONLY <2>13, <3>1, <3>2, JoinListed
    <3> QED
      BY <3>3, <3>4 DEF p
  <2>15. Abstract!Take(a, b, T)
    <3>1. Lists(kd, vd, na + n, Join(o, Only(m, T)))
      BY <2>7, <2>14
    <3>2. /\ Holds(kd, vd, na + n, la, Join(o, Only(m, T)))
          /\ Holds(keys[b], values[b], nb - n, lb, Without(m, T))
      BY <2>2, <2>6, <2>7, <2>9, <2>12, <3>1 DEF Holds, KeySlots, ValueSlots
    <3>3. Exchange(a, kd, vd, na + n, b, keys[b], values[b], nb - n)
      BY <1>3, <2>6
    <3> QED
      BY <3>2, <3>3, TransferTaken DEF na, nb, la, lb, m, o
  <2>16. MayJoin(T, DOMAIN o, la)
    <3>1. DOMAIN Only(m, T) = T
      <4>1. T \subseteq DOMAIN m
        BY DEF T, HighestN
      <4>2. DOMAIN m \cap T = T
        BY <4>1
      <4> QED
        BY <4>1, <4>2 DEF Only, Restrict
    <3>2. Cardinality(T) = n
      <4>1. KeysOrdered(ls, n)
        BY ONLY <2>2, <2>3, <2>5, <2>7, RangeOrdered DEF IsPart
      <4>2. DOMAIN Only(m, T) = {ls[i] : i \in 0 .. n - 1}
        BY <2>11 DEF Lists
      <4> QED
        BY <2>3, <3>1, <4>1, <4>2, KeysCounted
    <3> QED
      BY <2>3, <2>4, <2>7, <2>14, <3>1, <3>2 DEF MayJoin
  <2> QED
    BY <2>7, <2>15, <2>16, TransferMaps DEF T, nb, la, m, o
<1> QED
  BY <1>1, <1>2, <1>3

LEMMA CopyAssignMaps ==
  ASSUME IInv, IInv', NEW a \in Array, NEW b \in Array, CopyAssign(a, b)
  PROVE  Abstract!CopyAssign(a, b) \/ Abstract!CopyThrows(a, b)
<1> DEFINE n == size[b]
           m == Contents(b)
<1>1. Length[a] = Length[b]
  BY DEF CopyAssign
<1>2. /\ Length[a] \in Nat /\ n \in Nat /\ n =< Length[a] /\ n \in 0 .. Length[a]
      /\ keys[b] \in KeySlots(Length[a]) /\ KeysOrdered(keys[b], n)
      /\ values[b] \in ValueSlots(Length[a]) /\ values[a] \in ValueSlots(Length[a])
  BY <1>1, OneArray
<1>3. /\ Lists(keys[b], values[b], n, m) /\ Maps[b] = m /\ Abstract!Keys(b) = DOMAIN m
      /\ DOMAIN m = {keys[b][j] : j \in 0 .. n - 1}
  BY ContentsListed, AbstractMap
<1>4. CASE Store(a, keys[b], values[b], n) /\ Return("assigned", a, n)
  <2>1. Maps' = [Maps EXCEPT ![a] = m]
    BY <1>2, <1>3, <1>4, StoredMap
  <2>2. Abstract!Return("assigned", a, {})
    BY <1>4, Returned
  <2>3. Maps' = [Maps EXCEPT ![a] = Maps[b]]
    BY <1>3, <2>1
  <2> QED
    BY <2>2, <2>3 DEF Abstract!CopyAssign, Maps
<1>5. ASSUME NEW c \in Used(b), ValuesThrow,
             Store(a, keys[b], Onto(values[a], 0, values[b], 0, c), n), Return("threw", a, n)
      PROVE  Abstract!CopyThrows(a, b)
  <2> DEFINE vs == Onto(values[a], 0, values[b], 0, c)
             f(x) == vs[CHOOSE i \in 0 .. n - 1 : keys[b][i] = x]
             o == [x \in {keys[b][i] : i \in 0 .. n - 1} |-> f(x)]
  <2>1. c \in Nat /\ c =< Length[a] /\ 0 \in Nat
    BY <1>2 DEF Used
  <2>2. vs \in [0 .. Length[a] - 1 -> Value \cup {Gone}]
    <3>1. /\ values[a] \in [0 .. Length[a] - 1 -> Value \cup {Gone}]
          /\ values[b] \in [0 .. Length[a] - 1 -> Value \cup {Gone}]
      BY <1>2 DEF ValueSlots
    <3> QED
      BY ONLY <1>2, <2>1, <3>1, OntoType
  <2>3. Store(a, keys[b], vs, n)
    BY <1>5
  <2> HIDE DEF vs, n, m
  <2>4. Lists(keys[b], vs, n, o)
    BY ONLY <1>2, ListsSome
  <2>5. o \in [DOMAIN m -> Value \cup {Gone}]
    <3>1. ASSUME NEW x \in DOMAIN m PROVE f(x) \in Value \cup {Gone}
      <4>1. \E i \in 0 .. n - 1 : keys[b][i] = x
        BY <1>3
      <4>2. (CHOOSE i \in 0 .. n - 1 : keys[b][i] = x) \in 0 .. n - 1
        BY <4>1, Zenon
      <4>3. \A i \in 0 .. n - 1 : vs[i] \in Value \cup {Gone}
        BY <1>2, <2>2
      <4> QED
        BY <4>2, <4>3, Zenon
    <3>2. o = [x \in DOMAIN m |-> f(x)]
      BY <1>3
    <3> HIDE DEF f, o
    <3> QED
      BY <3>1, <3>2
  <2> HIDE DEF o
  <2>6. Maps' = [Maps EXCEPT ![a] = o]
    BY <1>2, <2>2, <2>3, <2>4, StoredMap DEF ValueSlots
  <2>7. Abstract!Return("threw", a, {})
    BY <1>5, Returned
  <2>8. o \in [Abstract!Keys(b) -> Value \cup {Gone}]
    BY <1>3, <2>5
  <2> QED
    BY <1>5, <2>6, <2>7, <2>8 DEF Abstract!CopyThrows, Maps
<1> QED
  BY <1>4, <1>5 DEF CopyAssign

LEMMA MoveAssignMaps ==
  ASSUME IInv, IInv', NEW a \in Array, NEW b \in Array, MoveAssign(a, b)
  PROVE  Abstract!MoveAssign(a, b)
<1> DEFINE m == Contents(b)
<1>1. Return("taken", a, size[b])
  BY DEF MoveAssign
<1>2. Abstract!Return("taken", a, {})
  BY <1>1, Returned
<1>3. /\ DOMAIN keys = Array /\ DOMAIN values = Array /\ DOMAIN size = Array
      /\ Lists(keys[b], values[b], size[b], m) /\ Maps[b] = m
      /\ Maps = [c \in Array |-> Maps[c]]
  BY OneArray, ContentsListed DEF Maps
<1>4. Abstract!Empty = Empty
  BY SameOperators
<1> HIDE DEF m
<1>5. CASE a = b
  <2>1. Maps' = Maps
    BY <1>5, KeptMaps DEF MoveAssign
  <2>2. Maps' = [Maps EXCEPT ![b] = IF a = b THEN Maps[b] ELSE Abstract!Empty, ![a] = Maps[b]]
    BY <1>3, <1>5, <2>1
  <2> QED
    BY <1>2, <1>3, <2>2 DEF Abstract!MoveAssign, Maps
<1>6. CASE a # b
  <2>1. /\ keys' = [keys EXCEPT ![a] = keys[b], ![b] = Cropped(keys[b], 0)]
        /\ values' = [values EXCEPT ![a] = values[b], ![b] = Cropped(values[b], 0)]
        /\ size' = [size EXCEPT ![a] = size[b], ![b] = 0]
    BY <1>6 DEF MoveAssign
  <2>2. /\ keys'[a] = keys[b] /\ values'[a] = values[b] /\ size'[a] = size[b]
        /\ size'[b] = 0
        /\ \A c \in Array \ {a, b} :
             keys'[c] = keys[c] /\ values'[c] = values[c] /\ size'[c] = size[c]
    BY <1>3, <1>6, <2>1
  <2>3. Lists(keys'[a], values'[a], size'[a], m) /\ Lists(keys'[b], values'[b], size'[b], Empty)
    BY <1>3, <2>2, EmptyListed
  <2>4. Maps' = [Maps EXCEPT ![b] = Empty, ![a] = m]
    <3>1. Maps' = Replaced(Maps, b, Empty, a, m)
      BY <1>6, <2>2, <2>3, TwoMaps
    <3> QED
      BY <3>1 DEF Replaced
  <2>5. Maps' = [Maps EXCEPT ![b] = IF a = b THEN Maps[b] ELSE Abstract!Empty, ![a] = Maps[b]]
    BY <1>3, <1>4, <1>6, <2>4
  <2> QED
    BY <1>2, <1>3, <2>5 DEF Abstract!MoveAssign, Maps
<1> QED
  BY <1>5, <1>6

LEMMA InitMaps == ASSUME Init PROVE Abstract!Init
<1>1. IInv
  BY InitKeeps
<1>2. ASSUME NEW a \in Array PROVE Contents(a) = Empty
  <2>1. size[a] = 0
    BY DEF Init
  <2>2. Lists(keys[a], values[a], 0, Contents(a))
    BY <1>1, <2>1, ContentsListed
  <2> QED
    BY <2>2, EmptyListed, SameMap
<1>3. Abstract!Empty = Empty
  BY SameOperators
<1>4. Maps = [a \in Array |-> Abstract!Empty]
  BY <1>2, <1>3 DEF Maps
<1>5. ret = [how |-> "none", arr |-> CHOOSE a \in Array : TRUE, idx |-> 0]
  BY DEF Init
<1>6. Result = [how |-> "none", arr |-> CHOOSE a \in Array : TRUE, at |-> {}]
  BY <1>5 DEF Result
<1> QED
  BY <1>4, <1>6 DEF Abstract!Init, Maps, Result

LEMMA NextMaps ==
  ASSUME IInv, IInv', [Next]_vars
  PROVE  [Abstract!Next]_<<Maps, Result>>
<1>1. CASE UNCHANGED vars
  BY <1>1 DEF vars, Maps, Result, Contents, Used, KeyAt
<1>2. CASE Next
  <2>1. PICK a \in Array :
          \/ InsertNew(a) \/ InsertOrAssign(a) \/ Subscript(a) \/ Write(a)
          \/ Erase(a) \/ EraseAbsent(a) \/ Clear(a) \/ UpdateKey(a)
          \/ \E b \in Array \ {a} : Split(a, b) \/ TransferPrefix(a, b) \/ TransferSuffix(a, b)
          \/ \E b \in Array : CopyAssign(a, b) \/ MoveAssign(a, b)
    BY <1>2 DEF Next
  <2>2. CASE \/ InsertNew(a) \/ InsertOrAssign(a) \/ Subscript(a) \/ Write(a)
             \/ Erase(a) \/ EraseAbsent(a) \/ Clear(a) \/ UpdateKey(a)
    <3>1. \/ Abstract!InsertNew(a) \/ Abstract!InsertOrAssign(a) \/ Abstract!Subscript(a)
          \/ Abstract!Write(a) \/ Abstract!Erase(a) \/ Abstract!EraseAbsent(a)
          \/ Abstract!Clear(a) \/ Abstract!UpdateKey(a)
      BY <2>2, InsertNewMaps, InsertOrAssignMaps, SubscriptMaps, WriteMaps, EraseMaps,
         EraseAbsentMaps, ClearMaps, UpdateKeyMaps
    <3> QED
      BY <3>1 DEF Abstract!Next
  <2>3. ASSUME NEW b \in Array \ {a}, Split(a, b) \/ TransferPrefix(a, b) \/ TransferSuffix(a, b)
        PROVE  Abstract!Next
    <3>1. a # b /\ (Abstract!Split(a, b) \/ Abstract!Transfer(a, b))
      BY <2>3, SplitMaps, TransferPrefixMaps, TransferSuffixMaps
    <3> QED
      BY <3>1 DEF Abstract!Next
  <2>4. ASSUME NEW b \in Array, CopyAssign(a, b) \/ MoveAssign(a, b)
        PROVE  Abstract!Next
    <3>1. Abstract!CopyAssign(a, b) \/ Abstract!CopyThrows(a, b) \/ Abstract!MoveAssign(a, b)
      BY <2>4, CopyAssignMaps, MoveAssignMaps
    <3> QED
      BY <3>1 DEF Abstract!Next
  <2> QED
    BY <2>1, <2>2, <2>3, <2>4
<1> QED
  BY <1>1, <1>2

----------------------------------------------------------------------------
(* The theorems. *)

\* Types are kept: no shift, split or transfer reads or writes beyond an array.
THEOREM ArrayTypeCorrect == Spec => []TypeOK
<1>1. Init => IInv
  BY InitKeeps
<1>2. IInv /\ [Next]_vars => IInv'
  BY NextKeeps
<1>3. IInv => TypeOK
  BY InvTypeOK
<1> QED
  BY <1>1, <1>2, <1>3, PTL DEF Spec

\* In every state, after calls that threw as well, linear and binary search find the
\* rank of every key, and find, lower_bound and upper_bound point at the entry that a
\* sorted map has there.
THEOREM ArrayLookupsExact == Spec => []LookupsExact
<1>1. Init => IInv
  BY InitKeeps
<1>2. IInv /\ [Next]_vars => IInv'
  BY NextKeeps
<1>3. IInv => LookupsExact
  BY InvLookupsExact
<1> QED
  BY <1>1, <1>2, <1>3, PTL DEF Spec

\* The arrays implement the maps of DenseMaps, whatever the capacities, keys and
\* values, whether moves copy or empty their source and whether copies throw: every
\* call has the effect and the outcome promised, each value stays with its key through
\* all the shifting, and a call that throws does no more damage than DenseMaps says.
THEOREM ArraysImplementMaps == Spec => ImplementsMaps
<1>1. Init => IInv
  BY InitKeeps
<1>2. IInv /\ [Next]_vars => IInv'
  BY NextKeeps
<1>3. Init => Abstract!Init
  BY InitMaps
<1>4. IInv /\ IInv' /\ [Next]_vars => [Abstract!Next]_<<Maps, Result>>
  BY NextMaps
<1> QED
  BY <1>1, <1>2, <1>3, <1>4, PTL DEF Spec, ImplementsMaps, Abstract!Spec, Maps, Result
=============================================================================
