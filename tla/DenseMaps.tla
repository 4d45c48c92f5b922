------------------------------ MODULE DenseMaps ------------------------------
(***************************************************************************)
(* What a client of dense_map (dense_map.hpp) is promised: a few maps of   *)
(* fixed capacity with keys in order.  Every call takes effect at once and *)
(* leaves its outcome in ret; an iterator is the set of the key it points  *)
(* at, as in DenseMap.                                                     *)
(***************************************************************************)
EXTENDS DenseMap

CONSTANTS
  Array,       \* the maps
  Length,      \* their capacities
  Key, Value,
  DefaultValue, \* Value{}
  Gone,         \* unspecified content
  ValuesThrow   \* copying a value may throw

VARIABLES
  maps, \* what each map holds
  ret   \* outcome of the last call: how it ended, in which map, at which element

Keys(a) == DOMAIN maps[a]

Return(how, a, S) == ret' = [how |-> how, arr |-> a, at |-> S]

Refuse(how, a) == Return(how, a, {}) /\ UNCHANGED maps

Init ==
  /\ maps = [a \in Array |-> Empty]
  /\ ret = [how |-> "none", arr |-> CHOOSE a \in Array : TRUE, at |-> {}]

HasRoom(a) == Size(maps[a]) < Length[a]

\* A new element, if there is room.
Add(a, k, v) ==
  \/ Refuse("full", a) /\ ~HasRoom(a)
  \/ /\ Return("inserted", a, {k})
     /\ k \notin Keys(a) /\ HasRoom(a)
     /\ maps' = [maps EXCEPT ![a] = Insert(@, k, v)]

\* The copy of a new element's value throws: the element takes the place of the
\* last one, with an unspecified value.
AddThrows(a, k) ==
  /\ Return("threw", a, {})
  /\ ValuesThrow /\ k \notin Keys(a) /\ HasRoom(a)
  /\ LET S == LowestN(Keys(a) \cup {k}, Size(maps[a]))
     IN  \E v \in Value \cup {Gone} :
           maps' = [maps EXCEPT ![a] = Only(Insert(@, k, v), S)]

\* insert, insert_hint, try_emplace: a full map is refused first.
InsertNew(a) ==
  \E k \in Key :
    \/ Return("exists", a, {k}) /\ k \in Keys(a) /\ HasRoom(a) /\ UNCHANGED maps
    \/ AddThrows(a, k)
    \/ \E v \in Value : Add(a, k, v)

\* insert_or_assign: an assignment that throws changes nothing.
InsertOrAssign(a) ==
  \E k \in Key :
    \/ \E v \in Value :
         /\ Return("exists", a, {k})
         /\ k \in Keys(a) /\ maps' = [maps EXCEPT ![a] = Insert(@, k, v)]
    \/ Refuse("threw", a) /\ ValuesThrow /\ k \in Keys(a)
    \/ AddThrows(a, k)
    \/ \E v \in Value : k \notin Keys(a) /\ Add(a, k, v)

\* operator[]
Subscript(a) ==
  \E k \in Key :
    \/ Return("exists", a, {k}) /\ k \in Keys(a) /\ UNCHANGED maps
    \/ AddThrows(a, k)
    \/ k \notin Keys(a) /\ Add(a, k, DefaultValue)

\* A value changed through a reference.
Write(a) ==
  \E k \in Keys(a), v \in Value :
    Return("written", a, {k}) /\ maps' = [maps EXCEPT ![a] = Insert(@, k, v)]

\* erase of an iterator, or of a key: the element after it is returned.
Erase(a) ==
  \E k \in Keys(a) :
    /\ Return("erased", a, Above(Keys(a), k))
    /\ maps' = [maps EXCEPT ![a] = Without(@, {k})]

EraseAbsent(a) == Refuse("absent", a) /\ Keys(a) # Key

Take(dst, src, S) ==
  /\ Return("moved", dst, {})
  /\ maps' = [maps EXCEPT ![src] = Without(@, S),
                          ![dst] = Join(@, Only(maps[src], S))]

\* split_at: what is not before a position moves to an empty map.
Split(a, b) ==
  \E n \in 0 .. Size(maps[a]) :
    \/ Refuse("refused", b) /\ (Keys(b) = {} => n > Length[b])
    \/ Take(b, a, HighestN(Keys(a), n)) /\ Keys(b) = {} /\ n =< Length[b]

\* transfer_prefix_from: the first n keys of b go behind those of a;
\* transfer_suffix_from: the last n go before them.
Transfer(a, b) ==
  \/ Refuse("refused", a)
  \/ \E n \in 0 .. Size(maps[b]) :
       \/ /\ Take(a, b, LowestN(Keys(b), n))
          /\ MayJoin(Keys(a), LowestN(Keys(b), n), Length[a])
       \/ /\ Take(a, b, HighestN(Keys(b), n))
          /\ MayJoin(HighestN(Keys(b), n), Keys(a), Length[a])

CopyAssign(a, b) ==
  Return("assigned", a, {}) /\ maps' = [maps EXCEPT ![a] = maps[b]]

\* The copy of a value throws: the keys have been replaced, the values in part.
CopyThrows(a, b) ==
  /\ ValuesThrow /\ Return("threw", a, {})
  /\ \E vs \in [Keys(b) -> Value \cup {Gone}] : maps' = [maps EXCEPT ![a] = vs]

MoveAssign(a, b) ==
  /\ Return("taken", a, {})
  /\ maps' = [maps EXCEPT ![b] = IF a = b THEN @ ELSE Empty, ![a] = maps[b]]

Clear(a) == Return("cleared", a, {}) /\ maps' = [maps EXCEPT ![a] = Empty]

\* unsafe_update_key: the entry keeps its value and its position.
UpdateKey(a) ==
  \E old \in Keys(a), new \in Key :
    /\ Return("updated", a, {new})
    /\ KeepsOrder(Keys(a), old, new)
    /\ maps' = [maps EXCEPT ![a] = Insert(Without(@, {old}), new, @[old])]

Next ==
  \E a \in Array :
    \/ InsertNew(a) \/ InsertOrAssign(a) \/ Subscript(a) \/ Write(a)
    \/ Erase(a) \/ EraseAbsent(a) \/ Clear(a) \/ UpdateKey(a)
    \/ \E b \in Array :
         \/ a # b /\ (Split(a, b) \/ Transfer(a, b))
         \/ CopyAssign(a, b) \/ CopyThrows(a, b) \/ MoveAssign(a, b)

Spec == Init /\ [][Next]_<<maps, ret>>
=============================================================================
