----------------------------- MODULE OrderedMap -----------------------------
(***************************************************************************)
(* What a btree promises its client, with no tree in sight: a finite map   *)
(* in key order on which each call takes effect at one point between its   *)
(* invocation and its return (erase of a range: one element at a time),    *)
(* and whose answer describes the map the call leaves.                     *)
(***************************************************************************)
EXTENDS DenseMap

CONSTANTS Key, Value, None

VARIABLES
  dict,   \* the map
  phase,  \* "idle", "called", "applied" (effect taken), "done" (answered)
  call,   \* operation and arguments
  flag,   \* whether the call inserted, found or erased its key
  ret     \* the answer

vars == <<dict, phase, call, flag, ret>>

NoCall == [op |-> "none", key |-> None, val |-> None, stop |-> None]
NoRet  == [flag |-> FALSE, key |-> None, val |-> None]

Init ==
  /\ dict = Empty /\ phase = "idle"
  /\ call = NoCall /\ flag = FALSE /\ ret = NoRet

Call ==
  /\ phase = "idle"
  /\ phase' = "called"
  /\ \E o \in {"insert", "insert_or_assign", "find", "lower_bound", "upper_bound",
               "erase", "erase_range", "clear"},
        x \in Key \cup {None}, v \in Value \cup {None}, s \in DOMAIN dict \cup {None} :
       /\ o = "erase_range" => x # None /\ (s # None => x =< s)
       /\ call' = [op |-> o, key |-> x, val |-> v, stop |-> s]
  /\ UNCHANGED <<dict, flag, ret>>

\* The elements a range erase has still to remove.
InRange == {x \in DOMAIN dict : x >= call.key /\ (call.stop # None => x < call.stop)}

\* The map once the call has taken effect, and whether its key was there.
Effect ==
  LET present == call.key \in DOMAIN dict
  IN  CASE call.op = "insert" ->
             /\ dict' = IF present THEN dict ELSE Insert(dict, call.key, call.val)
             /\ flag' = ~present
        [] call.op = "insert_or_assign" ->
             /\ dict' = Insert(dict, call.key, call.val)
             /\ flag' = ~present
        [] call.op = "erase" -> dict' = Without(dict, {call.key}) /\ flag' = present
        [] call.op = "clear" -> dict' = Empty /\ flag' = FALSE
        [] call.op = "erase_range" -> InRange = {} /\ UNCHANGED <<dict, flag>>
        [] OTHER -> dict' = dict /\ flag' = (call.op = "find" /\ present)

Apply ==
  /\ phase = "called"
  /\ phase' = "applied"
  /\ Effect
  /\ UNCHANGED <<call, ret>>

EraseNext ==
  /\ phase = "called"
  /\ call.op = "erase_range"
  /\ \E x \in First(InRange) : dict' = Without(dict, {x})
  /\ UNCHANGED <<phase, call, flag, ret>>

\* The element the returned iterator points at; none if that is end().
Position ==
  LET S == DOMAIN dict
  IN  CASE call.op \in {"insert", "insert_or_assign", "find"} -> S \cap {call.key}
        [] call.op = "lower_bound" -> Ceil(S, call.key)
        [] call.op = "upper_bound" -> Above(S, call.key)
        [] call.op = "erase" -> IF flag THEN Above(S, call.key) ELSE {}
        [] call.op = "erase_range" -> S \cap {call.stop}
        [] OTHER -> {}

Answer ==
  /\ phase = "applied"
  /\ phase' = "done"
  /\ ret' \in IF Position = {} THEN {[flag |-> flag, key |-> None, val |-> None]}
              ELSE {[flag |-> flag, key |-> x, val |-> dict[x]] : x \in Position}
  /\ flag' = FALSE
  /\ UNCHANGED <<dict, call>>

Return ==
  /\ phase = "done"
  /\ phase' = "idle"
  /\ call' = NoCall /\ ret' = NoRet
  /\ UNCHANGED <<dict, flag>>

Serve == Apply \/ EraseNext \/ Answer \/ Return

Next == Call \/ Serve

Spec == Init /\ [][Next]_vars /\ WF_vars(Serve)
=============================================================================
