-------------------------- MODULE MCTreeLifecycle --------------------------
(* Two trees.  The configuration that passes has three elements, of which two fit in
   a leaf; those that expect a violation have two, of which one fits. *)
EXTENDS TreeLifecycle, TLC

AllOps == {"move", "moveAssign", "swap", "copy", "assign"}

\* Everything but the move construction that goes wrong.
AllButMultiMove ==
  [a \in {"own", "policy", "multi"} |-> AllOps \ IF a = "multi" THEN {"move"} ELSE {}]

\* The code tells trees and elements apart by nothing the model keeps.
Alike == Permutations(Tree) \cup Permutations(Elem)

MoveAssignOwn == [a \in {"own"} |-> {"moveAssign"}]
MoveMulti     == [a \in {"multi"} |-> {"move"}]
=============================================================================
