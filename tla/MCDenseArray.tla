---------------------------- MODULE MCDenseArray ----------------------------
(* Two dense_maps for TLC, of the same type. *)
EXTENDS DenseArray

Two       == {1, 2}
Equal3    == [a \in Two |-> 3]
FourKeys  == 1 .. 4
OneOrTwo  == {1, 2}

\* One array full and an element in the other, or two in each.
UpToFour == size[1] + size[2] =< 4

\* What the next step depends on: the outcome of the last call is not part of it,
\* and ImplementsMaps is checked on every step, a step to a known state included.
arrays == <<keys, values, size>>
=============================================================================
