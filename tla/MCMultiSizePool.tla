--------------------------- MODULE MCMultiSizePool ---------------------------
(***************************************************************************)
(* Sizes in units of half a line: a line is 2, 512 bytes are 4 lines here  *)
(* and 2048 bytes 8, with quarters of 4.                                   *)
(***************************************************************************)
EXTENDS MultiSizePool

T(s, a) == [size |-> s, align |-> a]

\* Sizes for each of the three roundings; one type is aligned beyond a line.
ThreeTypes == {T(5, 1), T(4, 4), T(10, 2)}
=============================================================================
