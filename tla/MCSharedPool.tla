---------------------------- MODULE MCSharedPool ----------------------------
(***************************************************************************)
(* A pool shared by types of different sizes.                              *)
(***************************************************************************)
EXTENDS HugePagePool

TwoSizes == {[bytes |-> 1, align |-> 1], [bytes |-> 2, align |-> 1]}
=============================================================================
