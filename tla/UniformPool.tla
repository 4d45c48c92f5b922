---------------------------- MODULE UniformPool ----------------------------
(***************************************************************************)
(* A HugePagePool as HugePageAllocator and MultiSizeHugePagePool use it:   *)
(* every block has one size and alignment, and a new region has room for   *)
(* one of them.                                                            *)
(***************************************************************************)
EXTENDS HugePagePool

ASSUME UniformAssumption == \A p, q \in Requests : p = q
ASSUME GrowthAssumption  == \A q \in Requests : q.bytes + q.align =< GrowthSize
=============================================================================
