--------------------------- MODULE MCUniformPool ---------------------------
(***************************************************************************)
(* Blocks of one size: 3 units, at even addresses, so that every second    *)
(* block of a region needs padding.                                        *)
(***************************************************************************)
EXTENDS UniformPool

OneSize == {[bytes |-> 3, align |-> 2]}
=============================================================================
