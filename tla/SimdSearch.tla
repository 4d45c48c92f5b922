----------------------------- MODULE SimdSearch -----------------------------
(***************************************************************************)
(* The vector searches of dense_map (dense_map_simd.ipp): lower_bound by   *)
(* comparing a register full of keys at a time, narrower registers for     *)
(* what is left, and single keys for the rest.  There is one search per    *)
(* size of key, each for signed and unsigned integers, two of them for     *)
(* floating point too, and each in ascending and descending order.         *)
(*                                                                         *)
(* Keys are bit patterns below 2 * Half, where Half is the sign bit:       *)
(* 2^7 to 2^63 in the code, any number here.  Registers, lanes and masks   *)
(* are the code's own.                                                     *)
(***************************************************************************)
EXTENDS Integers, Sequences

CONSTANTS
  Half,     \* the sign bit
  Searches  \* the searches made: which of them, the array and the key

Patterns == 0 .. 2 * Half - 1

\* The searches there are: size of the key in bytes, its kind, the order.
Modes == {m \in [bytes : {1, 2, 4, 8}, kind : {"signed", "unsigned", "float"},
                 ascending : BOOLEAN] : m.kind = "float" => m.bytes \in {4, 8}}

ASSUME HalfAssumption == Half \in Nat \ {0}
ASSUME SearchesAssumption ==
  Searches \subseteq [mode : Modes, keys : Seq(Patterns), key : Patterns]

VARIABLES
  mode,  \* which search
  keys,  \* keys_, its first size_ elements
  key,   \* what is searched for
  i,     \* as in the code
  block, \* which width is tried next; past the last one, single keys
  done   \* whether i is the result

vars == <<mode, keys, key, i, block, done>>

size == Len(keys)
\* keys_[n]: arrays of C++ begin at 0.
KeyAt(n) == keys[n + 1]

----------------------------------------------------------------------------
(* What patterns mean. *)

\* The number a pattern stands for, if it is one: two's complement, or, for
\* floating point, a sign and a magnitude of which the greatest is NaN.
IsNaN(m, p) == m.kind = "float" /\ p % Half = Half - 1

Number(m, p) ==
  CASE m.kind = "unsigned" -> p
    [] m.kind = "signed"   -> IF p < Half THEN p ELSE p - 2 * Half
    [] m.kind = "float"    -> IF p < Half THEN p ELSE Half - p

\* comp_(x, y): std::less or std::greater.
Comp(m, x, y) ==
  /\ ~IsNaN(m, x) /\ ~IsNaN(m, y)
  /\ IF m.ascending THEN Number(m, x) < Number(m, y) ELSE Number(m, x) > Number(m, y)

\* x ^ 0x80...
FlipSign(x) == IF x < Half THEN x + Half ELSE x - Half

\* Mutant: unsigned keys are compared as they are.
Lane_NoFlip(m, x) == Number([m EXCEPT !.kind = "signed"], x)

\* What an integer comparison sees in a lane that holds x, as a signed number.
Lane(m, x) ==
  Number([m EXCEPT !.kind = "signed"], IF m.kind = "unsigned" THEN FlipSign(x) ELSE x)

\* cmpgt between the key in every lane and x, or cmp with an ordered predicate.
LaneTrue(m, x, y) ==
  IF m.kind = "float" THEN Comp(m, x, y)
  ELSE IF m.ascending THEN Lane(m, y) > Lane(m, x)
  ELSE Lane(m, x) > Lane(m, y)

----------------------------------------------------------------------------
(* The widths of each search. *)

\* A register of 32 or 16 bytes, and how many bytes of it are loaded.
Wide  == [register |-> 32, loaded |-> 32]
Mid   == [register |-> 16, loaded |-> 16]
Low64 == [register |-> 16, loaded |-> 8]

\* Mutant: the narrow register comes first.
Blocks_NarrowFirst(m) == <<Mid, Wide>>

\* simd_lower_bound_1byte, _2byte, _4byte, _8byte
Blocks(m) == IF m.bytes \in {2, 4} /\ m.kind # "float" THEN <<Wide, Mid, Low64>>
             ELSE <<Wide, Mid>>

Lanes(m, b) == b.loaded \div m.bytes

\* Bits of the mask for each lane: movemask_epi8 gives one for each byte,
\* movemask_ps and movemask_pd one for each lane.
LaneBits(m) == IF m.kind = "float" THEN 1 ELSE m.bytes

MaskBits(m, b) == 0 .. (b.register \div m.bytes) * LaneBits(m) - 1

\* The mask, as the set of its bits that are 1; lanes not loaded hold 0.
Mask(m, b, at) ==
  {n \in MaskBits(m, b) :
     LET lane == n \div LaneBits(m)
     IN  LaneTrue(m, IF lane < Lanes(m, b) THEN KeyAt(at + lane) ELSE 0, key)}

\* The comparison with 0xFF...: a half-filled register looks at its low bits.
AllOnes(m, b, mask) == 0 .. Lanes(m, b) * LaneBits(m) - 1 \subseteq mask

CountrOne(mask) == CHOOSE n \in 0 .. 32 : n \notin mask /\ \A c \in 0 .. n - 1 : c \in mask

----------------------------------------------------------------------------
(* The search. *)

Init ==
  /\ \E s \in Searches : mode = s.mode /\ keys = s.keys /\ key = s.key
  /\ i = 0 /\ block = 1 /\ done = FALSE

InBlocks == ~done /\ block =< Len(Blocks(mode))
Fits     == i + Lanes(mode, Blocks(mode)[block]) =< size

\* Mutant: the loop on the widest register tests the same keys again.
Advance_NotInLoop(n) == IF block = 1 THEN i ELSE i + n

Advance(n) == i + n

\* A register is compared.  The widest one is used in a loop, the others once.
Compare ==
  /\ InBlocks /\ Fits
  /\ LET b    == Blocks(mode)[block]
         mask == Mask(mode, b, i)
     IN  IF AllOnes(mode, b, mask)
         THEN /\ i' = Advance(Lanes(mode, b))
              /\ block' = IF b = Wide THEN block ELSE block + 1
              /\ UNCHANGED done
         ELSE /\ i' = i + CountrOne(mask) \div LaneBits(mode)
              /\ done' = TRUE
              /\ UNCHANGED block
  /\ UNCHANGED <<mode, keys, key>>

\* Too few keys are left for this width.
Narrow ==
  /\ InBlocks /\ ~Fits
  /\ block' = block + 1
  /\ UNCHANGED <<mode, keys, key, i, done>>

\* One by one.
Scalar ==
  /\ ~done /\ block > Len(Blocks(mode))
  /\ IF i < size /\ Comp(mode, KeyAt(i), key)
     THEN i' = i + 1 /\ UNCHANGED done
     ELSE done' = TRUE /\ UNCHANGED i
  /\ UNCHANGED <<mode, keys, key, block>>

Next == Compare \/ Narrow \/ Scalar

\* The search runs to its end on the caller's thread.
Spec == Init /\ [][Next]_vars /\ WF_vars(Next)

----------------------------------------------------------------------------
(* Properties. *)

\* The vector search stops where the linear search of lower_bound_key does: no
\* key before the result fails the comparison, and the key at the result does.
\* Signs, masks and lanes of every width have to agree for that.
SameAsLinear ==
  done => /\ \A n \in 0 .. i - 1 : Comp(mode, KeyAt(n), key)
          /\ i < size => ~Comp(mode, KeyAt(i), key)

\* Full registers are loaded from multiples of their size (keys_ is aligned to
\* 64), which the aligned load instructions require.
LoadsAligned ==
  InBlocks /\ Fits => (i * mode.bytes) % Blocks(mode)[block].loaded = 0

\* Every search ends.
EverySearchEnds == <>done
=============================================================================
