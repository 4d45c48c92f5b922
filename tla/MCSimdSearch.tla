---------------------------- MODULE MCSimdSearch ----------------------------
(* All the searches of dense_map_simd.ipp with keys of 8 bits, on sorted    *)
(* arrays that need every width more than once, on both sides of the sign   *)
(* bit and across it.                                                       *)
EXTENDS SimdSearch

\* Arrays of evenly spaced ranks around the middle, where the sign changes, and
\* as long as it takes to begin, fill and leave each width.
ByteRanges == [start : {100}, step : {1},
               count : 0 .. 3 \cup 15 .. 18 \cup 31 .. 34 \cup 47 .. 50 \cup 63 .. 67]
              \cup [start : {100}, step : {2}, count : 30 .. 34]
WideRanges == [start : {118}, step : {1, 2}, count : 0 .. 17]
              \cup [start : {0, 104}, step : {1}, count : {17, 23, 39}]
RangesOf(m) == IF m.bytes = 1 THEN ByteRanges ELSE WideRanges

\* The pattern of rank r in the order of mode m.  There are 256 patterns, and 253
\* numbers that floating point tells apart.
OfRank(m, r) ==
  LET v == IF m.ascending THEN r ELSE 252 - r
  IN  CASE m.kind = "unsigned" -> v
        [] m.kind = "signed"   -> (v + 128) % 256
        [] m.kind = "float"    -> IF v >= 126 THEN v - 126 ELSE 254 - v

Array(m, r) == [n \in 1 .. r.count |-> OfRank(m, r.start + r.step * (n - 1))]

\* Any key next to, between or among the elements, and with floating point a
\* negative zero and a NaN of either sign.
KeysFor(m, r) ==
  {OfRank(m, rank) : rank \in {n \in r.start - 1 .. r.start + r.step * r.count : n >= 0}}
  \cup (IF m.kind = "float" THEN {128, 127, 255} ELSE {})

SearchesOf(m) ==
  UNION {[mode : {m}, keys : {Array(m, r)}, key : KeysFor(m, r)] : r \in RangesOf(m)}

AllSearches == UNION {SearchesOf(m) : m \in Modes}
=============================================================================
