--------------------------- MODULE MCBoardColumns ---------------------------
(* Instances of BoardColumns small enough for TLC: two default columns of  *)
(* one status each, and a status that none of them maps.                   *)
EXTENDS BoardColumns, TLC

CONSTANTS b1, b2, q1, q2, s1, s2, s3

TwoColumns == <<{s1}, {s2}>>

Symmetry == Permutations(Change) \cup Permutations(Browser)
=============================================================================
