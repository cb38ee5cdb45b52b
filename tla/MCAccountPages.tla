--------------------------- MODULE MCAccountPages ---------------------------
(* An instance of AccountPages for TLC. *)
EXTENDS AccountPages
CONSTANTS p1, p2, o1, o2, admin, ann, q1, q2
=============================================================================
