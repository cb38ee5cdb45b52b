------------------------------ MODULE MCBoard ------------------------------
(* Instances of Board small enough for TLC.                                *)
EXTENDS Board, TLC

CONSTANTS p1, s1, s2, t1, u1, u2, q1, q2, q3

Symmetry == Permutations(Request) \cup Permutations(Sprint) \cup Permutations(User)
=============================================================================
