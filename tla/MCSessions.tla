----------------------------- MODULE MCSessions -----------------------------
(* Instances of Sessions small enough for TLC.                             *)
EXTENDS Sessions, TLC

CONSTANTS s1, s2, s3, q1, q2

Symmetry == Permutations(Session) \cup Permutations(Request)
            \cup Permutations(User)
=============================================================================
