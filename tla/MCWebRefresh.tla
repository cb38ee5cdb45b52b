---------------------------- MODULE MCWebRefresh ----------------------------
(* Instances of WebRefresh small enough for TLC.                           *)
EXTENDS WebRefresh, TLC

CONSTANTS s1, s2, s3, s4, q1, q2, t1, t2, t3, u1, u2

\* two visits of one user and one of another
TwoUsers == t1 :> u1 @@ t2 :> u1 @@ t3 :> u2

Symmetry == Permutations(Session) \cup Permutations(Request)
=============================================================================
