------------------------------- MODULE MCChat -------------------------------
(* Chat on two processes and two browsers.                                 *)
EXTENDS Chat, TLC

CONSTANTS p1, p2, b1, b2, m1, m2, q1, q2

Symmetry ==
    Permutations(Process) \cup Permutations(Browser) \cup Permutations(Request)
        \cup Permutations(Existing) \cup Permutations(Message \ Existing)
=============================================================================
