---------------------------- MODULE MCTaskBoard -----------------------------
(* Instances of TaskBoard small enough for TLC.                            *)
EXTENDS TaskBoard, TLC

CONSTANTS b1, b2, q1, q2

Symmetry == Permutations(Request) \cup Permutations(Browser)
=============================================================================
