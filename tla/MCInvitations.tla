--------------------------- MODULE MCInvitations ---------------------------
(* An instance of Invitations small enough for TLC.                        *)
EXTENDS Invitations, TLC

CONSTANTS u1, u2, q1, q2, q3, q4, k1, k2

Symmetry == Permutations(Request) \cup Permutations(Call)
=============================================================================
