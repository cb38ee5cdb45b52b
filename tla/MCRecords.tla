----------------------------- MODULE MCRecords ------------------------------
(* Instances of Records small enough for TLC.                              *)
EXTENDS Records, TLC

CONSTANTS a, b, ap, doc, form, t1, com, mt, org, file, q1, q2, q3

\* two reviewers, one of them twice, and nobody
MCPanel == {<<a, b>>, <<a, a>>, <<>>}

Symmetry == Permutations(Request)
=============================================================================
