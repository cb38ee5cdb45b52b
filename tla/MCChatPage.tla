----------------------------- MODULE MCChatPage -----------------------------
(* Instances of ChatPage small enough for TLC.                             *)
EXTENDS ChatPage, TLC

CONSTANTS u1, u2, u3, c1, c2, c3, q1, q2, q3

\* a text, and what the name of a direct channel looks like
MCChosenName == {General, PairName(u1, u2)}

Symmetry == Permutations(Request) \cup Permutations(Channel)
=============================================================================
