------------------------------ MODULE MCOutbox ------------------------------
(* An instance of Outbox small enough for TLC.                             *)
EXTENDS Outbox, TLC

CONSTANTS e1, e2, p1, p2, r1, r2, r3

\* two processes; the timer of p1 may fire while an invocation is at work
OverlappingRuns == r1 :> p1 @@ r2 :> p1 @@ r3 :> p2
\* p1 may be hit by a second fault while it handles a first; p2 may crash once
Faults == p1 :> 2 @@ p2 :> 1
=============================================================================
