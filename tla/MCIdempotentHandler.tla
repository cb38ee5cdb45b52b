------------------------ MODULE MCIdempotentHandler ------------------------
(* Instances of IdempotentHandler small enough for TLC.                    *)
EXTENDS IdempotentHandler, TLC

CONSTANTS k1, k2, k3, k4, m1, c1, c2

\* four deliveries, one of which has no eventId
OneConsumer == [k \in Call |-> c1]
WithoutId == k1 :> m1 @@ k2 :> m1 @@ k3 :> m1 @@ k4 :> NoId
=============================================================================
