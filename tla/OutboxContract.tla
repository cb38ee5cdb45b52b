--------------------------- MODULE OutboxContract ---------------------------
(***************************************************************************)
(* What the outbox promises to the rest of the system, whatever the number *)
(* of processes that work on the table: an event is handed out only after  *)
(* its transaction committed; it may be handed out again and again; it is  *)
(* handed out for the first time only when every older event that was      *)
(* already committed has been handed out or given up; it is confirmed only *)
(* after it was handed out.                                                *)
(***************************************************************************)
CONSTANT Event

VARIABLES
    before,     \* before[e]: the events e must not overtake
    accepted,   \* events whose transaction committed
    delivered,  \* events handed to the bus at least once
    confirmed,  \* events recorded as sent
    abandoned   \* events recorded as failed at least once

vars == <<before, accepted, delivered, confirmed, abandoned>>

Init ==
    /\ before = [e \in Event |-> {}]
    /\ accepted = {}
    /\ delivered = {}
    /\ confirmed = {}
    /\ abandoned = {}

Accept(e) ==
    /\ e \notin accepted
    /\ accepted' = accepted \cup {e}
    /\ \E B \in SUBSET accepted : before' = [before EXCEPT ![e] = B]
    /\ UNCHANGED <<delivered, confirmed, abandoned>>

Deliver(e) ==
    /\ e \in accepted
    /\ before[e] \subseteq delivered \cup abandoned
    /\ delivered' = delivered \cup {e}
    /\ UNCHANGED <<before, accepted, confirmed, abandoned>>

Confirm(e) ==
    /\ e \in delivered
    /\ confirmed' = confirmed \cup {e}
    /\ UNCHANGED <<before, accepted, delivered, abandoned>>

Abandon(e) ==
    /\ e \in accepted
    /\ abandoned' = abandoned \cup {e}
    /\ UNCHANGED <<before, accepted, delivered, confirmed>>

Next ==
    \E e \in Event : Accept(e) \/ Deliver(e) \/ Confirm(e) \/ Abandon(e)

Spec == Init /\ [][Next]_vars

\* At least once, or recorded as failed: no event is forgotten.
NothingForgotten ==
    \A e \in Event : e \in accepted ~> e \in confirmed \cup abandoned

FairSpec == Spec /\ NothingForgotten
=============================================================================
