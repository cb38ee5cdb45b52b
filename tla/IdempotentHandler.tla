-------------------------- MODULE IdempotentHandler --------------------------
(***************************************************************************)
(* IdempotentEventHandler.handle, the base class of the consumers that     *)
(* must not process one event twice.  A call inserts the row (eventId,     *)
(* consumer) of processed_messages as its mark, runs the business logic,   *)
(* and on an error takes the mark away again.  The outbox delivers events  *)
(* more than once and from several processes, so calls overlap.            *)
(***************************************************************************)
EXTENDS Naturals, FiniteSets

CONSTANTS
    EventId,    \* values of event.eventId
    NoId,       \* the value of a missing eventId
    Consumer,   \* concrete handler classes
    Call,       \* deliveries: invocations of handle
    EventOf,    \* EventOf[k]: the eventId of the delivered event
    ConsumerOf, \* ConsumerOf[k]: the class whose handle is called
    MaxError    \* bound on the errors and deaths, over all calls

ASSUME NoIdAssumption == NoId \notin EventId
ASSUME EventOfAssumption == EventOf \in [Call -> EventId \cup {NoId}]
ASSUME ConsumerOfAssumption == ConsumerOf \in [Call -> Consumer]
ASSUME MaxErrorAssumption == MaxError \in Nat
ASSUME CallAssumption == IsFiniteSet(Call)

VARIABLES
    mark,     \* the rows of processed_messages
    at,       \* the await a call stands at, or how it ended
    effect,   \* the calls whose business logic had an effect, whole or in part
    unmarked, \* the calls whose insert failed without P2002
    errors    \* all errors and deaths

handlerVars == <<mark, at, effect, unmarked, errors>>

\* "processed": process returned; "skipped": P2002 of the mark; "mistaken":
\* P2002 of the business logic; "failed", "undeleted": the error is rethrown,
\* with the mark deleted or not; "dead": the process died with the call
HandlerStage == {"idle", "create", "process", "delete",
          "processed", "skipped", "mistaken", "failed", "undeleted", "dead"}

Key(k) == <<EventOf[k], ConsumerOf[k]>>

HandlerInit ==
    /\ mark = {}
    /\ at = [k \in Call |-> "idle"]
    /\ effect = {}
    /\ unmarked = {}
    /\ errors = 0

Goto(k, stage) == at' = [at EXCEPT ![k] = stage]

Error == errors < MaxError /\ errors' = errors + 1

\* The business logic is left by an error or a death: before it wrote anything,
\* or after.
Interrupted(k) == effect' \in {effect, effect \cup {k}}

-----------------------------------------------------------------------------

\* An event without an eventId goes straight to the business logic.
Handle(k) ==
    /\ at[k] = "idle"
    /\ Goto(k, IF EventOf[k] = NoId THEN "process" ELSE "create")
    /\ UNCHANGED <<mark, effect, unmarked, errors>>

\* the unique index on event_id alone decides, whoever the consumer is
Conflicts(k) == \E m \in mark : m[1] = EventOf[k]

CreateMark(k) ==
    /\ at[k] = "create"
    /\ ~Conflicts(k)
    /\ mark' = mark \cup {Key(k)}
    /\ Goto(k, "process")
    /\ UNCHANGED <<effect, unmarked, errors>>

\* P2002: skip.
CreateConflicts(k) ==
    /\ at[k] = "create"
    /\ Conflicts(k)
    /\ Goto(k, "skipped")
    /\ UNCHANGED <<mark, effect, unmarked, errors>>

\* Mutant of CreateThrows: every error of the insert is taken for a conflict.
MutCreateThrowsSkips(k) ==
    /\ at[k] = "create"
    /\ Error
    /\ unmarked' = unmarked \cup {k}
    /\ Goto(k, "skipped")
    /\ UNCHANGED <<mark, effect>>

\* Any other error of the insert, applied or not, is handled like an error of
\* the business logic: the mark is deleted.
CreateThrows(k) ==
    /\ at[k] = "create"
    /\ Error
    /\ unmarked' = unmarked \cup {k}
    /\ mark' = mark \/ (~Conflicts(k) /\ mark' = mark \cup {Key(k)})
    /\ Goto(k, "delete")
    /\ UNCHANGED effect

\* Mutant of Process: the mark is deleted on every way out.
MutProcessReleases(k) ==
    /\ at[k] = "process"
    /\ mark' = mark \ {Key(k)}
    /\ effect' = effect \cup {k}
    /\ Goto(k, "processed")
    /\ UNCHANGED <<unmarked, errors>>

\* The business logic has its effect.
Process(k) ==
    /\ at[k] = "process"
    /\ effect' = effect \cup {k}
    /\ Goto(k, "processed")
    /\ UNCHANGED <<mark, unmarked, errors>>

\* The business logic throws, with or without an effect.
ProcessThrows(k) ==
    /\ at[k] = "process"
    /\ Error
    /\ Interrupted(k)
    /\ Goto(k, IF EventOf[k] = NoId THEN "failed" ELSE "delete")
    /\ UNCHANGED <<mark, unmarked>>

\* It throws P2002, from an insert of its own: taken for a conflict on the
\* mark, which stays.
ProcessConflicts(k) ==
    /\ at[k] = "process"
    /\ Error
    /\ Interrupted(k)
    /\ Goto(k, IF EventOf[k] = NoId THEN "failed" ELSE "mistaken")
    /\ UNCHANGED <<mark, unmarked>>

\* The row of this event and consumer is deleted, whichever call inserted it;
\* that there is none is only logged.
DeleteMark(k) ==
    /\ at[k] = "delete"
    /\ mark' = mark \ {Key(k)}
    /\ Goto(k, "failed")
    /\ UNCHANGED <<effect, unmarked, errors>>

\* The delete throws and is logged.
DeleteThrows(k) ==
    /\ at[k] = "delete"
    /\ Error
    /\ Goto(k, "undeleted")
    /\ UNCHANGED <<mark, effect, unmarked>>

\* The API process dies at an await of the call.
Die(k) ==
    /\ at[k] \in {"create", "process", "delete"}
    /\ Error
    /\ IF at[k] = "process" THEN Interrupted(k) ELSE UNCHANGED effect
    /\ Goto(k, "dead")
    /\ UNCHANGED <<mark, unmarked>>

-----------------------------------------------------------------------------

Step(k) ==
    \/ Handle(k) \/ CreateMark(k) \/ CreateConflicts(k)
    \/ Process(k) \/ DeleteMark(k)

HandlerNext ==
    \E k \in Call :
        \/ Step(k) \/ CreateThrows(k) \/ ProcessThrows(k) \/ ProcessConflicts(k)
        \/ DeleteThrows(k) \/ Die(k)

\* A started call goes on; nothing makes the bus deliver.
HandlerSpec ==
    HandlerInit /\ [][HandlerNext]_handlerVars /\ \A k \in Call : WF_handlerVars(at[k] # "idle" /\ Step(k))

-----------------------------------------------------------------------------

HandlerTypeOK ==
    /\ mark \subseteq EventId \X Consumer
    /\ at \in [Call -> HandlerStage]
    /\ effect \subseteq Call
    /\ unmarked \subseteq Call
    /\ errors \in Nat

\* The deliveries of event e to consumer c among some calls.
CallsOf(e, c, calls) == {k \in calls : Key(k) = <<e, c>>}

\* the calls that deleted the mark after an effect of their own, or without
\* having set it: another call may own it
Retried == {k \in effect \cup unmarked : at[k] = "failed"}

\* An event that carries an eventId takes effect once in a consumer, and once
\* more only for each delivery that deleted the mark although the event may
\* already have had an effect under it.
EffectsAreBounded ==
    \A e \in EventId, c \in Consumer :
        Cardinality(CallsOf(e, c, effect)) <= 1 + Cardinality(CallsOf(e, c, Retried))

\* With one consumer per event, the skipped deliveries never skip all of an
\* event: if it has no effect, then a delivery of it gave the error back to the
\* bus, took a P2002 of the business logic for its own, or died.
DeliveredTakesEffect ==
    \A k \in Call : at[k] = "create" ~>
        \E l \in Call :
            /\ Key(l) = Key(k)
            /\ l \in effect \/ at[l] \in {"failed", "undeleted", "mistaken", "dead"}
=============================================================================
