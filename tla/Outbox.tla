------------------------------- MODULE Outbox -------------------------------
(***************************************************************************)
(* The transactional outbox of the API: OutboxService inserts a PENDING    *)
(* row in the transaction of the business change; in every API process a   *)
(* cron job, OutboxProcessor.processOutboxEvents, reads the oldest PENDING *)
(* rows, publishes each on the in-memory bus and writes COMPLETED or       *)
(* FAILED back.  No row is claimed, so the processes work on the same rows *)
(* at the same time.                                                       *)
(*                                                                         *)
(* A step ends at an await: what JavaScript runs between two awaits is one *)
(* action, and a database statement is atomic.                             *)
(***************************************************************************)
EXTENDS Naturals, FiniteSets

CONSTANTS
    Event,      \* the rows that business transactions may insert
    Instance,   \* the API processes, each with its own OutboxProcessor
    Run,        \* invocations of processOutboxEvents by the cron timer
    Host,       \* Host[r]: the process whose timer makes invocation r
    NoEvent,    \* "event" before the loop binds it
    BatchSize,  \* take: 50 in the source
    Time,       \* the values of createdAt
    MaxFault    \* MaxFault[p]: bound on the throws and crashes of process p

ASSUME HostAssumption == Host \in [Run -> Instance]
ASSUME NoEventAssumption == NoEvent \notin Event
ASSUME BatchSizeAssumption == BatchSize \in Nat \ {0}
ASSUME TimeAssumption == Time \subseteq Nat
ASSUME MaxFaultAssumption == MaxFault \in [Instance -> Nat]

VARIABLES
    \* the table outbox_events
    status,       \* "none" before the insert commits, then the enum's value
    createdAt,    \* meaningful once the row is committed
    processedAt,  \* TRUE when the column is not null
    retryCount,
    \* one OutboxProcessor per process
    isProcessing,
    pc,           \* the await an invocation stands at
    batch,        \* the fetched rows it has not reached yet
    current,      \* the row it is on
    \* history
    before,       \* rows committed, with an older createdAt, when e commits
    published,    \* published[p][e]: times p handed e to the bus
    faults        \* faults that hit the process so far

rows  == <<status, createdAt, processedAt, retryCount>>
runs  == <<isProcessing, pc, batch, current>>
vars  == <<rows, runs, before, published, faults>>

Status == {"none", "PENDING", "COMPLETED", "FAILED"}
Stage  == {"idle", "findMany", "loop", "complete", "fail"}

Init ==
    /\ status = [e \in Event |-> "none"]
    /\ createdAt = [e \in Event |-> 0]
    /\ processedAt = [e \in Event |-> FALSE]
    /\ retryCount = [e \in Event |-> 0]
    /\ isProcessing = [p \in Instance |-> FALSE]
    /\ pc = [r \in Run |-> "idle"]
    /\ batch = [r \in Run |-> {}]
    /\ current = [r \in Run |-> NoEvent]
    /\ before = [e \in Event |-> {}]
    /\ published = [p \in Instance |-> [e \in Event |-> 0]]
    /\ faults = [p \in Instance |-> 0]

-----------------------------------------------------------------------------
(* The rows findMany may return, and the order of the loop.                *)

Pending == {e \in Event : status[e] = "PENDING"}

\* Mutant of Fetched: only full batches.
MutFetchedFullBatch ==
    IF Cardinality(Pending) < BatchSize THEN {{}}
    ELSE {S \in SUBSET Pending :
            /\ Cardinality(S) = BatchSize
            /\ \A e \in S, f \in Pending \ S : createdAt[e] <= createdAt[f]}

\* where status PENDING, orderBy createdAt asc, take BatchSize: any choice
\* among rows of the same createdAt
Fetched ==
    {S \in SUBSET Pending :
        /\ \A e \in S, f \in Pending \ S : createdAt[e] <= createdAt[f]
        /\ S = Pending \/ Cardinality(S) = BatchSize
        /\ Cardinality(S) <= BatchSize}

\* Mutant of Next1: newest first.
MutNext1Newest(S) == {e \in S : \A f \in S : createdAt[f] <= createdAt[e]}

\* the row the for-of loop takes next from what is left of a batch
Next1(S) == {e \in S : \A f \in S : createdAt[e] <= createdAt[f]}

\* one more fault of process p
Fault(p) ==
    /\ faults[p] < MaxFault[p]
    /\ faults' = [faults EXCEPT ![p] = @ + 1]

\* the invocation ends: return or outer catch, then finally
Finish(r) ==
    /\ pc' = [pc EXCEPT ![r] = "idle"]
    /\ batch' = [batch EXCEPT ![r] = {}]
    /\ current' = [current EXCEPT ![r] = NoEvent]
    /\ isProcessing' = [isProcessing EXCEPT ![Host[r]] = FALSE]

\* the body of the loop ends: the next row, or the end of the invocation
Advance(r) ==
    \/ /\ batch[r] # {}
       /\ pc' = [pc EXCEPT ![r] = "loop"]
       /\ current' = [current EXCEPT ![r] = NoEvent]
       /\ UNCHANGED <<isProcessing, batch>>
    \/ /\ batch[r] = {}
       /\ Finish(r)

-----------------------------------------------------------------------------

\* OutboxService.saveEvent: the business transaction that inserts e commits.
\* createdAt = t was drawn when the insert ran, by the clock of one process, so
\* a row may commit after another and carry an older or an equal createdAt.
SaveEvent(e, t) ==
    /\ status[e] = "none"
    /\ status' = [status EXCEPT ![e] = "PENDING"]
    /\ createdAt' = [createdAt EXCEPT ![e] = t]
    /\ before' = [before EXCEPT ![e] =
            {f \in Event : status[f] # "none" /\ createdAt[f] < t}]
    /\ UNCHANGED <<processedAt, retryCount, runs, published, faults>>

\* The timer fires and the guard on isProcessing lets the invocation in.
CronTick(r) ==
    /\ pc[r] = "idle"
    /\ ~isProcessing[Host[r]]
    /\ isProcessing' = [isProcessing EXCEPT ![Host[r]] = TRUE]
    /\ pc' = [pc EXCEPT ![r] = "findMany"]
    /\ UNCHANGED <<rows, batch, current, before, published, faults>>

\* findMany answers; an empty answer ends the invocation.
FindMany(r) ==
    /\ pc[r] = "findMany"
    /\ \E S \in Fetched :
        \/ /\ S = {}
           /\ Finish(r)
        \/ /\ S # {}
           /\ batch' = [batch EXCEPT ![r] = S]
           /\ pc' = [pc EXCEPT ![r] = "loop"]
           /\ UNCHANGED <<isProcessing, current>>
    /\ UNCHANGED <<rows, before, published, faults>>

\* findMany throws: outer catch.
FindManyThrows(r) ==
    /\ pc[r] = "findMany"
    /\ Fault(Host[r])
    /\ Finish(r)
    /\ UNCHANGED <<rows, before, published>>

\* createEvent (or its fallback) and integrationEventBus.publish
Publish(r) ==
    /\ pc[r] = "loop"
    /\ \E e \in Next1(batch[r]) :
        /\ published' = [published EXCEPT ![Host[r]][e] = @ + 1]
        /\ batch' = [batch EXCEPT ![r] = @ \ {e}]
        /\ current' = [current EXCEPT ![r] = e]
    /\ pc' = [pc EXCEPT ![r] = "complete"]
    /\ UNCHANGED <<rows, isProcessing, before, faults>>

\* createEvent or publish throws before anything is handed over: inner catch.
PublishThrows(r) ==
    /\ pc[r] = "loop"
    /\ Fault(Host[r])
    /\ \E e \in Next1(batch[r]) :
        /\ batch' = [batch EXCEPT ![r] = @ \ {e}]
        /\ current' = [current EXCEPT ![r] = e]
    /\ pc' = [pc EXCEPT ![r] = "fail"]
    /\ UNCHANGED <<rows, isProcessing, before, published>>

\* Mutant of SetCompleted: the status is not written.
MutSetCompletedNoStatus(e) ==
    /\ processedAt' = [processedAt EXCEPT ![e] = TRUE]
    /\ UNCHANGED <<status, createdAt, retryCount>>

\* update status COMPLETED, whatever the row's status has become
SetCompleted(e) ==
    /\ status' = [status EXCEPT ![e] = "COMPLETED"]
    /\ processedAt' = [processedAt EXCEPT ![e] = TRUE]
    /\ UNCHANGED <<createdAt, retryCount>>

UpdateCompleted(r) ==
    /\ pc[r] = "complete"
    /\ SetCompleted(current[r])
    /\ Advance(r)
    /\ UNCHANGED <<before, published, faults>>

\* That update throws, although the event is out, and may have been applied
\* all the same: inner catch.
UpdateCompletedThrows(r) ==
    /\ pc[r] = "complete"
    /\ Fault(Host[r])
    /\ SetCompleted(current[r]) \/ UNCHANGED rows
    /\ pc' = [pc EXCEPT ![r] = "fail"]
    /\ UNCHANGED <<isProcessing, batch, current, before, published>>

\* the inner catch: update status FAILED, retryCount + 1
SetFailed(e) ==
    /\ status' = [status EXCEPT ![e] = "FAILED"]
    /\ retryCount' = [retryCount EXCEPT ![e] = @ + 1]
    /\ UNCHANGED <<createdAt, processedAt>>

UpdateFailed(r) ==
    /\ pc[r] = "fail"
    /\ SetFailed(current[r])
    /\ Advance(r)
    /\ UNCHANGED <<before, published, faults>>

\* The update in the inner catch throws, applied or not: the outer catch
\* drops what is left of the batch.
UpdateFailedThrows(r) ==
    /\ pc[r] = "fail"
    /\ Fault(Host[r])
    /\ SetFailed(current[r]) \/ UNCHANGED rows
    /\ Finish(r)
    /\ UNCHANGED <<before, published>>

\* The process dies at any await and is restarted: its memory is gone, the
\* table is not.
Crash(p) ==
    /\ Fault(p)
    /\ pc' = [r \in Run |-> IF Host[r] = p THEN "idle" ELSE pc[r]]
    /\ batch' = [r \in Run |-> IF Host[r] = p THEN {} ELSE batch[r]]
    /\ current' = [r \in Run |-> IF Host[r] = p THEN NoEvent ELSE current[r]]
    /\ isProcessing' = [isProcessing EXCEPT ![p] = FALSE]
    /\ UNCHANGED <<rows, before, published>>

-----------------------------------------------------------------------------

\* the steps an invocation takes when nothing goes wrong
Work(r) ==
    \/ CronTick(r) \/ FindMany(r) \/ Publish(r)
    \/ UpdateCompleted(r) \/ UpdateFailed(r)

Throws(r) ==
    \/ FindManyThrows(r) \/ PublishThrows(r)
    \/ UpdateCompletedThrows(r) \/ UpdateFailedThrows(r)

Next ==
    \/ \E e \in Event, t \in Time : SaveEvent(e, t)
    \/ \E r \in Run : Work(r) \/ Throws(r)
    \/ \E p \in Instance : Crash(p)

Spec == Init /\ [][Next]_vars

\* The timer keeps firing and a database call returns, in every process;
\* nothing makes a user save.  A process that crashes is restarted.
Fairness ==
    \A p \in Instance : WF_vars(\E r \in Run : Host[r] = p /\ Work(r))

FairSpec == Spec /\ Fairness

-----------------------------------------------------------------------------

TypeOK ==
    /\ status \in [Event -> Status]
    /\ createdAt \in [Event -> Nat]
    /\ processedAt \in [Event -> BOOLEAN]
    /\ retryCount \in [Event -> Nat]
    /\ isProcessing \in [Instance -> BOOLEAN]
    /\ pc \in [Run -> Stage]
    /\ batch \in [Run -> SUBSET Event]
    /\ current \in [Run -> Event \cup {NoEvent}]
    /\ before \in [Event -> SUBSET Event]
    /\ published \in [Instance -> [Event -> Nat]]
    /\ faults \in [Instance -> Nat]

\* The rows invocation r will still publish or write.
Held(r) ==
    batch[r] \cup (IF pc[r] \in {"complete", "fail"} THEN {current[r]} ELSE {})

Committed == {e \in Event : status[e] # "none"}
Delivered == {e \in Event : \E p \in Instance : published[p][e] > 0}
Confirmed == {e \in Event : processedAt[e]}
Abandoned == {e \in Event : retryCount[e] > 0}

\* The flag isProcessing keeps the invocations of one process apart: one of
\* them at a time is past the guard, and the flag is up exactly while it is,
\* on every way out (empty answer, end of the loop, outer catch, crash).
OneRunPerProcess ==
    /\ \A r, s \in Run :
        pc[r] # "idle" /\ pc[s] # "idle" /\ Host[r] = Host[s] => r = s
    /\ \A p \in Instance :
        isProcessing[p] <=> \E r \in Run : Host[r] = p /\ pc[r] # "idle"

\* Duplicates are bounded: a process hands an event out at most once more
\* than it was hit by faults; without faults each process publishes it once.
BoundedDuplicates ==
    \A p \in Instance, e \in Event : published[p][e] <= faults[p] + 1

\* A row is COMPLETED only if some process published it, and nothing is
\* published before its transaction committed.
CompletedWasPublished ==
    /\ \A e \in Event : status[e] = "COMPLETED" => e \in Delivered
    /\ Delivered \subseteq Committed

\* No overtaking: when an event is out, every older event that was committed
\* before it is out too, or was recorded FAILED, however the processes
\* interleave and crash.
NoOvertaking ==
    \A e \in Delivered : before[e] \subseteq Delivered \cup Abandoned

\* Written COMPLETED or FAILED, and no invocation holds it any more.
Retired(e) ==
    /\ status[e] \in {"COMPLETED", "FAILED"}
    /\ \A r \in Run : e \notin Held(r)

\* A retired row is retired for good and never published again: the code has no
\* retry of FAILED rows, and no invocation fetches a row that another settled.
RetiredRowsStayRetired ==
    [][\A e \in Event : Retired(e) =>
        /\ Retired(e)'
        /\ \A p \in Instance : published'[p][e] = published[p][e]]_vars

\* The outbox implements its contract: OutboxProcessor hands rows out as
\* OutboxContract allows, and under fair scheduling every committed row ends
\* up written COMPLETED or FAILED.
Contract ==
    INSTANCE OutboxContract WITH
        accepted <- Committed, delivered <- Delivered,
        confirmed <- Confirmed, abandoned <- Abandoned

ContractSpec == Contract!Spec
ContractFairSpec == Contract!FairSpec
=============================================================================
