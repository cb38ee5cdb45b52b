---------------------------- MODULE OutboxProofs ----------------------------
(***************************************************************************)
(* Proofs about both ends of the delivery of events.  Outbox: for every    *)
(* set of rows, processes and timer invocations, every batch size and      *)
(* every number of faults.  IdempotentHandler: it keeps its types, and an  *)
(* event takes effect in a consumer once, and once more at most for each   *)
(* insert of its mark that failed, for any events, consumers, deliveries   *)
(* and errors.                                                             *)
(***************************************************************************)
EXTENDS Outbox, IdempotentHandler, FiniteSetTheorems, TLAPS

USE HostAssumption, NoEventAssumption, TimeAssumption

LEMMA FetchedRows ==
    ASSUME NEW S \in Fetched
    PROVE  /\ S \subseteq Pending
           /\ \A e \in S, f \in Pending \ S : createdAt[e] <= createdAt[f]
  BY DEF Fetched

\* Incrementing one entry of a table of counters leaves a table of counters.
LEMMA Increment ==
    ASSUME NEW S, NEW f \in [S -> Nat], NEW x
    PROVE  [f EXCEPT ![x] = @ + 1] \in [S -> Nat]
<1>1. CASE x \in S
  BY <1>1
<1>2. CASE x \notin S
  <2>1. [f EXCEPT ![x] = @ + 1] = f
    BY <1>2
  <2> QED
    BY <2>1
<1> QED
  BY <1>1, <1>2

LEMMA SetCompletedType ==
    ASSUME TypeOK, NEW e, SetCompleted(e)
    PROVE  /\ status' \in [Event -> Status]
           /\ processedAt' \in [Event -> BOOLEAN]
           /\ createdAt' \in [Event -> Nat] /\ retryCount' \in [Event -> Nat]
  BY DEF TypeOK, SetCompleted, Status

LEMMA SetFailedType ==
    ASSUME TypeOK, NEW e, SetFailed(e)
    PROVE  /\ status' \in [Event -> Status]
           /\ processedAt' \in [Event -> BOOLEAN]
           /\ createdAt' \in [Event -> Nat] /\ retryCount' \in [Event -> Nat]
<1>1. retryCount' \in [Event -> Nat]
  BY Increment DEF TypeOK, SetFailed
<1> QED
  BY <1>1 DEF TypeOK, SetFailed, Status

-----------------------------------------------------------------------------
\* Type correctness: every variable of the outbox keeps its type.

THEOREM TypeCorrect == Spec => []TypeOK
<1> USE DEF TypeOK, Status, Stage
<1>1. Init => TypeOK
  BY DEF Init
<1>2. TypeOK /\ [Next]_vars => TypeOK'
  <2> SUFFICES ASSUME TypeOK, [Next]_vars PROVE TypeOK'
    OBVIOUS
  <2>1. ASSUME NEW e \in Event, NEW t \in Time, SaveEvent(e, t) PROVE TypeOK'
    BY <2>1 DEF SaveEvent, runs
  <2>2. ASSUME NEW r \in Run, CronTick(r) PROVE TypeOK'
    BY <2>2 DEF CronTick, rows
  <2>3. ASSUME NEW r \in Run, FindMany(r) PROVE TypeOK'
    <3>1. PICK S \in Fetched :
            (S = {} /\ Finish(r))
            \/ (batch' = [batch EXCEPT ![r] = S] /\ pc' = [pc EXCEPT ![r] = "loop"]
                /\ UNCHANGED <<isProcessing, current>>)
      BY <2>3 DEF FindMany
    <3>2. S \subseteq Event
      BY FetchedRows DEF Pending
    <3> QED
      BY <2>3, <3>1, <3>2 DEF FindMany, Finish, rows
  <2>4. ASSUME NEW r \in Run, Publish(r) PROVE TypeOK'
    BY <2>4 DEF Publish, Next1, rows
  <2>5. ASSUME NEW r \in Run, UpdateCompleted(r) PROVE TypeOK'
    BY <2>5, SetCompletedType DEF UpdateCompleted, Advance, Finish
  <2>6. ASSUME NEW r \in Run, UpdateFailed(r) PROVE TypeOK'
    BY <2>6, SetFailedType DEF UpdateFailed, Advance, Finish
  <2>7. ASSUME NEW r \in Run, Throws(r) PROVE TypeOK'
    <3>1. CASE FindManyThrows(r)
      BY <3>1 DEF FindManyThrows, Fault, Finish, rows
    <3>2. CASE PublishThrows(r)
      BY <3>2 DEF PublishThrows, Fault, Next1, rows
    <3>3. CASE UpdateCompletedThrows(r)
      BY <3>3, SetCompletedType DEF UpdateCompletedThrows, Fault, rows
    <3>4. CASE UpdateFailedThrows(r)
      BY <3>4, SetFailedType DEF UpdateFailedThrows, Fault, Finish, rows
    <3> QED
      BY <2>7, <3>1, <3>2, <3>3, <3>4 DEF Throws
  <2>8. ASSUME NEW p \in Instance, Crash(p) PROVE TypeOK'
    BY <2>8 DEF Crash, Fault, rows
  <2>9. CASE UNCHANGED vars
    BY <2>9 DEF vars, rows, runs
  <2> QED
    BY <2>1, <2>2, <2>3, <2>4, <2>5, <2>6, <2>7, <2>8, <2>9 DEF Next, Work
<1> QED
  BY <1>1, <1>2, PTL DEF Spec

-----------------------------------------------------------------------------
(* The inductive invariant, in parts.                                      *)

\* The registers of an invocation fit the await it stands at, and everything
\* it holds is committed.
Registers ==
    \A r \in Run :
        /\ pc[r] \in {"idle", "findMany"} => batch[r] = {}
        /\ pc[r] \in {"complete", "fail"} => current[r] \notin batch[r]
        /\ Held(r) \subseteq Committed

\* What the columns of a row say of its past.
Settlement ==
    /\ Delivered \subseteq Committed
    /\ Abandoned \subseteq Committed
    /\ Confirmed \subseteq Delivered
    /\ \A e \in Event : status[e] = "COMPLETED" => e \in Confirmed
    /\ \A e \in Event : status[e] = "FAILED" => e \in Abandoned
    /\ \A r \in Run : pc[r] = "complete" => current[r] \in Delivered

\* A process that may still publish e has published it at most once per fault.
Budget ==
    \A p \in Instance, e \in Event :
        /\ published[p][e] <= faults[p] + 1
        /\ (\E r \in Run : Host[r] = p /\ e \in batch[r])
                => published[p][e] <= faults[p]
        /\ (/\ status[e] = "PENDING"
            /\ \A r \in Run :
                Host[r] = p /\ pc[r] \in {"complete", "fail"} => current[r] # e)
                => published[p][e] <= faults[p]

\* An invocation that holds e holds, or has settled, all that e must follow.
Order ==
    /\ \A e \in Event : \A f \in before[e] :
        f \in Committed /\ (e \in Committed => createdAt[f] < createdAt[e])
    /\ \A r \in Run : \A e \in batch[r] :
        before[e] \subseteq Delivered \cup Abandoned \cup batch[r]
                            \cup (IF pc[r] = "fail" THEN {current[r]} ELSE {})
    /\ NoOvertaking

USE DEF Held, Committed

LEMMA RegistersHold == Spec => []Registers
<1>1. Init => Registers
  BY DEF Init, Registers
<1>2. TypeOK /\ Registers /\ [Next]_vars => Registers'
  <2> SUFFICES ASSUME TypeOK, Registers, [Next]_vars PROVE Registers'
    OBVIOUS
  <2> USE DEF TypeOK, Registers
  <2>1. ASSUME NEW e \in Event, NEW t \in Time, SaveEvent(e, t) PROVE Registers'
    BY <2>1 DEF SaveEvent, runs
  <2>2. ASSUME NEW r \in Run, CronTick(r) PROVE Registers'
    BY <2>2 DEF CronTick, rows
  <2>3. ASSUME NEW r \in Run, FindMany(r) PROVE Registers'
    <3>1. PICK S \in Fetched :
            (S = {} /\ Finish(r))
            \/ (batch' = [batch EXCEPT ![r] = S] /\ pc' = [pc EXCEPT ![r] = "loop"]
                /\ UNCHANGED <<isProcessing, current>>)
      BY <2>3 DEF FindMany
    <3>2. S \subseteq Committed
      BY FetchedRows DEF Pending
    <3> QED
      BY <2>3, <3>1, <3>2 DEF FindMany, Finish, rows
  <2>4. ASSUME NEW r \in Run, Publish(r) PROVE Registers'
    BY <2>4 DEF Publish, Next1, rows
  <2>5. ASSUME NEW r \in Run, UpdateCompleted(r) PROVE Registers'
    BY <2>5 DEF UpdateCompleted, SetCompleted, Advance, Finish
  <2>6. ASSUME NEW r \in Run, UpdateFailed(r) PROVE Registers'
    BY <2>6 DEF UpdateFailed, SetFailed, Advance, Finish
  <2>7. ASSUME NEW r \in Run, FindManyThrows(r) PROVE Registers'
    BY <2>7 DEF FindManyThrows, Finish, rows
  <2>8. ASSUME NEW r \in Run, PublishThrows(r) PROVE Registers'
    BY <2>8 DEF PublishThrows, Next1, rows
  <2>9. ASSUME NEW r \in Run, UpdateCompletedThrows(r) PROVE Registers'
    BY <2>9 DEF UpdateCompletedThrows, SetCompleted, rows
  <2>10. ASSUME NEW r \in Run, UpdateFailedThrows(r) PROVE Registers'
    BY <2>10 DEF UpdateFailedThrows, SetFailed, Finish, rows
  <2>11. ASSUME NEW p \in Instance, Crash(p) PROVE Registers'
    BY <2>11 DEF Crash, rows
  <2>12. CASE UNCHANGED vars
    BY <2>12 DEF vars, rows, runs
  <2> QED
    BY <2>1, <2>2, <2>3, <2>4, <2>5, <2>6, <2>7, <2>8, <2>9, <2>10, <2>11, <2>12
       DEF Next, Work, Throws
<1> QED
  BY <1>1, <1>2, TypeCorrect, PTL DEF Spec

-----------------------------------------------------------------------------
\* Mutual exclusion by isProcessing: of the timer invocations of one process
\* at most one works at a time, and the flag says whether one does.

THEOREM OneRun == Spec => []OneRunPerProcess
<1>1. Init => OneRunPerProcess
  BY DEF Init, OneRunPerProcess
<1>2. TypeOK /\ OneRunPerProcess /\ [Next]_vars => OneRunPerProcess'
  <2> SUFFICES ASSUME TypeOK, OneRunPerProcess, [Next]_vars PROVE OneRunPerProcess'
    OBVIOUS
  <2> USE DEF TypeOK, OneRunPerProcess
  <2>1. ASSUME NEW r \in Run, CronTick(r) PROVE OneRunPerProcess'
    BY <2>1 DEF CronTick
  <2>2. ASSUME NEW r \in Run, pc[r] # "idle", Finish(r) PROVE OneRunPerProcess'
    BY <2>2 DEF Finish
  <2>3. ASSUME NEW r \in Run, pc[r] # "idle", UNCHANGED isProcessing,
               NEW l \in Stage \ {"idle"}, pc' = [pc EXCEPT ![r] = l]
        PROVE OneRunPerProcess'
    BY <2>3 DEF Stage
  <2>4. ASSUME NEW r \in Run, Work(r) \/ Throws(r) PROVE OneRunPerProcess'
    BY <2>1, <2>2, <2>3, <2>4
       DEF Work, Throws, FindMany, Publish, UpdateCompleted, UpdateFailed, Advance,
           FindManyThrows, PublishThrows, UpdateCompletedThrows, UpdateFailedThrows, Stage
  <2>5. ASSUME NEW p \in Instance, Crash(p) PROVE OneRunPerProcess'
    BY <2>5 DEF Crash
  <2>6. CASE UNCHANGED vars \/ \E e \in Event, t \in Time : SaveEvent(e, t)
    BY <2>6 DEF vars, runs, SaveEvent
  <2> QED
    BY <2>4, <2>5, <2>6 DEF Next
<1> QED
  BY <1>1, <1>2, TypeCorrect, PTL DEF Spec

-----------------------------------------------------------------------------
(* What the steps do to the sets of the contract.                          *)

LEMMA PublishFacts ==
    ASSUME TypeOK, Registers, NEW r \in Run, Publish(r)
    PROVE  \E e \in Next1(batch[r]) :
             /\ e \in Committed
             /\ Delivered' = Delivered \cup {e}
             /\ \A p \in Instance, f \in Event : published'[p][f] =
                  IF p = Host[r] /\ f = e THEN published[p][f] + 1 ELSE published[p][f]
             /\ batch' = [batch EXCEPT ![r] = @ \ {e}]
             /\ current' = [current EXCEPT ![r] = e]
<1>1. PICK e \in Next1(batch[r]) :
        /\ published' = [published EXCEPT ![Host[r]][e] = @ + 1]
        /\ batch' = [batch EXCEPT ![r] = @ \ {e}]
        /\ current' = [current EXCEPT ![r] = e]
  BY DEF Publish
<1>2. e \in Committed
  BY DEF Next1, Registers, TypeOK
<1>3. \A p \in Instance, f \in Event : published'[p][f] =
        IF p = Host[r] /\ f = e THEN published[p][f] + 1 ELSE published[p][f]
  BY <1>1, <1>2 DEF TypeOK
<1>4. Delivered' = Delivered \cup {e}
  <2>1. published[Host[r]][e] + 1 > 0
    BY <1>2 DEF TypeOK
  <2>2. \A p \in Instance, f \in Event : published[p][f] \in Nat
    BY DEF TypeOK
  <2> QED
    BY <1>2, <1>3, <2>1, <2>2 DEF Delivered
<1> QED
  BY <1>1, <1>2, <1>3, <1>4

\* A step that does not touch the counters leaves the sets alone.
LEMMA SameSets ==
    /\ UNCHANGED published => Delivered' = Delivered
    /\ UNCHANGED retryCount => Abandoned' = Abandoned
    /\ UNCHANGED processedAt => Confirmed' = Confirmed
    /\ UNCHANGED status => Committed' = Committed
  BY DEF Delivered, Abandoned, Confirmed

LEMMA SetCompletedFacts ==
    ASSUME TypeOK, NEW e \in Committed, SetCompleted(e)
    PROVE  /\ Confirmed' = Confirmed \cup {e}
           /\ Abandoned' = Abandoned /\ Committed' = Committed
           /\ \A f \in Event : status'[f] = IF f = e THEN "COMPLETED" ELSE status[f]
  BY DEF TypeOK, SetCompleted, Confirmed, Abandoned

LEMMA SetFailedFacts ==
    ASSUME TypeOK, NEW e \in Committed, SetFailed(e)
    PROVE  /\ Abandoned' = Abandoned \cup {e}
           /\ Confirmed' = Confirmed /\ Committed' = Committed
           /\ \A f \in Event : status'[f] = IF f = e THEN "FAILED" ELSE status[f]
  BY DEF TypeOK, SetFailed, Confirmed, Abandoned

LEMMA SettlementHolds == Spec => []Settlement
<1>1. Init => Settlement
  BY DEF Init, Settlement, Delivered, Abandoned, Confirmed
<1>2. TypeOK /\ Registers /\ Settlement /\ [Next]_vars => Settlement'
  <2> SUFFICES ASSUME TypeOK, Registers, Settlement, [Next]_vars PROVE Settlement'
    OBVIOUS
  <2>1. ASSUME NEW e \in Event, NEW t \in Time, SaveEvent(e, t) PROVE Settlement'
    <3>1. Committed' = Committed \cup {e}
      BY <2>1 DEF SaveEvent, TypeOK
    <3>2. /\ Delivered' = Delivered /\ Abandoned' = Abandoned
          /\ Confirmed' = Confirmed
      BY <2>1, SameSets DEF SaveEvent
    <3> QED
      BY <2>1, <3>1, <3>2 DEF SaveEvent, Settlement, TypeOK, runs
  <2>2. ASSUME NEW r \in Run, Publish(r) PROVE Settlement'
    <3>1. PICK e \in Next1(batch[r]) :
            e \in Committed /\ Delivered' = Delivered \cup {e}
            /\ current' = [current EXCEPT ![r] = e]
      BY <2>2, PublishFacts
    <3>2. Abandoned' = Abandoned /\ Confirmed' = Confirmed /\ status' = status
      BY <2>2, SameSets DEF Publish, rows
    <3> QED
      BY <2>2, <3>1, <3>2 DEF Publish, Settlement, TypeOK
  <2>3. ASSUME UNCHANGED <<rows, published>>,
               \A r \in Run : pc'[r] = "complete" =>
                    pc[r] = "complete" /\ current'[r] = current[r]
        PROVE Settlement'
    BY <2>3, SameSets DEF rows, Settlement
  <2>4. ASSUME NEW r \in Run, UNCHANGED published, pc[r] = "complete",
               SetCompleted(current[r]),
               \A s \in Run : pc'[s] = "complete" =>
                    pc[s] = "complete" /\ current'[s] = current[s]
        PROVE Settlement'
    <3>1. current[r] \in Committed /\ current[r] \in Delivered
      BY <2>4 DEF Registers, Settlement
    <3> QED
      BY <2>4, <3>1, SameSets, SetCompletedFacts DEF Settlement
  <2>5. ASSUME NEW r \in Run, UNCHANGED published, pc[r] = "fail",
               SetFailed(current[r]),
               \A s \in Run : pc'[s] = "complete" =>
                    pc[s] = "complete" /\ current'[s] = current[s]
        PROVE Settlement'
    <3>1. current[r] \in Committed
      BY <2>5 DEF Registers
    <3> QED
      BY <2>5, <3>1, SameSets, SetFailedFacts DEF Settlement
  <2>6. ASSUME NEW r \in Run, Work(r) \/ Throws(r) PROVE Settlement'
    <3>1. CASE CronTick(r) \/ FindMany(r) \/ FindManyThrows(r)
      BY <2>3, <3>1 DEF CronTick, FindMany, FindManyThrows, Finish, TypeOK
    <3>2. CASE PublishThrows(r)
      BY <2>3, <3>2 DEF PublishThrows, TypeOK
    <3>3. CASE UpdateCompleted(r)
      BY <2>4, <3>3 DEF UpdateCompleted, Advance, Finish, TypeOK
    <3>4. CASE UpdateCompletedThrows(r)
      BY <2>3, <2>4, <3>4 DEF UpdateCompletedThrows, TypeOK
    <3>5. CASE UpdateFailed(r)
      BY <2>5, <3>5 DEF UpdateFailed, Advance, Finish, TypeOK
    <3>6. CASE UpdateFailedThrows(r)
      BY <2>3, <2>5, <3>6 DEF UpdateFailedThrows, Finish, TypeOK
    <3> QED
      BY <2>2, <2>6, <3>1, <3>2, <3>3, <3>4, <3>5, <3>6 DEF Work, Throws
  <2>7. ASSUME NEW p \in Instance, Crash(p) PROVE Settlement'
    BY <2>3, <2>7 DEF Crash
  <2>8. CASE UNCHANGED vars
    BY <2>3, <2>8 DEF vars, runs
  <2> QED
    BY <2>1, <2>6, <2>7, <2>8 DEF Next
<1> QED
  BY <1>1, <1>2, TypeCorrect, RegistersHold, PTL DEF Spec

\* A COMPLETED row was published, and only committed rows are published.
THEOREM CompletedPublished == Spec => []CompletedWasPublished
<1>1. Settlement => CompletedWasPublished
  BY DEF Settlement, CompletedWasPublished
<1> QED
  BY <1>1, SettlementHolds, PTL

-----------------------------------------------------------------------------
(* The budget of duplicates.                                               *)

\* A fault pays for one more publication of every row.
LEMMA FaultPays ==
    ASSUME TypeOK, Budget, NEW p \in Instance, Fault(p), UNCHANGED published,
           \A e \in Event : status'[e] = "PENDING" => status[e] = "PENDING",
           \A r \in Run : Host[r] # p =>
               batch'[r] = batch[r] /\ pc'[r] = pc[r] /\ current'[r] = current[r]
    PROVE  Budget'
<1>1. /\ faults'[p] = faults[p] + 1
      /\ \A q \in Instance : faults'[q] \in Nat /\ faults[q] \in Nat
      /\ \A q \in Instance \ {p} : faults'[q] = faults[q]
  BY DEF Fault, TypeOK
<1>2. \A q \in Instance, e \in Event : published'[q][e] = published[q][e]
                                       /\ published[q][e] \in Nat
  BY DEF TypeOK
<1>3. \A e \in Event : published'[p][e] <= faults'[p] /\ published'[p][e] <= faults'[p] + 1
  BY <1>1, <1>2 DEF Budget
<1>4. ASSUME NEW q \in Instance \ {p}, NEW e \in Event
      PROVE  /\ published'[q][e] <= faults'[q] + 1
             /\ (\E r \in Run : Host[r] = q /\ e \in batch'[r])
                    => published'[q][e] <= faults'[q]
             /\ (/\ status'[e] = "PENDING"
                 /\ \A r \in Run :
                     Host[r] = q /\ pc'[r] \in {"complete", "fail"} => current'[r] # e)
                    => published'[q][e] <= faults'[q]
  <2>1. /\ published'[q][e] = published[q][e] /\ faults'[q] = faults[q]
        /\ \A r \in Run : Host[r] = q =>
               batch'[r] = batch[r] /\ pc'[r] = pc[r] /\ current'[r] = current[r]
        /\ status'[e] = "PENDING" => status[e] = "PENDING"
    BY <1>1, <1>2
  <2> QED
    BY <2>1 DEF Budget
<1> QED
  BY <1>3, <1>4 DEF Budget

\* A step without publication or fault keeps the budget when no row becomes
\* PENDING or held, and an invocation leaves no row PENDING behind.
LEMMA QuietStep ==
    ASSUME Budget, UNCHANGED <<published, faults>>,
           \A e \in Event : status'[e] = "PENDING" => status[e] = "PENDING",
           \A r \in Run : batch'[r] \subseteq batch[r],
           \A r \in Run : pc[r] \in {"complete", "fail"} =>
               \/ pc'[r] \in {"complete", "fail"} /\ current'[r] = current[r]
               \/ current[r] \in Event => status'[current[r]] # "PENDING"
    PROVE  Budget'
  BY DEF Budget

LEMMA BudgetHolds == Spec => []Budget
<1>1. Init => Budget
  BY MaxFaultAssumption DEF Init, Budget
<1>2. TypeOK /\ Registers /\ Settlement /\ OneRunPerProcess /\ Budget /\ [Next]_vars
        => Budget'
  <2> SUFFICES ASSUME TypeOK, Registers, Settlement, OneRunPerProcess, Budget,
                      [Next]_vars
               PROVE Budget'
    OBVIOUS
  <2>1. ASSUME NEW e \in Event, NEW t \in Time, SaveEvent(e, t) PROVE Budget'
    <3>1. \A p \in Instance : published[p][e] = 0 /\ faults[p] \in Nat
      BY <2>1 DEF SaveEvent, Settlement, Delivered, TypeOK
    <3>2. \A f \in Event \ {e} : status'[f] = status[f]
      BY <2>1 DEF SaveEvent, TypeOK
    <3> QED
      BY <2>1, <3>1, <3>2 DEF SaveEvent, Budget, runs
  <2>2. ASSUME NEW r \in Run, CronTick(r) PROVE Budget'
    BY <2>2, QuietStep DEF CronTick, rows, TypeOK
  <2>3. ASSUME NEW r \in Run, FindMany(r) PROVE Budget'
    <3>1. CASE Finish(r)
      BY <2>3, <3>1, QuietStep DEF FindMany, Finish, rows, TypeOK
    <3>2. ASSUME NEW S \in Fetched, batch' = [batch EXCEPT ![r] = S],
                 pc' = [pc EXCEPT ![r] = "loop"], UNCHANGED <<isProcessing, current>>
          PROVE  Budget'
      <4>1. S \subseteq Pending
        BY FetchedRows
      <4>2. \A e \in S : published[Host[r]][e] <= faults[Host[r]]
        BY <2>3, <4>1 DEF FindMany, Budget, OneRunPerProcess, Pending
      <4>3. \A s \in Run : s # r => batch'[s] = batch[s] /\ pc'[s] = pc[s]
        BY <3>2 DEF TypeOK
      <4>4. batch'[r] = S /\ pc'[r] = "loop" /\ pc[r] = "findMany"
        BY <2>3, <3>2 DEF TypeOK, FindMany
      <4> QED
        BY <2>3, <3>2, <4>2, <4>3, <4>4 DEF FindMany, Budget, rows
    <3> QED
      BY <2>3, <3>1, <3>2 DEF FindMany
  <2>4. ASSUME NEW r \in Run, Publish(r) PROVE Budget'
    <3>1. PICK e \in Next1(batch[r]) :
            /\ \A p \in Instance, f \in Event : published'[p][f] =
                  IF p = Host[r] /\ f = e THEN published[p][f] + 1 ELSE published[p][f]
            /\ batch' = [batch EXCEPT ![r] = @ \ {e}]
            /\ current' = [current EXCEPT ![r] = e]
      BY <2>4, PublishFacts
    <3>2. /\ pc[r] = "loop" /\ pc'[r] = "complete" /\ current'[r] = e
          /\ batch'[r] = batch[r] \ {e} /\ e \in batch[r] /\ e \in Event
          /\ \A s \in Run : s # r =>
               batch'[s] = batch[s] /\ pc'[s] = pc[s] /\ current'[s] = current[s]
          /\ UNCHANGED <<status, faults>>
      BY <2>4, <3>1 DEF Publish, Next1, TypeOK, rows
    <3>3. \A s \in Run : Host[s] = Host[r] => e \notin batch'[s]
      BY <3>2 DEF OneRunPerProcess, Registers
    <3>4. /\ published[Host[r]][e] <= faults[Host[r]]
          /\ published[Host[r]][e] \in Nat /\ faults[Host[r]] \in Nat
      BY <3>2 DEF Budget, TypeOK
    <3>5. ASSUME NEW p \in Instance, NEW f \in Event
          PROVE  /\ published'[p][f] <= faults'[p] + 1
                 /\ (\E s \in Run : Host[s] = p /\ f \in batch'[s])
                        => published'[p][f] <= faults'[p]
                 /\ (/\ status'[f] = "PENDING"
                     /\ \A s \in Run :
                         Host[s] = p /\ pc'[s] \in {"complete", "fail"} => current'[s] # f)
                        => published'[p][f] <= faults'[p]
      <4>1. CASE p = Host[r] /\ f = e
        BY <3>1, <3>2, <3>3, <3>4, <4>1
      <4>2. CASE ~(p = Host[r] /\ f = e)
        <5>1. published'[p][f] = published[p][f] /\ faults'[p] = faults[p]
          BY <3>1, <3>2, <4>2
        <5>2. \A s \in Run : batch'[s] \subseteq batch[s]
          BY <3>2
        <5>3. \A s \in Run : Host[s] = p /\ pc[s] \in {"complete", "fail"} =>
                pc'[s] \in {"complete", "fail"} /\ current'[s] = current[s]
          BY <3>2
        <5> QED
          BY <3>2, <5>1, <5>2, <5>3 DEF Budget
      <4> QED
        BY <4>1, <4>2
    <3> QED
      BY <3>5 DEF Budget
  <2>5. ASSUME NEW r \in Run, UpdateCompleted(r) PROVE Budget'
    BY <2>5, QuietStep DEF UpdateCompleted, SetCompleted, Advance, Finish, TypeOK
  <2>6. ASSUME NEW r \in Run, UpdateFailed(r) PROVE Budget'
    BY <2>6, QuietStep DEF UpdateFailed, SetFailed, Advance, Finish, TypeOK
  <2>7. ASSUME NEW r \in Run, Throws(r) PROVE Budget'
    <3>1. Fault(Host[r]) /\ UNCHANGED published /\ Host[r] \in Instance
      BY <2>7 DEF Throws, FindManyThrows, PublishThrows, UpdateCompletedThrows,
                  UpdateFailedThrows, rows
    <3>2. \A e \in Event : status'[e] = "PENDING" => status[e] = "PENDING"
      BY <2>7 DEF Throws, FindManyThrows, PublishThrows, UpdateCompletedThrows,
                  UpdateFailedThrows, SetCompleted, SetFailed, rows, TypeOK
    <3>3. \A s \in Run : s # r =>
            batch'[s] = batch[s] /\ pc'[s] = pc[s] /\ current'[s] = current[s]
      BY <2>7 DEF Throws, FindManyThrows, PublishThrows, UpdateCompletedThrows,
                  UpdateFailedThrows, Finish, TypeOK
    <3> QED
      BY <3>1, <3>2, <3>3, FaultPays
  <2>8. ASSUME NEW p \in Instance, Crash(p) PROVE Budget'
    BY <2>8, FaultPays DEF Crash, rows
  <2>9. CASE UNCHANGED vars
    BY <2>9, QuietStep DEF vars, rows, runs
  <2> QED
    BY <2>1, <2>2, <2>3, <2>4, <2>5, <2>6, <2>7, <2>8, <2>9 DEF Next, Work
<1> QED
  BY <1>1, <1>2, TypeCorrect, RegistersHold, SettlementHolds, OneRun, PTL DEF Spec

\* A process publishes a row at most once more than it was hit by faults.
THEOREM DuplicatesBounded == Spec => []BoundedDuplicates
<1>1. Budget => BoundedDuplicates
  BY DEF Budget, BoundedDuplicates
<1> QED
  BY <1>1, BudgetHolds, PTL

-----------------------------------------------------------------------------
(* The order of publication.                                               *)

\* A step that publishes, commits and fetches nothing keeps the order when a
\* row leaves "fail" only by being abandoned.
LEMMA OrderKept ==
    ASSUME Order, UNCHANGED <<before, createdAt, published>>,
           Committed' = Committed, Abandoned \subseteq Abandoned',
           \A r \in Run :
               \/ batch'[r] = {}
               \/ /\ batch'[r] = batch[r]
                  /\ pc[r] = "fail" =>
                       \/ pc'[r] = "fail" /\ current'[r] = current[r]
                       \/ current[r] \in Abandoned'
    PROVE  Order'
<1>1. Delivered' = Delivered
  BY SameSets
<1> QED
  BY <1>1 DEF Order, NoOvertaking

LEMMA OrderHolds == Spec => []Order
<1>1. Init => Order
  BY DEF Init, Order, NoOvertaking, Delivered
<1>2. TypeOK /\ Registers /\ Settlement /\ Order /\ [Next]_vars => Order'
  <2> SUFFICES ASSUME TypeOK, Registers, Settlement, Order, [Next]_vars PROVE Order'
    OBVIOUS
  <2>1. ASSUME NEW e \in Event, NEW t \in Time, SaveEvent(e, t) PROVE Order'
    <3>1. e \notin Committed /\ e \notin Delivered /\ \A r \in Run : e \notin batch[r]
      BY <2>1 DEF SaveEvent, Settlement, Registers
    <3>2. /\ Committed' = Committed \cup {e}
          /\ before'[e] = {f \in Event : status[f] # "none" /\ createdAt[f] < t}
          /\ createdAt'[e] = t
          /\ \A f \in Event \ {e} : before'[f] = before[f] /\ createdAt'[f] = createdAt[f]
      BY <2>1 DEF SaveEvent, TypeOK
    <3>3. Delivered' = Delivered /\ Abandoned' = Abandoned
      BY <2>1, SameSets DEF SaveEvent
    <3>4. \A g \in Event : \A f \in before'[g] :
            f \in Committed' /\ (g \in Committed' => createdAt'[f] < createdAt'[g])
      <4>1. ASSUME NEW f \in before'[e] PROVE f \in Committed' /\ createdAt'[f] < createdAt'[e]
        BY <3>1, <3>2, <4>1
      <4>2. ASSUME NEW g \in Event \ {e}, NEW f \in before'[g]
            PROVE  f \in Committed' /\ (g \in Committed' => createdAt'[f] < createdAt'[g])
        BY <3>1, <3>2, <4>2 DEF Order, TypeOK
      <4> QED
        BY <4>1, <4>2
    <3> QED
      <4>1. \A s \in Run : batch'[s] = batch[s] /\ pc'[s] = pc[s] /\ current'[s] = current[s]
        BY <2>1 DEF SaveEvent, runs
      <4>2. \A g \in Delivered' : before'[g] \subseteq Delivered' \cup Abandoned'
        BY <3>1, <3>2, <3>3 DEF Order, NoOvertaking, Settlement
      <4>3. \A s \in Run : \A g \in batch'[s] : before'[g] = before[g]
        BY <3>1, <3>2, <4>1 DEF TypeOK
      <4> QED
        BY <3>3, <3>4, <4>1, <4>2, <4>3 DEF Order, NoOvertaking
  <2>2. ASSUME NEW r \in Run, FindMany(r) PROVE Order'
    <3>1. CASE Finish(r)
      BY <2>2, <3>1, OrderKept, SameSets DEF FindMany, Finish, rows, TypeOK
    <3>2. ASSUME NEW S \in Fetched, batch' = [batch EXCEPT ![r] = S],
                 pc' = [pc EXCEPT ![r] = "loop"], UNCHANGED <<isProcessing, current>>
          PROVE  Order'
      <4>1. ASSUME NEW e \in S, NEW f \in before[e]
            PROVE  f \in S \cup Delivered \cup Abandoned
        <5>1. e \in Committed /\ f \in Committed /\ createdAt[f] < createdAt[e]
          BY FetchedRows DEF Pending, Order, TypeOK
        <5>2. CASE f \in Pending
          BY <5>1, <5>2, FetchedRows DEF TypeOK
        <5>3. CASE f \notin Pending
          BY <5>1, <5>3 DEF Pending, Settlement, TypeOK, Status
        <5> QED
          BY <5>2, <5>3
      <4>2. Committed' = Committed /\ Delivered' = Delivered /\ Abandoned' = Abandoned
            /\ UNCHANGED <<before, createdAt>>
        BY <2>2, SameSets DEF FindMany, rows
      <4>3. /\ batch'[r] = S
            /\ \A s \in Run : s # r =>
                 batch'[s] = batch[s] /\ pc'[s] = pc[s] /\ current'[s] = current[s]
        BY <3>2 DEF TypeOK
      <4> QED
        BY <4>1, <4>2, <4>3 DEF Order, NoOvertaking
    <3> QED
      BY <2>2, <3>1, <3>2 DEF FindMany
  <2>3. ASSUME NEW r \in Run, Publish(r) PROVE Order'
    <3>1. PICK e \in Next1(batch[r]) :
            /\ e \in Committed
            /\ Delivered' = Delivered \cup {e}
            /\ batch' = [batch EXCEPT ![r] = @ \ {e}]
      BY <2>3, PublishFacts
    <3>2. /\ Abandoned' = Abandoned /\ Committed' = Committed /\ pc[r] = "loop"
          /\ UNCHANGED <<before, createdAt>>
      BY <2>3, SameSets DEF Publish, rows
    <3>3. before[e] \subseteq Delivered \cup Abandoned
      BY <3>1, <3>2 DEF Next1, Order, TypeOK
    <3>4. /\ batch'[r] = batch[r] \ {e}
          /\ \A s \in Run : s # r =>
               batch'[s] = batch[s] /\ pc'[s] = pc[s] /\ current'[s] = current[s]
      BY <2>3, <3>1 DEF Publish, TypeOK
    <3> QED
      BY <3>1, <3>2, <3>3, <3>4 DEF Order, NoOvertaking
  <2>4. ASSUME NEW r \in Run, PublishThrows(r) PROVE Order'
    <3>1. PICK e \in Next1(batch[r]) :
            batch' = [batch EXCEPT ![r] = @ \ {e}] /\ current' = [current EXCEPT ![r] = e]
      BY <2>4 DEF PublishThrows
    <3>2. /\ Abandoned' = Abandoned /\ Committed' = Committed /\ Delivered' = Delivered
          /\ pc[r] = "loop" /\ pc'[r] = "fail" /\ UNCHANGED <<before, createdAt>>
      BY <2>4, SameSets DEF PublishThrows, rows, TypeOK
    <3>3. /\ batch'[r] = batch[r] \ {e} /\ current'[r] = e
          /\ \A s \in Run : s # r =>
               batch'[s] = batch[s] /\ pc'[s] = pc[s] /\ current'[s] = current[s]
      BY <2>4, <3>1 DEF PublishThrows, TypeOK
    <3> QED
      BY <3>2, <3>3 DEF Order, NoOvertaking
  <2>5. ASSUME NEW r \in Run, CronTick(r) \/ FindManyThrows(r) PROVE Order'
    BY <2>5, OrderKept, SameSets DEF CronTick, FindManyThrows, Finish, rows, TypeOK
  <2>6. ASSUME NEW r \in Run, UpdateCompleted(r) \/ UpdateCompletedThrows(r) PROVE Order'
    <3>1. /\ Committed' = Committed /\ Abandoned' = Abandoned
          /\ UNCHANGED <<before, createdAt, published>>
      BY <2>6, SameSets, SetCompletedFacts
         DEF UpdateCompleted, UpdateCompletedThrows, SetCompleted, Registers, rows
    <3> QED
      BY <2>6, <3>1, OrderKept DEF UpdateCompleted, UpdateCompletedThrows, Advance, Finish, TypeOK
  <2>7. ASSUME NEW r \in Run, UpdateFailed(r) PROVE Order'
    <3>1. /\ Committed' = Committed /\ Abandoned' = Abandoned \cup {current[r]}
          /\ UNCHANGED <<before, createdAt, published>>
      BY <2>7, SetFailedFacts DEF UpdateFailed, SetFailed, Registers
    <3> QED
      BY <2>7, <3>1, OrderKept DEF UpdateFailed, Advance, Finish, TypeOK
  <2>8. ASSUME NEW r \in Run, UpdateFailedThrows(r) PROVE Order'
    <3>1. /\ Committed' = Committed /\ Abandoned \subseteq Abandoned'
          /\ UNCHANGED <<before, createdAt, published>>
      BY <2>8, SameSets, SetFailedFacts DEF UpdateFailedThrows, SetFailed, Registers, rows
    <3> QED
      BY <2>8, <3>1, OrderKept DEF UpdateFailedThrows, Finish, TypeOK
  <2>9. ASSUME NEW p \in Instance, Crash(p) PROVE Order'
    BY <2>9, OrderKept, SameSets DEF Crash, rows, TypeOK
  <2>10. CASE UNCHANGED vars
    BY <2>10, OrderKept, SameSets DEF vars, rows, runs
  <2> QED
    BY <2>1, <2>2, <2>3, <2>4, <2>5, <2>6, <2>7, <2>8, <2>9, <2>10
       DEF Next, Work, Throws
<1> QED
  BY <1>1, <1>2, TypeCorrect, RegistersHold, SettlementHolds, PTL DEF Spec

\* An event never overtakes an older one that was committed before it, unless
\* that one was recorded FAILED, for any number of processes and any crashes.
THEOREM NothingOvertakes == Spec => []NoOvertaking
<1>1. Order => NoOvertaking
  BY DEF Order
<1> QED
  BY <1>1, OrderHolds, PTL

-----------------------------------------------------------------------------
\* A row that was settled and is held by no invocation stays so and is not
\* published again.

THEOREM RetiredForGood == Spec => RetiredRowsStayRetired
<1>1. ASSUME TypeOK, [Next]_vars, NEW e \in Event, Retired(e)
      PROVE  Retired(e)' /\ \A p \in Instance : published'[p][e] = published[p][e]
  <2> USE DEF TypeOK
  <2> DEFINE Goal == Retired(e)' /\ \A p \in Instance : published'[p][e] = published[p][e]
  <2>1. \A r \in Run : e \notin batch[r] /\ (pc[r] \in {"complete", "fail"} => current[r] # e)
    BY <1>1 DEF Retired
  <2>2. ASSUME UNCHANGED published, status'[e] \in {"COMPLETED", "FAILED"},
               \A r \in Run : /\ e \notin batch'[r]
                              /\ pc'[r] \in {"complete", "fail"} => current'[r] # e
        PROVE  Goal
    BY <2>2 DEF Retired
  <2>3. ASSUME NEW f \in Event, NEW t \in Time, SaveEvent(f, t) PROVE Goal
    BY <1>1, <2>1, <2>2, <2>3 DEF SaveEvent, runs, Retired
  <2>4. ASSUME NEW r \in Run, FindMany(r) PROVE Goal
    <3>1. e \notin Pending
      BY <1>1 DEF Retired, Pending
    <3> QED
      BY <1>1, <2>1, <2>2, <2>4, <3>1, FetchedRows DEF FindMany, Finish, rows, Retired
  <2>5. ASSUME NEW r \in Run, Publish(r) PROVE Goal
    <3>1. PICK f \in batch[r] :
            /\ published' = [published EXCEPT ![Host[r]][f] = @ + 1]
            /\ batch' = [batch EXCEPT ![r] = @ \ {f}]
            /\ current' = [current EXCEPT ![r] = f]
      BY <2>5 DEF Publish, Next1
    <3>2. f # e /\ status' = status
      BY <2>1, <2>5 DEF Publish, rows
    <3>3. \A p \in Instance : published'[p][e] = published[p][e]
      BY <3>1, <3>2
    <3>4. \A s \in Run : e \notin batch'[s] /\ (pc'[s] \in {"complete", "fail"} => current'[s] # e)
      BY <1>1, <2>1, <2>5, <3>1, <3>2 DEF Publish
    <3> QED
      BY <1>1, <3>2, <3>3, <3>4 DEF Retired
  <2>6. ASSUME NEW r \in Run, CronTick(r) \/ FindManyThrows(r) \/ PublishThrows(r) PROVE Goal
    <3>1. CASE CronTick(r) \/ FindManyThrows(r)
      BY <1>1, <2>1, <2>2, <3>1 DEF CronTick, FindManyThrows, Finish, rows, Retired
    <3>2. CASE PublishThrows(r)
      <4>1. PICK f \in batch[r] :
              batch' = [batch EXCEPT ![r] = @ \ {f}] /\ current' = [current EXCEPT ![r] = f]
        BY <3>2 DEF PublishThrows, Next1
      <4>2. f # e /\ status' = status /\ published' = published
        BY <2>1, <3>2 DEF PublishThrows, rows
      <4> QED
        BY <1>1, <2>1, <2>2, <3>2, <4>1, <4>2 DEF PublishThrows, Retired
    <3> QED
      BY <2>6, <3>1, <3>2
  <2>7. ASSUME NEW r \in Run, UpdateCompleted(r) \/ UpdateCompletedThrows(r) PROVE Goal
    <3>1. /\ status'[e] \in {"COMPLETED", "FAILED"}
      BY <1>1, <2>7 DEF UpdateCompleted, UpdateCompletedThrows, SetCompleted, rows, Retired
    <3> QED
      BY <1>1, <2>1, <2>2, <2>7, <3>1 DEF UpdateCompleted, UpdateCompletedThrows, Advance, Finish
  <2>8. ASSUME NEW r \in Run, UpdateFailed(r) \/ UpdateFailedThrows(r) PROVE Goal
    <3>1. /\ status'[e] \in {"COMPLETED", "FAILED"}
      BY <1>1, <2>8 DEF UpdateFailed, UpdateFailedThrows, SetFailed, rows, Retired
    <3> QED
      BY <1>1, <2>1, <2>2, <2>8, <3>1 DEF UpdateFailed, UpdateFailedThrows, Advance, Finish
  <2>9. ASSUME NEW p \in Instance, Crash(p) PROVE Goal
    BY <1>1, <2>1, <2>2, <2>9 DEF Crash, rows, Retired
  <2>10. CASE UNCHANGED vars
    BY <1>1, <2>1, <2>2, <2>10 DEF vars, rows, runs, Retired
  <2> QED
    BY <1>1, <2>3, <2>4, <2>5, <2>6, <2>7, <2>8, <2>9, <2>10 DEF Next, Work, Throws
<1>2. TypeOK /\ [Next]_vars =>
        [\A e \in Event : Retired(e) =>
            /\ Retired(e)'
            /\ \A p \in Instance : published'[p][e] = published[p][e]]_vars
  BY <1>1
<1> QED
  BY <1>2, TypeCorrect, PTL DEF Spec, RetiredRowsStayRetired

-----------------------------------------------------------------------------
(* Outbox implements the safety part of its contract.                      *)

\* A step that delivers, confirms, abandons and commits nothing is a stutter.
LEMMA Stutter ==
    ASSUME UNCHANGED <<rows, before, published>>
    PROVE  UNCHANGED Contract!vars
  BY SameSets DEF rows, Contract!vars

\* Every step of the processes is a step of the contract or a stutter.
THEOREM ImplementsContract == Spec => ContractSpec
<1>1. Init => Contract!Init
  BY DEF Init, Contract!Init, Delivered, Confirmed, Abandoned
<1>2. TypeOK /\ Registers /\ Settlement /\ Order /\ [Next]_vars
        => [Contract!Next]_(Contract!vars)
  <2> SUFFICES ASSUME TypeOK, Registers, Settlement, Order, [Next]_vars
               PROVE  Contract!Next \/ UNCHANGED Contract!vars
    OBVIOUS
  <2>1. ASSUME NEW e \in Event, NEW t \in Time, SaveEvent(e, t) PROVE Contract!Next
    <3>1. e \notin Committed /\ Committed' = Committed \cup {e}
      BY <2>1 DEF SaveEvent, TypeOK
    <3>2. before' = [before EXCEPT ![e] = {f \in Committed : createdAt[f] < t}]
      BY <2>1 DEF SaveEvent
    <3>3. Delivered' = Delivered /\ Abandoned' = Abandoned /\ Confirmed' = Confirmed
      BY <2>1, SameSets DEF SaveEvent
    <3>4. Contract!Accept(e)
      BY <3>1, <3>2, <3>3 DEF Contract!Accept
    <3> QED
      BY <3>4 DEF Contract!Next
  <2>2. ASSUME NEW r \in Run, Publish(r) PROVE Contract!Next
    <3>1. PICK e \in Committed : e \in Next1(batch[r]) /\ Delivered' = Delivered \cup {e}
      BY <2>2, PublishFacts
    <3>2. /\ Committed' = Committed /\ Confirmed' = Confirmed /\ Abandoned' = Abandoned
          /\ before' = before /\ pc[r] = "loop"
      BY <2>2, SameSets DEF Publish, rows
    <3>3. before[e] \subseteq Delivered \cup Abandoned
      BY <3>1, <3>2 DEF Next1, Order, TypeOK
    <3>4. Contract!Deliver(e)
      BY <3>1, <3>2, <3>3 DEF Contract!Deliver
    <3> QED
      BY <3>4 DEF Contract!Next
  <2>3. ASSUME NEW r \in Run, pc[r] = "complete", SetCompleted(current[r]),
               UNCHANGED <<before, published>>
        PROVE  Contract!Next
    <3>1. current[r] \in Committed /\ current[r] \in Delivered
      BY <2>3 DEF Registers, Settlement
    <3>2. Contract!Confirm(current[r])
      BY <2>3, <3>1, SameSets, SetCompletedFacts DEF Contract!Confirm
    <3> QED
      BY <3>1, <3>2 DEF Contract!Next
  <2>4. ASSUME NEW r \in Run, pc[r] = "fail", SetFailed(current[r]),
               UNCHANGED <<before, published>>
        PROVE  Contract!Next
    <3>1. current[r] \in Committed
      BY <2>4 DEF Registers
    <3>2. Contract!Abandon(current[r])
      BY <2>4, <3>1, SameSets, SetFailedFacts DEF Contract!Abandon
    <3> QED
      BY <3>1, <3>2 DEF Contract!Next
  <2>5. ASSUME NEW r \in Run,
               CronTick(r) \/ FindMany(r) \/ FindManyThrows(r) \/ PublishThrows(r)
        PROVE  UNCHANGED Contract!vars
    BY <2>5, Stutter DEF CronTick, FindMany, FindManyThrows, PublishThrows
  <2>6. ASSUME NEW r \in Run, UpdateCompleted(r) \/ UpdateCompletedThrows(r)
        PROVE  Contract!Next \/ UNCHANGED Contract!vars
    BY <2>3, <2>6, Stutter DEF UpdateCompleted, UpdateCompletedThrows
  <2>7. ASSUME NEW r \in Run, UpdateFailed(r) \/ UpdateFailedThrows(r)
        PROVE  Contract!Next \/ UNCHANGED Contract!vars
    BY <2>4, <2>7, Stutter DEF UpdateFailed, UpdateFailedThrows
  <2>8. ASSUME NEW p \in Instance, Crash(p) PROVE UNCHANGED Contract!vars
    BY <2>8, Stutter DEF Crash
  <2>9. CASE UNCHANGED vars
    BY <2>9, Stutter DEF vars
  <2> QED
    BY <2>1, <2>2, <2>5, <2>6, <2>7, <2>8, <2>9 DEF Next, Work, Throws
<1> QED
  BY <1>1, <1>2, TypeCorrect, RegistersHold, SettlementHolds, OrderHolds, PTL
     DEF Spec, ContractSpec, Contract!Spec

-----------------------------------------------------------------------------
(* The handlers that events are delivered to: marks and calls.             *)

USE NoIdAssumption, EventOfAssumption, ConsumerOfAssumption, MaxErrorAssumption, CallAssumption

\* A call that inserts a mark or deletes one has an eventId.
MarksHaveIds == \A k \in Call : at[k] \in {"create", "delete"} => EventOf[k] \in EventId

\* The business logic does not run in a call whose insert failed.
UnmarkedSkip == \A k \in unmarked : at[k] \in {"delete", "failed", "undeleted", "dead"}

CallsTyped == HandlerTypeOK /\ MarksHaveIds /\ UnmarkedSkip

\* Every state of every behaviour has the types, marks have eventIds, and a call
\* whose insert failed does no more than delete.
LEMMA CallsTypedHold == HandlerSpec => []CallsTyped
<1>1. HandlerInit => CallsTyped
  BY DEF HandlerInit, CallsTyped, HandlerTypeOK, MarksHaveIds, UnmarkedSkip, HandlerStage
<1>2. CallsTyped /\ [HandlerNext]_handlerVars => CallsTyped'
  <2> SUFFICES ASSUME CallsTyped, [HandlerNext]_handlerVars PROVE CallsTyped'
    OBVIOUS
  <2> USE DEF CallsTyped, HandlerTypeOK, MarksHaveIds, UnmarkedSkip, HandlerStage, Goto
  <2>1. CASE UNCHANGED handlerVars
    BY <2>1 DEF handlerVars
  <2>2. ASSUME NEW k \in Call, Handle(k) PROVE CallsTyped'
    BY <2>2 DEF Handle
  <2>3. ASSUME NEW k \in Call, CreateMark(k) PROVE CallsTyped'
    BY <2>3 DEF CreateMark, Key
  <2>4. ASSUME NEW k \in Call, CreateConflicts(k) PROVE CallsTyped'
    BY <2>4 DEF CreateConflicts
  <2>5. ASSUME NEW k \in Call, CreateThrows(k) PROVE CallsTyped'
    BY <2>5 DEF CreateThrows, Key, Error
  <2>6. ASSUME NEW k \in Call, Process(k) PROVE CallsTyped'
    BY <2>6 DEF Process
  <2>7. ASSUME NEW k \in Call, ProcessThrows(k) PROVE CallsTyped'
    BY <2>7 DEF ProcessThrows, Error, Interrupted
  <2>8. ASSUME NEW k \in Call, ProcessConflicts(k) PROVE CallsTyped'
    BY <2>8 DEF ProcessConflicts, Error, Interrupted
  <2>9. ASSUME NEW k \in Call, DeleteMark(k) PROVE CallsTyped'
    BY <2>9 DEF DeleteMark
  <2>10. ASSUME NEW k \in Call, DeleteThrows(k) PROVE CallsTyped'
    BY <2>10 DEF DeleteThrows, Error
  <2>11. ASSUME NEW k \in Call, Die(k) PROVE CallsTyped'
    BY <2>11 DEF Die, Error, Interrupted
  <2> QED BY <2>1, <2>2, <2>3, <2>4, <2>5, <2>6, <2>7, <2>8, <2>9, <2>10, <2>11 DEF HandlerNext, Step
<1> QED BY <1>1, <1>2, PTL DEF HandlerSpec

\* Every state of every behaviour has the types that the model declares.
THEOREM HandlerTypeCorrect == HandlerSpec => []HandlerTypeOK
<1>1. CallsTyped => HandlerTypeOK
  BY DEF CallsTyped
<1> QED BY <1>1, CallsTypedHold, PTL

-----------------------------------------------------------------------------
(* Counting the calls.                                                     *)

\* the calls that had an effect or may still have one under their mark
Claimed ==
    effect \cup {k \in Call : at[k] = "process" \/ (at[k] = "delete" /\ k \notin unmarked)}

Claims(e, c) == CallsOf(e, c, Claimed)

Retries(e, c) == CallsOf(e, c, Retried)

HasMark(e, c) == IF <<e, c>> \in mark THEN 1 ELSE 0

\* One call has its claim for the mark that is there, and one more for each call
\* that deleted the mark although another, or itself, had an effect under it.
Accounted ==
    \A e \in EventId, c \in Consumer :
        Cardinality(Claims(e, c)) <= HasMark(e, c) + Cardinality(Retries(e, c))

\* Sets of calls have a size.
LEMMA CallSizes == ASSUME NEW S \in SUBSET Call PROVE IsFiniteSet(S) /\ Cardinality(S) \in Nat
BY FS_Subset, FS_CardinalityType

\* A set of calls within another is not larger.
LEMMA SmallerCalls ==
    ASSUME NEW T \in SUBSET Call, NEW S, S \subseteq T
    PROVE Cardinality(S) \in Nat /\ Cardinality(T) \in Nat /\ Cardinality(S) <= Cardinality(T)
BY CallSizes, FS_Subset, FS_CardinalityType

\* A set of calls that takes in at most one call more.
LEMMA OneMore ==
    ASSUME NEW S \in SUBSET Call, NEW k \in Call, NEW T, T \subseteq S \cup {k}
    PROVE Cardinality(S) \in Nat /\ Cardinality(T) \in Nat /\ Cardinality(T) <= Cardinality(S) + 1
<1> DEFINE U == S \cup {k}
<1>1. Cardinality(S) \in Nat /\ Cardinality(U) \in Nat
  BY CallSizes
<1>2. Cardinality(U) <= Cardinality(S) + 1
  <2>1. CASE k \in S
    <3>1. U = S
      BY <2>1
    <3>2. Cardinality(U) = Cardinality(S)
      BY <3>1, Zenon
    <3> QED BY <1>1, <3>2
  <2>2. CASE k \notin S
    BY <1>1, <2>2, CallSizes, FS_AddElement
  <2> QED BY <2>1, <2>2
<1>3. Cardinality(T) \in Nat /\ Cardinality(T) <= Cardinality(U)
  BY SmallerCalls
<1> QED BY <1>1, <1>2, <1>3

\* Taking a call out of a set of calls.
LEMMA OneLess ==
    ASSUME NEW S \in SUBSET Call, NEW k \in Call, NEW T, T = S \ {k}
    PROVE /\ Cardinality(T) \in Nat /\ Cardinality(T) <= Cardinality(S)
          /\ k \in S => Cardinality(T) = Cardinality(S) - 1
<1>1. Cardinality(S) \in Nat /\ Cardinality(T) \in Nat
  BY CallSizes
<1>2. CASE k \notin S
  <2>1. T = S
    BY <1>2
  <2>2. Cardinality(T) = Cardinality(S)
    BY <2>1, Zenon
  <2> QED BY <1>1, <1>2, <2>2
<1>3. CASE k \in S
  <2>1. Cardinality(S \ {k}) = Cardinality(S) - 1
    BY <1>3, CallSizes, FS_RemoveElement
  <2>2. Cardinality(T) = Cardinality(S) - 1
    BY <2>1, Zenon
  <2> QED BY <1>1, <2>2
<1> QED BY <1>2, <1>3

\* The sets of calls that are counted.
LEMMA ClaimSets ==
    ASSUME HandlerTypeOK, HandlerTypeOK', NEW e, NEW c
    PROVE /\ Claims(e, c) = {l \in Claimed : Key(l) = <<e, c>>}
          /\ Claims(e, c)' = {l \in Claimed' : Key(l) = <<e, c>>}
          /\ Retries(e, c) = {l \in Retried : Key(l) = <<e, c>>}
          /\ Retries(e, c)' = {l \in Retried' : Key(l) = <<e, c>>}
          /\ Claims(e, c) \in SUBSET Call /\ Claims(e, c)' \in SUBSET Call
          /\ Retries(e, c) \in SUBSET Call /\ Retries(e, c)' \in SUBSET Call
BY DEF Claims, Retries, CallsOf, Claimed, Retried, HandlerTypeOK, Key

\* A step that takes no mark away and by which no call of an event gets a claim.
LEMMA QuietCall ==
    ASSUME HandlerTypeOK, HandlerTypeOK', Accounted, mark \subseteq mark', Retried \subseteq Retried',
           \A l \in Claimed' : l \in Claimed \/ EventOf[l] = NoId
    PROVE Accounted'
<1> SUFFICES ASSUME NEW e \in EventId, NEW c \in Consumer
             PROVE Cardinality(Claims(e, c)') <= HasMark(e, c)' + Cardinality(Retries(e, c)')
  BY DEF Accounted
<1>1. /\ Claims(e, c)' \subseteq Claims(e, c) /\ Claims(e, c) \in SUBSET Call
      /\ Retries(e, c) \subseteq Retries(e, c)' /\ Retries(e, c)' \in SUBSET Call
  BY ClaimSets DEF Key
<1>2. /\ Cardinality(Claims(e, c)) \in Nat /\ Cardinality(Claims(e, c)') \in Nat
      /\ Cardinality(Claims(e, c)') <= Cardinality(Claims(e, c))
  BY <1>1, SmallerCalls
<1>3. /\ Cardinality(Retries(e, c)) \in Nat /\ Cardinality(Retries(e, c)') \in Nat
      /\ Cardinality(Retries(e, c)) <= Cardinality(Retries(e, c)')
  BY <1>1, SmallerCalls
<1>4. /\ HasMark(e, c) \in Nat /\ HasMark(e, c)' \in Nat /\ HasMark(e, c) <= HasMark(e, c)'
  BY DEF HasMark
<1>5. Cardinality(Claims(e, c)) <= HasMark(e, c) + Cardinality(Retries(e, c))
  BY DEF Accounted
<1> QED BY <1>2, <1>3, <1>4, <1>5

\* An event takes effect in a consumer once, and once more at most for each
\* delivery that deleted the mark although the event may already have had an
\* effect under it.
THEOREM Bounded == HandlerSpec => []EffectsAreBounded
<1>1. HandlerInit => Accounted
  <2> SUFFICES ASSUME HandlerInit, NEW e \in EventId, NEW c \in Consumer
               PROVE Cardinality(Claims(e, c)) <= HasMark(e, c) + Cardinality(Retries(e, c))
    BY DEF Accounted
  <2>1. Claims(e, c) = {} /\ Retries(e, c) = {}
    BY DEF HandlerInit, Claims, Retries, CallsOf, Claimed, Retried
  <2>2. Cardinality(Claims(e, c)) = 0 /\ Cardinality(Retries(e, c)) = 0
    BY <2>1, FS_EmptySet
  <2> QED BY <2>2 DEF HasMark
<1>2. CallsTyped /\ CallsTyped' /\ Accounted /\ [HandlerNext]_handlerVars => Accounted'
  <2> SUFFICES ASSUME HandlerTypeOK, HandlerTypeOK', UnmarkedSkip, Accounted,
                      [HandlerNext]_handlerVars
               PROVE Accounted'
    BY DEF CallsTyped
  <2> USE DEF Goto
  <2>1. CASE UNCHANGED handlerVars
    BY <2>1, QuietCall DEF handlerVars, Claimed, Retried
  <2>2. ASSUME NEW k \in Call, Handle(k) PROVE Accounted'
    BY <2>2, QuietCall DEF Handle, Claimed, Retried, HandlerTypeOK
  <2>3. ASSUME NEW k \in Call, CreateMark(k) PROVE Accounted'
    <3> SUFFICES ASSUME NEW e \in EventId, NEW c \in Consumer
                 PROVE Cardinality(Claims(e, c)') <= HasMark(e, c)' + Cardinality(Retries(e, c)')
      BY DEF Accounted
    <3>1. /\ Cardinality(Claims(e, c)) <= HasMark(e, c) + Cardinality(Retries(e, c))
          /\ Cardinality(Retries(e, c)) \in Nat /\ HasMark(e, c) \in Nat
      BY ClaimSets, CallSizes DEF Accounted, HasMark
    <3>2. Claimed' \subseteq Claimed \cup {k} /\ Retried' = Retried
      BY <2>3 DEF CreateMark, Claimed, Retried, HandlerTypeOK
    <3>3. Retries(e, c)' = Retries(e, c)
      BY <3>2, ClaimSets
    <3>4. Cardinality(Retries(e, c)') = Cardinality(Retries(e, c))
      BY <3>3, Zenon
    <3>5. CASE Key(k) = <<e, c>>
      <4>1. HasMark(e, c) = 0 /\ HasMark(e, c)' = 1
        BY <2>3, <3>5 DEF CreateMark, HasMark, Conflicts, Key
      <4>2. Claims(e, c)' \subseteq Claims(e, c) \cup {k} /\ Claims(e, c) \in SUBSET Call
        BY <3>2, ClaimSets
      <4>3. /\ Cardinality(Claims(e, c)) \in Nat /\ Cardinality(Claims(e, c)') \in Nat
            /\ Cardinality(Claims(e, c)') <= Cardinality(Claims(e, c)) + 1
        BY <4>2, OneMore
      <4> QED BY <3>1, <3>4, <4>1, <4>3
    <3>6. CASE Key(k) # <<e, c>>
      <4>1. HasMark(e, c)' = HasMark(e, c)
        BY <2>3, <3>6 DEF CreateMark, HasMark
      <4>2. Claims(e, c)' \subseteq Claims(e, c) /\ Claims(e, c) \in SUBSET Call
        BY <3>2, <3>6, ClaimSets
      <4>3. /\ Cardinality(Claims(e, c)) \in Nat /\ Cardinality(Claims(e, c)') \in Nat
            /\ Cardinality(Claims(e, c)') <= Cardinality(Claims(e, c))
        BY <4>2, SmallerCalls
      <4> QED BY <3>1, <3>4, <4>1, <4>3
    <3> QED BY <3>5, <3>6
  <2>4. ASSUME NEW k \in Call, CreateConflicts(k) PROVE Accounted'
    BY <2>4, QuietCall DEF CreateConflicts, Claimed, Retried, HandlerTypeOK
  <2>5. ASSUME NEW k \in Call, CreateThrows(k) PROVE Accounted'
    BY <2>5, QuietCall DEF CreateThrows, Claimed, Retried, HandlerTypeOK
  <2>6. ASSUME NEW k \in Call, Process(k) PROVE Accounted'
    <3>1. Retried \subseteq Retried'
      BY <2>6 DEF Process, Retried, HandlerTypeOK
    <3>2. \A l \in Call \ {k} : at'[l] = at[l]
      BY <2>6 DEF Process, HandlerTypeOK
    <3>3. k \in Claimed
      BY <2>6 DEF Process, Claimed
    <3>4. \A l \in Claimed' : l \in Claimed
      <4>1. ASSUME NEW l \in Call, l # k, l \in Claimed' PROVE l \in Claimed
        <5>1. at'[l] = at[l] /\ unmarked' = unmarked /\ (l \in effect' => l \in effect)
          BY <2>6, <3>2, <4>1 DEF Process
        <5> QED BY <4>1, <5>1 DEF Claimed
      <4>2. Claimed' \subseteq Call
        BY DEF Claimed, HandlerTypeOK
      <4> QED BY <3>3, <4>1, <4>2
    <3> QED BY <2>6, <3>1, <3>4, QuietCall DEF Process
  <2>7. ASSUME NEW k \in Call, ProcessThrows(k) PROVE Accounted'
    <3>1. Retried \subseteq Retried'
      BY <2>7 DEF ProcessThrows, Interrupted, Retried, HandlerTypeOK
    <3>2. \A l \in Call \ {k} : at'[l] = at[l]
      BY <2>7 DEF ProcessThrows, HandlerTypeOK
    <3>3. \A l \in Claimed' : l = k => l \in Claimed
      BY <2>7 DEF ProcessThrows, Interrupted, Claimed, HandlerTypeOK, UnmarkedSkip
    <3>4. \A l \in Claimed' : l \in Claimed
      BY <2>7, <3>2, <3>3 DEF ProcessThrows, Interrupted, Claimed, HandlerTypeOK
    <3> QED BY <2>7, <3>1, <3>4, QuietCall DEF ProcessThrows
  <2>8. ASSUME NEW k \in Call, ProcessConflicts(k) PROVE Accounted'
    <3>1. Retried \subseteq Retried'
      BY <2>8 DEF ProcessConflicts, Interrupted, Retried, HandlerTypeOK
    <3>2. \A l \in Call \ {k} : at'[l] = at[l]
      BY <2>8 DEF ProcessConflicts, HandlerTypeOK
    <3>3. \A l \in Claimed' : l = k => l \in Claimed
      BY <2>8 DEF ProcessConflicts, Interrupted, Claimed, HandlerTypeOK, UnmarkedSkip
    <3>4. \A l \in Claimed' : l \in Claimed
      BY <2>8, <3>2, <3>3 DEF ProcessConflicts, Interrupted, Claimed, HandlerTypeOK
    <3> QED BY <2>8, <3>1, <3>4, QuietCall DEF ProcessConflicts
  <2>9. ASSUME NEW k \in Call, DeleteMark(k) PROVE Accounted'
    <3> SUFFICES ASSUME NEW e \in EventId, NEW c \in Consumer
                 PROVE Cardinality(Claims(e, c)') <= HasMark(e, c)' + Cardinality(Retries(e, c)')
      BY DEF Accounted
    <3>1. /\ Cardinality(Claims(e, c)) <= HasMark(e, c) + Cardinality(Retries(e, c))
          /\ Cardinality(Retries(e, c)) \in Nat /\ HasMark(e, c) \in 0..1 /\ HasMark(e, c)' \in 0..1
      BY ClaimSets, CallSizes DEF Accounted, HasMark
    <3>2. Claimed' = (IF k \in effect THEN Claimed ELSE Claimed \ {k})
      BY <2>9 DEF DeleteMark, Claimed, HandlerTypeOK
    <3>3. /\ Retried' = (IF k \in effect \cup unmarked THEN Retried \cup {k} ELSE Retried)
          /\ k \notin Retried
      BY <2>9 DEF DeleteMark, Retried, HandlerTypeOK
    <3>4. CASE Key(k) # <<e, c>>
      <4>1. HasMark(e, c)' = HasMark(e, c)
        BY <2>9, <3>4 DEF DeleteMark, HasMark
      <4>2. Claims(e, c)' = Claims(e, c)
        <5>1. \A l : Key(l) = <<e, c>> => (l \in Claimed' <=> l \in Claimed)
          BY <3>2, <3>4
        <5>2. \A l : l \in Claims(e, c) <=> l \in Claimed /\ Key(l) = <<e, c>>
          BY ClaimSets
        <5>3. \A l : l \in Claims(e, c)' <=> l \in Claimed' /\ Key(l) = <<e, c>>
          BY ClaimSets
        <5> QED BY <5>1, <5>2, <5>3
      <4>3. Retries(e, c)' = Retries(e, c)
        <5>1. \A l : Key(l) = <<e, c>> => (l \in Retried' <=> l \in Retried)
          BY <3>3, <3>4
        <5>2. \A l : l \in Retries(e, c) <=> l \in Retried /\ Key(l) = <<e, c>>
          BY ClaimSets
        <5>3. \A l : l \in Retries(e, c)' <=> l \in Retried' /\ Key(l) = <<e, c>>
          BY ClaimSets
        <5> QED BY <5>1, <5>2, <5>3
      <4>4. /\ Cardinality(Claims(e, c)') = Cardinality(Claims(e, c))
            /\ Cardinality(Retries(e, c)') = Cardinality(Retries(e, c))
        BY <4>2, <4>3, Zenon
      <4> QED BY <3>1, <4>1, <4>4
    <3>5. CASE Key(k) = <<e, c>> /\ k \in effect \cup unmarked
      <4>1. Retries(e, c)' = Retries(e, c) \cup {k} /\ k \notin Retries(e, c)
        BY <3>3, <3>5, ClaimSets
      <4>2. Cardinality(Retries(e, c) \cup {k}) = Cardinality(Retries(e, c)) + 1
        BY <4>1, ClaimSets, CallSizes, FS_AddElement
      <4>3. Cardinality(Retries(e, c)') = Cardinality(Retries(e, c)) + 1
        BY <4>1, <4>2, Zenon
      <4>4. Claims(e, c)' \subseteq Claims(e, c) /\ Claims(e, c) \in SUBSET Call
        BY <3>2, ClaimSets
      <4>5. /\ Cardinality(Claims(e, c)) \in Nat /\ Cardinality(Claims(e, c)') \in Nat
            /\ Cardinality(Claims(e, c)') <= Cardinality(Claims(e, c))
        BY <4>4, SmallerCalls
      <4> QED BY <3>1, <4>3, <4>5
    <3>6. CASE Key(k) = <<e, c>> /\ k \notin effect \cup unmarked
      <4>1. Claims(e, c)' = Claims(e, c) \ {k} /\ k \in Claims(e, c)
        <5>1. k \in Claimed
          BY <2>9, <3>6 DEF DeleteMark, Claimed
        <5> QED BY <3>2, <3>6, <5>1, ClaimSets
      <4>2. /\ Cardinality(Claims(e, c)) \in Nat
            /\ Cardinality(Claims(e, c)') = Cardinality(Claims(e, c)) - 1
        BY <4>1, ClaimSets, CallSizes, OneLess
      <4>3. Retries(e, c)' = Retries(e, c)
        BY <3>3, <3>6, ClaimSets
      <4>4. Cardinality(Retries(e, c)') = Cardinality(Retries(e, c))
        BY <4>3, Zenon
      <4> QED BY <3>1, <4>2, <4>4
    <3> QED BY <3>4, <3>5, <3>6
  <2>10. ASSUME NEW k \in Call, DeleteThrows(k) PROVE Accounted'
    BY <2>10, QuietCall DEF DeleteThrows, Claimed, Retried, HandlerTypeOK
  <2>11. ASSUME NEW k \in Call, Die(k) PROVE Accounted'
    <3>1. Retried \subseteq Retried'
      BY <2>11 DEF Die, Interrupted, Retried, HandlerTypeOK
    <3>2. \A l \in Call \ {k} : at'[l] = at[l]
      BY <2>11 DEF Die, HandlerTypeOK
    <3>3. \A l \in Claimed' : l = k => l \in Claimed
      BY <2>11 DEF Die, Interrupted, Claimed, HandlerTypeOK, UnmarkedSkip
    <3>4. \A l \in Claimed' : l \in Claimed
      BY <2>11, <3>2, <3>3 DEF Die, Interrupted, Claimed, HandlerTypeOK
    <3> QED BY <2>11, <3>1, <3>4, QuietCall DEF Die
  <2> QED BY <2>1, <2>2, <2>3, <2>4, <2>5, <2>6, <2>7, <2>8, <2>9, <2>10, <2>11 DEF HandlerNext, Step
<1>3. HandlerTypeOK /\ Accounted => EffectsAreBounded
  <2> SUFFICES ASSUME HandlerTypeOK, Accounted, NEW e \in EventId, NEW c \in Consumer
               PROVE Cardinality(CallsOf(e, c, effect)) <= 1 + Cardinality(CallsOf(e, c, Retried))
    BY DEF EffectsAreBounded
  <2>1. /\ CallsOf(e, c, effect) \subseteq Claims(e, c) /\ Claims(e, c) \in SUBSET Call
        /\ Retries(e, c) \in SUBSET Call
    BY DEF CallsOf, Claims, Claimed, Retries, Retried, HandlerTypeOK
  <2>2. /\ Cardinality(CallsOf(e, c, effect)) <= Cardinality(Claims(e, c))
        /\ Cardinality(CallsOf(e, c, effect)) \in Nat /\ Cardinality(Claims(e, c)) \in Nat
    BY <2>1, SmallerCalls
  <2>3. /\ Cardinality(Claims(e, c)) <= HasMark(e, c) + Cardinality(Retries(e, c))
        /\ Cardinality(Retries(e, c)) \in Nat /\ HasMark(e, c) \in 0..1
    BY <2>1, CallSizes DEF Accounted, HasMark
  <2>4. Cardinality(CallsOf(e, c, Retried)) = Cardinality(Retries(e, c))
    BY DEF Retries
  <2> QED BY <2>2, <2>3, <2>4
<1> QED BY <1>1, <1>2, <1>3, CallsTypedHold, HandlerTypeCorrect, PTL DEF HandlerSpec
=============================================================================
