----------------------------- MODULE TaskBoard ------------------------------
(***************************************************************************)
(* What browsers show of a task: the lists of the board and the backlog    *)
(* (query tasks) and the detail panel (query detail), kept in the query    *)
(* cache of each browser, against the row in the API's table.  A mutation  *)
(* is a request to the API; it changes the list before the answer          *)
(* (status), and invalidates one or both queries after it.  Labels are     *)
(* sent as the whole list that the panel shows, changed; a field of the    *)
(* panel that is left untouched is sent as it was when it was opened.      *)
(*                                                                         *)
(* Both queries are mounted, and a query may be fetched again at any time  *)
(* (mounting, filters, staleTime, reconnection).                           *)
(*                                                                         *)
(* A Request stands for the value it writes in a field of the row, or for  *)
(* the label it adds.  On the API an action ends at an await, as in Board. *)
(***************************************************************************)
EXTENDS QueryCache, Naturals, FiniteSets

CONSTANTS
    Browser, Request,
    MaxFetches,   \* bound: fetches that no mutation asks for
    MaxFaults     \* bound: refusals, errors and lost answers

ASSUME BoundAssumption == MaxFetches \in Nat /\ MaxFaults \in Nat

Query == {"tasks", "detail"}

\* place: sprint or assignee; choice: type, priority, resolution, environment or
\* reporter; text: title or description; number: story points or a date;
\* estimate, remaining: the original and the remaining estimate.  Each is the
\* request that wrote it, {} at first.
Field == {"status", "place", "choice", "text", "number", "estimate", "remaining", "labels"}
Row == [Field -> SUBSET Request]

FirstRow == [f \in Field |-> {}]

\* the fields whose edits reach the table as typed
Typed == {"text", "number", "estimate"}

\* shown: the labels of the panel; opened: what the field showed when opened;
\* dropped: an update of which the controller passes nothing on
Mutation ==
    [kind : {"status", "place", "choice", "unknown", "dropped"},
     by : Browser] \cup
    [kind : Typed, by : Browser,
     opened : SUBSET Request, value : SUBSET Request] \cup
    [kind : {"label", "unlabel"}, by : Browser, label : Request,
     shown : SUBSET Request, list : SUBSET Request]

NoMutation == [kind |-> "none"]

Draft == [of : Typed, opened : SUBSET Request]

VARIABLES
    table,      \* the row of the task
    pc,         \* where a request is: in the browser, on its way, at an await
    op,         \* its mutation
    loaded,     \* the copy that its handler has found
    reply,      \* what the browser will be told
    snapshot,   \* the list that onMutate of a status change has kept
    cache,      \* the queries of each browser
    draft,      \* the field that is edited in the panel of a browser
    disturbed,  \* status changes after which the list was touched otherwise
    told,       \* history: what the saved requests asked for
    muddled,    \* history: whether a request was saved from a list, a field
                \* or a copy left behind
    fetches, faults

bounds == <<fetches, faults>>
history == <<disturbed, told, muddled>>
vars == <<table, pc, op, loaded, reply, snapshot, cache, draft, history, bounds>>

\* the list is mounted, and fetches; the panel is opened later
Init ==
    /\ table = FirstRow
    /\ pc = [q \in Request |-> "idle"]
    /\ op = [q \in Request |-> NoMutation]
    /\ loaded = [q \in Request |-> {}]
    /\ reply = [q \in Request |-> "none"]
    /\ snapshot = [q \in Request |-> {}]
    /\ cache = [b \in Browser |-> [tasks |-> Sent(NoData), detail |-> NoData]]
    /\ draft = [b \in Browser |-> {}]
    /\ disturbed = {}
    /\ told = FirstRow
    /\ muddled = FALSE
    /\ fetches = 0 /\ faults = 0

Fault == faults < MaxFaults /\ faults' = faults + 1 /\ UNCHANGED fetches

-----------------------------------------------------------------------------
(* The queries.                                                            *)

OutOf(b) == {q \in Request : pc[q] \notin {"idle", "done"} /\ op[q].by = b}

\* the status changes of b whose list is touched by something else
Disturb(b) == disturbed' = disturbed \cup {q \in OutOf(b) : op[q].kind = "status"}

\* another mount, a filter that changes back, or a reconnection
Refetch(b, k) ==
    /\ cache[b][k].fetch = "idle" /\ cache[b][k] # NoData
    /\ cache' = [cache EXCEPT ![b][k] = Sent(@)]
    /\ IF k = "tasks" THEN Disturb(b) ELSE UNCHANGED disturbed
    /\ fetches < MaxFetches /\ fetches' = fetches + 1
    /\ UNCHANGED <<table, pc, op, loaded, reply, snapshot, draft, told, muddled, faults>>

\* a click on the task
OpenPanel(b) ==
    /\ cache[b]["detail"] = NoData
    /\ cache' = [cache EXCEPT ![b]["detail"] = Sent(@)]
    /\ fetches < MaxFetches /\ fetches' = fetches + 1
    /\ UNCHANGED <<table, pc, op, loaded, reply, snapshot, draft, history, faults>>

Serve(b, k) ==
    /\ cache[b][k].fetch = "sent"
    /\ cache' = [cache EXCEPT ![b][k] = Answered(@, table)]
    /\ UNCHANGED <<table, pc, op, loaded, reply, snapshot, draft, history, bounds>>

\* findAll: one transaction reads the rows and their number
ServeList(b) == Serve(b, "tasks")

\* findById; the names of the users that it looks up later are not modelled
ServeDetail(b) == Serve(b, "detail")

Arrive(b, k) ==
    /\ cache[b][k].fetch = "answered"
    /\ cache' = [cache EXCEPT ![b][k] = Arrived(@)]
    /\ UNCHANGED <<table, pc, op, loaded, reply, snapshot, draft, history, bounds>>

FetchFails(b, k) ==
    /\ cache[b][k].fetch # "idle" /\ Fault
    /\ cache' = [cache EXCEPT ![b][k] = Failed(@)]
    /\ UNCHANGED <<table, pc, op, loaded, reply, snapshot, draft, history>>

-----------------------------------------------------------------------------
(* Mutations.                                                              *)

Start(q, m) ==
    /\ pc[q] = "idle"
    /\ op' = [op EXCEPT ![q] = m]
    /\ pc' = [pc EXCEPT ![q] = "sent"]

\* Mutant of OnMutate: the fetch that is out is not cancelled.
MutOnMutate(c, q) == [c EXCEPT !.data = {[row EXCEPT !.status = {q}] : row \in @}]

\* onMutate of changeStatus on the list: cancel, then show the new status
OnMutate(c, q) == [Idle(c) EXCEPT !.data = {[row EXCEPT !.status = {q}] : row \in @}]

\* a card dropped in a column, a checkbox or a menu
ChangeStatus(b, q) ==
    /\ Start(q, [kind |-> "status", by |-> b])
    /\ snapshot' = [snapshot EXCEPT ![q] = cache[b]["tasks"].data]
    /\ cache' = [cache EXCEPT ![b]["tasks"] = OnMutate(@, q)]
    /\ Disturb(b)
    /\ UNCHANGED <<table, loaded, reply, draft, told, muddled, bounds>>

\* a mutation that touches no query before its answer
Mutate(q, m) ==
    /\ Start(q, m)
    /\ UNCHANGED <<table, loaded, reply, snapshot, cache, history, bounds>>

\* a task dragged from section to section of the backlog, or a user of the menu
\* in its row
Place(b, q) == Mutate(q, [kind |-> "place", by |-> b]) /\ UNCHANGED draft

\* the panel sends its assignee as a field of the update, which the API
\* does not know
AssignInPanel(b, q) ==
    /\ cache[b]["detail"].data # {}
    /\ Mutate(q, [kind |-> "unknown", by |-> b]) /\ UNCHANGED draft

\* priority, type, resolution, environment or reporter in the panel; the type also in the
\* task's row of the backlog
Choose(b, q) ==
    /\ \E k \in Query : cache[b][k].data # {}
    /\ Mutate(q, [kind |-> "choice", by |-> b]) /\ UNCHANGED draft

\* a number of story points in the task's row of the backlog
ChoosePoints(b, q) ==
    /\ cache[b]["tasks"].data # {}
    /\ Mutate(q, [kind |-> "number", by |-> b, opened |-> {}, value |-> {q}])
    /\ UNCHANGED draft

\* Clear in the task's row sends no points at all
ClearPoints(b, q) ==
    /\ cache[b]["tasks"].data # {}
    /\ Mutate(q, [kind |-> "dropped", by |-> b]) /\ UNCHANGED draft

\* startEditingTitle, startEditingDescription, a click on an EditableField
StartEditing(b) ==
    /\ draft[b] = {}
    /\ \E row \in cache[b]["detail"].data, f \in Typed :
          draft' = [draft EXCEPT ![b] = {[of |-> f, opened |-> row[f]]}]
    /\ UNCHANGED <<table, pc, op, loaded, reply, snapshot, cache, history, bounds>>

\* Escape or Cancel
CancelEditing(b) ==
    /\ draft[b] # {}
    /\ draft' = [draft EXCEPT ![b] = {}]
    /\ UNCHANGED <<table, pc, op, loaded, reply, snapshot, cache, history, bounds>>

\* a new value or the one shown when it was opened, and for an estimate none; in
\* the other fields none is a value like any other
Input(q, d) == {d.opened, {q}} \cup (IF d.of = "estimate" THEN {{}} ELSE {})

Leave(b, q, d, value) ==
    /\ Mutate(q, [kind |-> d.of, by |-> b, opened |-> d.opened, value |-> value])
    /\ draft' = [draft EXCEPT ![b] = {}]

\* an EditableField sends its value when it loses the focus
LeaveField(b, q) ==
    \E d \in draft[b] : \E value \in Input(q, d) :
        d.of \in {"number", "estimate"} /\ Leave(b, q, d, value)

\* the remaining estimate is sent, and the controller does not pass it on,
\* whatever was typed
LeaveRemaining(b, q) ==
    /\ draft[b] = {} /\ cache[b]["detail"].data # {}
    /\ Mutate(q, [kind |-> "dropped", by |-> b]) /\ UNCHANGED draft

\* a title or a description is sent when it is not the one shown by now
SaveText(b, q) ==
    \E d \in draft[b], row \in cache[b]["detail"].data : \E value \in Input(q, d) :
        d.of = "text" /\ value # row.text /\ Leave(b, q, d, value)

\* Mutant of WithLabel: only the new label is sent.
MutWithLabel(row, q) == {q}

\* the list that handleAddLabel sends: the labels shown and the new one
WithLabel(row, q) == row.labels \cup {q}

\* labels need the task that the panel has fetched
AddLabel(b, q) ==
    /\ \E row \in cache[b]["detail"].data :
          Mutate(q, [kind |-> "label", by |-> b, label |-> q, shown |-> row.labels,
                     list |-> WithLabel(row, q)])
    /\ UNCHANGED draft

RemoveLabel(b, q) ==
    /\ \E row \in cache[b]["detail"].data : \E l \in row.labels :
          Mutate(q, [kind |-> "unlabel", by |-> b, label |-> l, shown |-> row.labels,
                     list |-> row.labels \ {l}])
    /\ UNCHANGED draft

\* m brings nothing to the table: an original estimate that was emptied is
\* ignored by the handler
Dropped(m) == m.kind = "dropped" \/ (m.kind = "estimate" /\ m.value = {})

\* what the handler makes of the row it has found; an original estimate is also
\* the remaining one
Changed(row, m, q) ==
    IF Dropped(m) THEN row ELSE
    CASE m.kind \in {"text", "number"} -> [row EXCEPT ![m.kind] = m.value]
      [] m.kind = "estimate"           -> [row EXCEPT !.estimate = m.value, !.remaining = m.value]
      [] m.kind \in {"label", "unlabel"} -> [row EXCEPT !.labels = m.list]
      [] OTHER                         -> [row EXCEPT ![m.kind] = {q}]

\* a body with a field that the request does not have is refused
Validate(q) ==
    /\ pc[q] = "sent" /\ op[q].kind = "unknown"
    /\ pc' = [pc EXCEPT ![q] = "replied"]
    /\ reply' = [reply EXCEPT ![q] = "error"]
    /\ UNCHANGED <<table, op, loaded, snapshot, cache, draft, history, bounds>>

\* the handler finds the task, or the request does not get that far
Find(q) ==
    /\ pc[q] = "sent" /\ op[q].kind # "unknown"
    /\ \/ /\ pc' = [pc EXCEPT ![q] = "save"]
          /\ loaded' = [loaded EXCEPT ![q] = {table}]
          /\ UNCHANGED <<reply, bounds>>
       \/ /\ pc' = [pc EXCEPT ![q] = "replied"]
          /\ reply' = [reply EXCEPT ![q] = "error"]
          /\ UNCHANGED loaded /\ Fault
    /\ UNCHANGED <<table, op, snapshot, cache, draft, history>>

\* m sends a field as it was when it was opened
Untouched(m) == m.kind \in Typed /\ m.value = m.opened

\* what users have asked for once m is saved: what they typed, not what a
\* field sends untouched, nor what is dropped
Told(m, q) ==
    IF Untouched(m) \/ Dropped(m) THEN told ELSE
    CASE m.kind = "label"   -> [told EXCEPT !.labels = @ \cup {m.label}]
      [] m.kind = "unlabel" -> [told EXCEPT !.labels = @ \ {m.label}]
      [] m.kind \in Typed   -> [told EXCEPT ![m.kind] = m.value]
      [] OTHER              -> [told EXCEPT ![m.kind] = {q}]

\* what m was made of is not what the table has
LeftBehind(m, q) ==
    \/ loaded[q] # {table}
    \/ m.kind \in {"label", "unlabel"} /\ m.shown # table.labels
    \/ Untouched(m) /\ ~Dropped(m) /\ m.value # table[m.kind]

\* save writes all columns from the copy; the answer may be lost
Save(q) ==
    /\ pc[q] = "save"
    /\ table' \in {Changed(row, op[q], q) : row \in loaded[q]}
    /\ \/ reply' = [reply EXCEPT ![q] = "ok"] /\ UNCHANGED bounds
       \/ reply' = [reply EXCEPT ![q] = "error"] /\ Fault
    /\ pc' = [pc EXCEPT ![q] = "replied"]
    /\ loaded' = [loaded EXCEPT ![q] = {}]
    /\ cache' = [b \in Browser |-> [k \in Query |-> Missing(cache[b][k], q)]]
    /\ told' = Told(op[q], q)
    /\ muddled' = (muddled \/ LeftBehind(op[q], q))
    /\ UNCHANGED <<op, snapshot, draft, disturbed>>

\* validation fails, or a statement throws
Refuse(q) ==
    /\ pc[q] = "save" /\ Fault
    /\ pc' = [pc EXCEPT ![q] = "replied"]
    /\ loaded' = [loaded EXCEPT ![q] = {}]
    /\ reply' = [reply EXCEPT ![q] = "error"]
    /\ UNCHANGED <<table, op, snapshot, cache, draft, history>>

\* Mutant of Invalidates: a status change invalidates only when it succeeds.
MutInvalidates(q) ==
    IF reply[q] # "ok" THEN {}
    ELSE IF op[q].kind \in {"status", "place"} THEN {"tasks"} ELSE Query

\* onSettled of changeStatus, onSuccess of the others
Invalidates(q) ==
    IF op[q].kind = "status" THEN {"tasks"}
    ELSE IF reply[q] # "ok" THEN {}
    ELSE IF op[q].kind = "place" THEN {"tasks"} ELSE Query

\* onError of changeStatus puts the kept list back, if there was one
RolledBack(c, q) ==
    IF op[q].kind = "status" /\ reply[q] = "error" /\ snapshot[q] # {}
    THEN [c EXCEPT !.data = snapshot[q]] ELSE c

\* the answer is here; a panel that was never opened has no query
Settle(q) ==
    LET b == op[q].by
        seen == [cache[b] EXCEPT !["tasks"] = RolledBack(@, q)]
    IN
    /\ pc[q] = "replied"
    /\ cache' = [cache EXCEPT ![b] =
                    [k \in Query |-> IF k \in Invalidates(q) /\ seen[k] # NoData
                                     THEN Invalidated(seen[k], q) ELSE seen[k]]]
    /\ pc' = [pc EXCEPT ![q] = "done"]
    /\ snapshot' = [snapshot EXCEPT ![q] = {}]
    /\ IF "tasks" \in Invalidates(q) THEN Disturb(b) ELSE UNCHANGED disturbed
    /\ UNCHANGED <<table, op, loaded, reply, draft, told, muddled, bounds>>

Next ==
    \/ \E b \in Browser, q \in Request :
          \/ ChangeStatus(b, q) \/ Place(b, q)
          \/ AssignInPanel(b, q) \/ Choose(b, q) \/ ChoosePoints(b, q) \/ ClearPoints(b, q)
          \/ LeaveField(b, q) \/ LeaveRemaining(b, q) \/ SaveText(b, q)
          \/ AddLabel(b, q) \/ RemoveLabel(b, q)
    \/ \E b \in Browser :
          \/ OpenPanel(b) \/ ServeList(b) \/ ServeDetail(b)
          \/ StartEditing(b) \/ CancelEditing(b)
    \/ \E b \in Browser, k \in Query : Refetch(b, k) \/ Arrive(b, k) \/ FetchFails(b, k)
    \/ \E q \in Request : Validate(q) \/ Find(q) \/ Save(q) \/ Refuse(q) \/ Settle(q)

Spec == Init /\ [][Next]_vars

-----------------------------------------------------------------------------

TypeOK ==
    /\ table \in Row
    /\ pc \in [Request -> {"idle", "sent", "save", "replied", "done"}]
    /\ op \in [Request -> Mutation \cup {NoMutation}]
    /\ loaded \in [Request -> SUBSET Row] /\ snapshot \in [Request -> SUBSET Row]
    /\ reply \in [Request -> {"none", "ok", "error"}]
    /\ cache \in [Browser -> [Query -> Cached(Row, Request)]]
    /\ draft \in [Browser -> SUBSET Draft]
    /\ disturbed \subseteq Request /\ told \in Row /\ muddled \in BOOLEAN
    /\ fetches \in 0..MaxFetches /\ faults \in 0..MaxFaults

\* r was saved and the browser was told nothing that makes it fetch
Unheard(r, k) ==
    \/ op[r].kind # "status" /\ reply[r] = "error"
    \/ k = "detail" /\ op[r].kind \in {"status", "place"}

\* When the mutations of a browser and the fetch of a query are over, and the
\* fetch did not fail, the query shows the row, but for what other browsers
\* have saved since, what was saved although the answer was an error, what
\* the panel is never told (status, assignee, sprint), and what was settled
\* while the query was fetched for the first time.
BehindForAReason ==
    \A b \in Browser, k \in Query :
        LET c == cache[b][k] IN
        OutOf(b) = {} /\ c.data # {} /\ c.fetch = "idle" /\ ~c.failed =>
            /\ c.missing = {} => c.data = {table}
            /\ \A r \in c.missing : op[r].by # b \/ Unheard(r, k) \/ r \in c.deaf

\* From the moment a status is chosen until the answer is here the list shows
\* it, unless another mutation of the browser or a new fetch has touched the
\* list since: no fetch that was out before can bring the old status back.
OptimismHolds ==
    \A q \in Request :
        pc[q] \in {"sent", "save", "replied"} /\ op[q].kind = "status" /\ q \notin disturbed =>
            \A row \in cache[op[q].by]["tasks"].data : row.status = {q}

\* The row holds what users asked for last: each field what the last saved
\* request typed or chose, labels those added and not removed.  The only
\* exceptions are edits that are answered as done and never stored (any of the
\* remaining estimate, an emptied original estimate, Clear in the backlog),
\* labels sent from a list, and fields sent untouched, that the table no longer
\* had at the save, and handlers that saved a copy left behind: no other order of
\* edits, errors, lost answers and fetches loses one.  The remaining estimate is
\* never anything but the original one.
EditsHold ==
    /\ table.remaining = table.estimate
    /\ muddled \/ \A f \in Field \ {"remaining"} : table[f] = told[f]
=============================================================================
