-------------------------- MODULE TaskBoardProofs ---------------------------
(***************************************************************************)
(* TaskBoard keeps its types; the row holds what users asked for last, a   *)
(* status that was chosen is shown until it is answered, and a query that  *)
(* is at rest is behind for a reason: for any number of browsers, requests *)
(* fetches and faults.                                                     *)
(***************************************************************************)
EXTENDS TaskBoard, TLAPS

USE BoundAssumption

-----------------------------------------------------------------------------
(* The cache and the row.                                                  *)

\* What is done to a query of the cache keeps its type.
LEMMA CacheTypes ==
    ASSUME NEW V, NEW c \in Cached(V, Request), NEW q \in Request
    PROVE  /\ Idle(c) \in Cached(V, Request) /\ Sent(c) \in Cached(V, Request) /\ Arrived(c) \in Cached(V, Request)
           /\ Failed(c) \in Cached(V, Request)
           /\ Invalidated(c, q) \in Cached(V, Request) /\ Missing(c, q) \in Cached(V, Request)
           /\ \A v \in V : Answered(c, v) \in Cached(V, Request)
<1>1. Idle(c) \in Cached(V, Request)
  BY DEF Idle, Cached
<1>2. Sent(c) \in Cached(V, Request)
  BY <1>1 DEF Sent, Cached
<1>3. Arrived(c) \in Cached(V, Request) /\ Failed(c) \in Cached(V, Request)
  BY <1>1 DEF Arrived, Failed, Cached
<1>4. Invalidated(c, q) \in Cached(V, Request)
  BY <1>2 DEF Invalidated, Cached
<1>5. Missing(c, q) \in Cached(V, Request)
  BY DEF Missing, Cached
<1>6. \A v \in V : Answered(c, v) \in Cached(V, Request)
  BY DEF Answered, Cached
<1> QED BY <1>1, <1>2, <1>3, <1>4, <1>5, <1>6

\* An invalidation starts a fetch, or is not heard by the first one.
LEMMA InvalidatedIs ==
    ASSUME NEW V, NEW c \in Cached(V, Request), NEW q \in Request
    PROVE  LET d == Invalidated(c, q) IN
           \/ d = Sent(c)
           \/ c.data = {} /\ d = [c EXCEPT !.deaf = c.deaf \cup {q}]
  BY DEF Invalidated

\* What a status change shows.
LEMMA OnMutateIs ==
    ASSUME NEW c \in Cached(Row, Request), NEW q \in Request
    PROVE  LET d == OnMutate(c, q) IN
           /\ d \in Cached(Row, Request)
           /\ d.fetch = "idle" /\ d.missing = c.missing /\ d.deaf = c.deaf
           /\ d.failed = c.failed /\ d.late = {}
           /\ \A row \in d.data : row.status = {q}
<1>1. Idle(c) \in Cached(Row, Request) /\ Idle(c).data = c.data
  BY CacheTypes DEF Idle, Cached
<1>2. \A row \in c.data : [row EXCEPT !.status = {q}] \in Row /\ [row EXCEPT !.status = {q}].status = {q}
  BY DEF Cached, Row, Field
<1>3. {[row EXCEPT !.status = {q}] : row \in c.data} \in SUBSET Row
  BY <1>2
<1>4. OnMutate(c, q) = [Idle(c) EXCEPT !.data = {[row EXCEPT !.status = {q}] : row \in c.data}]
  BY <1>1 DEF OnMutate, Cached
<1>5. OnMutate(c, q).data = {[row EXCEPT !.status = {q}] : row \in c.data}
  BY <1>1, <1>4 DEF Cached
<1>6. \A row \in OnMutate(c, q).data : row.status = {q}
  BY <1>2, <1>5
<1>7. /\ Idle(c).fetch = "idle" /\ Idle(c).missing = c.missing /\ Idle(c).deaf = c.deaf
      /\ Idle(c).failed = c.failed /\ Idle(c).late = {}
  BY DEF Idle, Cached
<1>8. OnMutate(c, q) \in Cached(Row, Request)
  BY <1>1, <1>3, <1>4 DEF Cached
<1>9. LET d == OnMutate(c, q) IN
      /\ d.fetch = Idle(c).fetch /\ d.missing = Idle(c).missing /\ d.deaf = Idle(c).deaf
      /\ d.failed = Idle(c).failed /\ d.late = Idle(c).late
  BY <1>1, <1>4 DEF Cached
<1> QED BY <1>6, <1>7, <1>8, <1>9

\* a row with a value in one field
With(row, f, v) == [row EXCEPT ![f] = v]

\* It is a row, and has this value in this field only.
LEMMA Written ==
    ASSUME NEW row \in Row, NEW f \in Field, NEW v \in SUBSET Request
    PROVE  /\ With(row, f, v) \in Row
           /\ \A g \in Field : With(row, f, v)[g] = IF g = f THEN v ELSE row[g]
  BY DEF Row, With

\* the kinds of mutations that write themselves into the field of their name
Plain == {"status", "place", "choice"}

\* The ways to write a row, by the kind of the mutation.
LEMMA ChangedIs ==
    ASSUME NEW m, NEW row, NEW q
    PROVE  /\ Dropped(m) => Changed(row, m, q) = row
           /\ m.kind \in {"text", "number"} => Changed(row, m, q) = With(row, m.kind, m.value)
           /\ m.kind = "estimate" /\ ~Dropped(m) =>
                 Changed(row, m, q) = With(With(row, "estimate", m.value), "remaining", m.value)
           /\ m.kind \in {"label", "unlabel"} => Changed(row, m, q) = With(row, "labels", m.list)
           /\ m.kind \in Plain => Changed(row, m, q) = With(row, m.kind, {q})
  BY DEF Changed, Dropped, Plain, With

LEMMA ToldIs ==
    ASSUME NEW m, NEW q
    PROVE  /\ Untouched(m) \/ Dropped(m) => Told(m, q) = told
           /\ m.kind = "label" => Told(m, q) = With(told, "labels", told.labels \cup {m.label})
           /\ m.kind = "unlabel" => Told(m, q) = With(told, "labels", told.labels \ {m.label})
           /\ m.kind \in Typed /\ ~Untouched(m) /\ ~Dropped(m) =>
                 Told(m, q) = With(told, m.kind, m.value)
           /\ m.kind \in Plain => Told(m, q) = With(told, m.kind, {q})
  BY DEF Told, Untouched, Dropped, Typed, Plain, With

\* The kinds of a mutation, and what comes with them.
LEMMA MutationIs ==
    ASSUME NEW m \in Mutation
    PROVE  /\ m.by \in Browser /\ m # NoMutation
           /\ \/ m.kind \in Plain
              \/ m.kind = "unknown"
              \/ m.kind = "dropped"
              \/ m.kind \in Typed /\ m.value \in SUBSET Request
              \/ m.kind \in {"label", "unlabel"} /\ m.label \in Request /\ m.list \in SUBSET Request
  BY DEF Mutation, NoMutation, Plain, Typed

\* A known mutation makes a row of a row.
LEMMA ChangedIsRow ==
    ASSUME NEW m \in Mutation, m.kind # "unknown", NEW q \in Request, NEW row \in Row
    PROVE  Changed(row, m, q) \in Row
<1>0. {q} \in SUBSET Request
  OBVIOUS
<1>1. CASE m.kind \in Plain
  <2>1. m.kind \in Field
    BY <1>1 DEF Plain, Field
  <2>2. Changed(row, m, q) = With(row, m.kind, {q})
    BY <1>1, ChangedIs
  <2> QED BY <1>0, <2>1, <2>2, Written
<1>2. CASE m.kind \in {"text", "number"} /\ m.value \in SUBSET Request
  <2>1. m.kind \in Field
    BY <1>2 DEF Field
  <2>2. Changed(row, m, q) = With(row, m.kind, m.value)
    BY <1>2, ChangedIs
  <2> QED BY <1>2, <2>1, <2>2, Written
<1>3. CASE m.kind = "estimate" /\ ~Dropped(m) /\ m.value \in SUBSET Request
  <2>1. "estimate" \in Field /\ "remaining" \in Field
    BY DEF Field
  <2>2. With(row, "estimate", m.value) \in Row
    BY <1>3, <2>1, Written
  <2>3. With(With(row, "estimate", m.value), "remaining", m.value) \in Row
    BY <1>3, <2>1, <2>2, Written
  <2> QED BY <1>3, <2>3, ChangedIs
<1>4. CASE Dropped(m)
  BY <1>4, ChangedIs
<1>5. CASE m.kind \in {"label", "unlabel"} /\ m.list \in SUBSET Request
  <2>1. "labels" \in Field
    BY DEF Field
  <2>2. Changed(row, m, q) = With(row, "labels", m.list)
    BY <1>5, ChangedIs
  <2> QED BY <1>5, <2>1, <2>2, Written
<1>6. m.kind = "dropped" => Dropped(m)
  BY DEF Dropped
<1> QED BY <1>1, <1>2, <1>3, <1>4, <1>5, <1>6, MutationIs DEF Typed

\* And one of what was asked for.
LEMMA ToldIsRow ==
    ASSUME NEW m \in Mutation, m.kind # "unknown", NEW q \in Request, told \in Row
    PROVE  Told(m, q) \in Row
<1>0. {q} \in SUBSET Request
  OBVIOUS
<1>1. CASE m.kind \in Plain
  <2>1. m.kind \in Field
    BY <1>1 DEF Plain, Field
  <2>2. Told(m, q) = With(told, m.kind, {q})
    BY <1>1, ToldIs
  <2> QED BY <1>0, <2>1, <2>2, Written
<1>2. CASE m.kind \in Typed /\ ~Untouched(m) /\ ~Dropped(m) /\ m.value \in SUBSET Request
  <2>1. m.kind \in Field
    BY <1>2 DEF Typed, Field
  <2>2. Told(m, q) = With(told, m.kind, m.value)
    BY <1>2, ToldIs
  <2> QED BY <1>2, <2>1, <2>2, Written
<1>3. CASE Untouched(m) \/ Dropped(m)
  BY <1>3, ToldIs
<1>4. CASE m.kind \in {"label", "unlabel"} /\ m.label \in Request
  <2>1. "labels" \in Field
    BY DEF Field
  <2>2. told.labels \in SUBSET Request
    BY <2>1 DEF Row
  <2>3. told.labels \cup {m.label} \in SUBSET Request /\ told.labels \ {m.label} \in SUBSET Request
    BY <1>4, <2>2
  <2>4. \/ Told(m, q) = With(told, "labels", told.labels \cup {m.label})
        \/ Told(m, q) = With(told, "labels", told.labels \ {m.label})
    BY <1>4, ToldIs
  <2> QED BY <2>1, <2>3, <2>4, Written
<1>5. m.kind = "dropped" => Dropped(m)
  BY DEF Dropped
<1> QED BY <1>1, <1>2, <1>3, <1>4, <1>5, MutationIs

\* What is left of the cache of a browser when a request is settled.
LEMMA RolledBackIs ==
    ASSUME NEW c \in Cached(Row, Request), NEW q \in Request, snapshot[q] \in SUBSET Row
    PROVE  /\ RolledBack(c, q) \in Cached(Row, Request)
           /\ RolledBack(c, q).fetch = c.fetch /\ RolledBack(c, q).missing = c.missing
           /\ RolledBack(c, q).late = c.late /\ RolledBack(c, q).answer = c.answer
           /\ RolledBack(c, q).deaf = c.deaf /\ RolledBack(c, q).failed = c.failed
           /\ op[q].kind # "status" => RolledBack(c, q) = c
           /\ RolledBack(c, q).data = {} => c.data = {}
  BY DEF RolledBack, Cached

-----------------------------------------------------------------------------
(* Types, and what a request holds at each await.                          *)

\* labels are sent as shown with one added or taken away
Fine(m) ==
    /\ m.kind = "label" => m.list = m.shown \cup {m.label}
    /\ m.kind = "unlabel" => m.list = m.shown \ {m.label}

\* A request that has found the row holds one copy of it, and asks for a change
\* that the row knows; its answer is there when it is to be told.
SoundAt(q) ==
    /\ pc[q] # "idle" => op[q] \in Mutation /\ Fine(op[q])
    /\ pc[q] = "save" => op[q].kind # "unknown" /\ \E row \in Row : loaded[q] = {row}
    /\ pc[q] \in {"replied", "done"} => reply[q] # "none"

Sound == \A q \in Request : SoundAt(q)

Core == TypeOK /\ Sound

\* Nothing is asked for at first.
LEMMA CoreInit == Init => Core
<1> SUFFICES ASSUME Init PROVE Core
  OBVIOUS
<1>1. FirstRow \in Row
  BY DEF FirstRow, Row
<1>2. NoData \in Cached(Row, Request) /\ Sent(NoData) \in Cached(Row, Request)
  BY DEF NoData, Cached, Sent, Idle
<1>3. cache \in [Browser -> [Query -> Cached(Row, Request)]]
  <2>1. [tasks |-> Sent(NoData), detail |-> NoData] \in [Query -> Cached(Row, Request)]
    BY <1>2 DEF Query
  <2> QED BY <2>1 DEF Init
<1>4. TypeOK
  <2>1. /\ pc \in [Request -> {"idle"}] /\ op \in [Request -> {NoMutation}]
        /\ loaded \in [Request -> {{}}] /\ snapshot \in [Request -> {{}}]
        /\ reply \in [Request -> {"none"}] /\ draft \in [Browser -> {{}}]
    BY DEF Init
  <2>2. /\ loaded \in [Request -> SUBSET Row] /\ snapshot \in [Request -> SUBSET Row]
        /\ draft \in [Browser -> SUBSET Draft]
        /\ pc \in [Request -> {"idle", "sent", "save", "replied", "done"}]
        /\ op \in [Request -> Mutation \cup {NoMutation}]
        /\ reply \in [Request -> {"none", "ok", "error"}]
    BY <2>1
  <2>3. /\ table \in Row /\ told \in Row /\ disturbed \subseteq Request
        /\ fetches \in 0..MaxFetches /\ faults \in 0..MaxFaults
    BY <1>1 DEF Init
  <2>4. muddled \in BOOLEAN
    BY DEF Init
  <2> QED BY <1>3, <2>2, <2>3, <2>4 DEF TypeOK
<1>5. Sound
  BY DEF Init, Sound, SoundAt
<1> QED BY <1>4, <1>5 DEF Core

\* A request in the browser is asked for m, and nothing else is touched.
Asked(q, m) ==
    /\ Start(q, m)
    /\ UNCHANGED <<table, loaded, reply, snapshot, cache, history, bounds>>

\* Every mutation but a status change touches no query before its answer.
MutateStep ==
    \E q \in Request, m \in Mutation :
        /\ m.kind # "status" /\ Fine(m)
        /\ Asked(q, m)
        /\ draft' \in [Browser -> SUBSET Draft]

LEMMA MutateIs ==
    ASSUME Core, NEW b \in Browser, NEW q \in Request,
           \/ Place(b, q) \/ AssignInPanel(b, q)
           \/ Choose(b, q) \/ ChoosePoints(b, q) \/ ClearPoints(b, q)
           \/ LeaveField(b, q) \/ LeaveRemaining(b, q) \/ SaveText(b, q)
           \/ AddLabel(b, q) \/ RemoveLabel(b, q)
    PROVE  MutateStep
<1>0. /\ draft \in [Browser -> SUBSET Draft]
      /\ cache[b]["detail"].data \in SUBSET Row
  BY DEF Core, TypeOK, Query, Cached
<1> DEFINE Put(m) == /\ m \in Mutation /\ m.kind # "status" /\ Fine(m)
                     /\ Asked(q, m) /\ draft' \in [Browser -> SUBSET Draft]
<1>1. SUFFICES \E m \in Mutation : Put(m)
  BY DEF MutateStep
<1>2. ASSUME NEW kind \in {"place", "choice", "unknown", "dropped"},
             Mutate(q, [kind |-> kind, by |-> b]), UNCHANGED draft
      PROVE  Put([kind |-> kind, by |-> b])
  <2>1. [kind |-> kind, by |-> b] \in Mutation
    BY DEF Mutation
  <2>2. Fine([kind |-> kind, by |-> b])
    BY DEF Fine
  <2> QED BY <1>0, <1>2, <2>1, <2>2 DEF Mutate, Asked
<1>3. ASSUME NEW d \in draft[b], NEW value \in Input(q, d), Leave(b, q, d, value)
      PROVE  \E m \in Mutation : Put(m)
  <2> DEFINE m == [kind |-> d.of, by |-> b, opened |-> d.opened, value |-> value]
  <2>0. d \in Draft
    BY <1>0
  <2>1. d.of \in Typed /\ d.opened \in SUBSET Request /\ value \in SUBSET Request
    BY <1>3, <2>0 DEF Draft, Input
  <2>2. m \in Mutation /\ m.kind # "status"
    BY <2>1 DEF Mutation, Typed
  <2>3. Fine(m)
    BY <2>1 DEF Fine, Typed
  <2>4. draft' \in [Browser -> SUBSET Draft]
    BY <1>0, <1>3 DEF Leave
  <2>5. Put(m)
    BY <1>3, <2>2, <2>3, <2>4 DEF Leave, Mutate, Asked
  <2> QED BY <2>2, <2>5
<1>4. ASSUME NEW kind \in {"label", "unlabel"}, NEW l \in Request,
             NEW row \in cache[b]["detail"].data, NEW list,
             kind = "label" => list = row.labels \cup {l},
             kind = "unlabel" => list = row.labels \ {l},
             Mutate(q, [kind |-> kind, by |-> b, label |-> l, shown |-> row.labels, list |-> list]),
             UNCHANGED draft
      PROVE  \E m \in Mutation : Put(m)
  <2> DEFINE m == [kind |-> kind, by |-> b, label |-> l, shown |-> row.labels, list |-> list]
  <2>0. row \in Row
    BY <1>0
  <2>1. row.labels \in SUBSET Request
    BY <2>0 DEF Row, Field
  <2>2. list \in SUBSET Request
    BY <1>4, <2>1
  <2>3. m \in Mutation /\ m.kind # "status"
    BY <2>1, <2>2 DEF Mutation
  <2>4. Fine(m)
    BY <1>4 DEF Fine
  <2>5. Put(m)
    BY <1>0, <1>4, <2>3, <2>4 DEF Mutate, Asked
  <2> QED BY <2>3, <2>5
<1>5. CASE Place(b, q)
  BY <1>2, <1>5 DEF Place
<1>6. CASE ChoosePoints(b, q)
  <2> DEFINE m == [kind |-> "number", by |-> b, opened |-> {}, value |-> {q}]
  <2>1. m \in Mutation /\ m.kind # "status"
    BY DEF Mutation, Typed
  <2>2. Fine(m)
    BY DEF Fine
  <2>3. Put(m)
    BY <1>0, <1>6, <2>1, <2>2 DEF ChoosePoints, Mutate, Asked
  <2> QED BY <2>1, <2>3
<1>7. CASE AssignInPanel(b, q)
  BY <1>2, <1>7 DEF AssignInPanel
<1>8. CASE ClearPoints(b, q) \/ LeaveRemaining(b, q)
  BY <1>2, <1>8 DEF ClearPoints, LeaveRemaining
<1>9. CASE Choose(b, q)
  BY <1>2, <1>9 DEF Choose
<1>10. CASE LeaveField(b, q)
  <2>1. PICK d \in draft[b] : \E value \in Input(q, d) : Leave(b, q, d, value)
    BY <1>10 DEF LeaveField
  <2> QED BY <1>3, <2>1
<1>11. CASE SaveText(b, q)
  <2>1. PICK d \in draft[b] : \E value \in Input(q, d) : Leave(b, q, d, value)
    BY <1>11 DEF SaveText
  <2> QED BY <1>3, <2>1
<1>12. CASE AddLabel(b, q)
  <2>1. PICK row \in cache[b]["detail"].data :
          Mutate(q, [kind |-> "label", by |-> b, label |-> q, shown |-> row.labels,
                     list |-> row.labels \cup {q}])
    BY <1>12 DEF AddLabel, WithLabel
  <2> QED BY <1>4, <1>12, <2>1 DEF AddLabel
<1>13. CASE RemoveLabel(b, q)
  <2>1. PICK row \in cache[b]["detail"].data : \E l \in row.labels :
          Mutate(q, [kind |-> "unlabel", by |-> b, label |-> l, shown |-> row.labels,
                     list |-> row.labels \ {l}])
    BY <1>13 DEF RemoveLabel
  <2>2. PICK l \in row.labels :
          Mutate(q, [kind |-> "unlabel", by |-> b, label |-> l, shown |-> row.labels,
                     list |-> row.labels \ {l}])
    BY <2>1
  <2>3. row \in Row
    BY <1>0
  <2>4. l \in Request
    BY <2>3 DEF Row, Field
  <2> QED BY <1>4, <1>13, <2>2, <2>4 DEF RemoveLabel
<1> QED BY <1>5, <1>6, <1>7, <1>8, <1>9, <1>10, <1>11, <1>12, <1>13

\* The step of a request on its way: it goes on to its save, or is answered.
GoOn(q) ==
    /\ pc[q] \in {"sent", "save"}
    /\ \/ /\ pc' = [pc EXCEPT ![q] = "save"] /\ op[q].kind # "unknown"
          /\ loaded' = [loaded EXCEPT ![q] = {table}]
          /\ UNCHANGED reply
       \/ /\ pc' = [pc EXCEPT ![q] = "replied"]
          /\ reply' = [reply EXCEPT ![q] = "error"]
          /\ loaded' = loaded \/ loaded' = [loaded EXCEPT ![q] = {}]
    /\ UNCHANGED <<table, op, snapshot, cache, draft, history>>
    /\ fetches' \in 0..MaxFetches /\ faults' \in 0..MaxFaults

LEMMA GoOnIs ==
    ASSUME Core, NEW q \in Request, Validate(q) \/ Find(q) \/ Refuse(q)
    PROVE  GoOn(q)
<1>1. Fault => fetches' \in 0..MaxFetches /\ faults' \in 0..MaxFaults
  BY DEF Fault, Core, TypeOK
<1>2. UNCHANGED bounds => fetches' \in 0..MaxFetches /\ faults' \in 0..MaxFaults
  BY DEF bounds, Core, TypeOK
<1>3. CASE Validate(q)
  BY <1>2, <1>3 DEF Validate, GoOn
<1>4. CASE Find(q)
  BY <1>1, <1>2, <1>4 DEF Find, GoOn
<1>5. CASE Refuse(q)
  BY <1>1, <1>5 DEF Refuse, GoOn
<1> QED BY <1>3, <1>4, <1>5

\* One query of one browser changes, and perhaps what is known of its list.
Fetching(b, k, d) ==
    /\ cache' = [cache EXCEPT ![b][k] = d]
    /\ d \in Cached(Row, Request)
    /\ UNCHANGED <<table, pc, op, loaded, reply, snapshot, draft, told, muddled>>
    /\ disturbed' = disturbed \/ Disturb(b)
    /\ fetches' \in 0..MaxFetches /\ faults' \in 0..MaxFaults

\* A fetch starts, is answered, arrives or fails.
FetchStep(b, k) ==
    LET c == cache[b][k] IN
    \/ Fetching(b, k, Sent(c)) /\ (k = "tasks" => Disturb(b))
    \/ Fetching(b, k, Answered(c, table)) /\ c.fetch = "sent"
    \/ Fetching(b, k, Arrived(c)) /\ c.fetch = "answered"
    \/ Fetching(b, k, Failed(c)) /\ c.fetch # "idle"

LEMMA FetchIs ==
    ASSUME Core, NEW b \in Browser, NEW k \in Query,
           \/ Refetch(b, k) \/ Arrive(b, k) \/ FetchFails(b, k) \/ Serve(b, k)
           \/ OpenPanel(b) /\ k = "detail"
    PROVE  FetchStep(b, k)
<1> DEFINE c == cache[b][k]
<1>0. c \in Cached(Row, Request) /\ table \in Row
  BY DEF Core, TypeOK
<1>1. /\ Sent(c) \in Cached(Row, Request) /\ Answered(c, table) \in Cached(Row, Request)
      /\ Arrived(c) \in Cached(Row, Request) /\ Failed(c) \in Cached(Row, Request)
  BY <1>0, CacheTypes DEF Cached, Answered, Sent, Idle, Arrived, Failed
<1>2. UNCHANGED bounds => fetches' \in 0..MaxFetches /\ faults' \in 0..MaxFaults
  BY DEF bounds, Core, TypeOK
<1>3. Fault => fetches' \in 0..MaxFetches /\ faults' \in 0..MaxFaults
  BY DEF Fault, Core, TypeOK
<1>4. fetches < MaxFetches /\ fetches' = fetches + 1 /\ UNCHANGED faults =>
        fetches' \in 0..MaxFetches /\ faults' \in 0..MaxFaults
  BY DEF Core, TypeOK
<1>5. CASE Refetch(b, k)
  BY <1>1, <1>4, <1>5 DEF Refetch, FetchStep, Fetching
<1>6. CASE Arrive(b, k)
  BY <1>1, <1>2, <1>6 DEF Arrive, FetchStep, Fetching, history
<1>7. CASE FetchFails(b, k)
  BY <1>1, <1>3, <1>7 DEF FetchFails, FetchStep, Fetching, history
<1>8. CASE Serve(b, k)
  BY <1>1, <1>2, <1>8 DEF Serve, FetchStep, Fetching, history
<1>9. CASE OpenPanel(b) /\ k = "detail"
  BY <1>1, <1>4, <1>9 DEF OpenPanel, FetchStep, Fetching, history
<1> QED BY <1>5, <1>6, <1>7, <1>8, <1>9

\* A field is opened, or closed.
Edits == UNCHANGED <<table, pc, op, loaded, reply, snapshot, cache, history, bounds>>
         /\ draft' \in [Browser -> SUBSET Draft]

LEMMA EditsIs ==
    ASSUME Core, NEW b \in Browser, StartEditing(b) \/ CancelEditing(b)
    PROVE  Edits
<1>1. CASE StartEditing(b)
  <2>1. PICK row \in cache[b]["detail"].data, f \in Typed :
           draft' = [draft EXCEPT ![b] = {[of |-> f, opened |-> row[f]]}]
    BY <1>1 DEF StartEditing
  <2>2. row \in Row
    BY DEF Core, TypeOK, Query, Cached
  <2>3. [of |-> f, opened |-> row[f]] \in Draft
    BY <2>2 DEF Draft, Row, Field, Typed
  <2> QED BY <1>1, <2>1, <2>3 DEF StartEditing, Edits, Core, TypeOK
<1>2. CASE CancelEditing(b)
  BY <1>2 DEF CancelEditing, Edits, Core, TypeOK
<1> QED BY <1>1, <1>2

\* All that can happen.
LEMMA StepIs ==
    ASSUME Core, Next
    PROVE  \/ MutateStep \/ Edits
           \/ \E b \in Browser, q \in Request : ChangeStatus(b, q)
           \/ \E b \in Browser, k \in Query : FetchStep(b, k)
           \/ \E q \in Request : GoOn(q) \/ Save(q) \/ Settle(q)
<1>1. CASE \E b \in Browser, q \in Request :
             \/ ChangeStatus(b, q) \/ Place(b, q) \/ AssignInPanel(b, q)
             \/ Choose(b, q) \/ ChoosePoints(b, q) \/ ClearPoints(b, q)
             \/ LeaveField(b, q) \/ LeaveRemaining(b, q) \/ SaveText(b, q)
             \/ AddLabel(b, q) \/ RemoveLabel(b, q)
  BY <1>1, MutateIs
<1>2. CASE \E b \in Browser :
             \/ OpenPanel(b) \/ ServeList(b) \/ ServeDetail(b)
             \/ StartEditing(b) \/ CancelEditing(b)
  <2>1. "tasks" \in Query /\ "detail" \in Query
    BY DEF Query
  <2> QED BY <1>2, <2>1, FetchIs, EditsIs DEF ServeList, ServeDetail
<1>3. CASE \E b \in Browser, k \in Query : Refetch(b, k) \/ Arrive(b, k) \/ FetchFails(b, k)
  BY <1>3, FetchIs
<1>4. CASE \E q \in Request : Validate(q) \/ Find(q) \/ Save(q) \/ Refuse(q) \/ Settle(q)
  BY <1>4, GoOnIs
<1> QED BY <1>1, <1>2, <1>3, <1>4 DEF Next

\* What a request that is saved leaves behind.
LEMMA SaveIs ==
    ASSUME Core, NEW q \in Request, Save(q)
    PROVE  /\ pc[q] = "save" /\ op[q] \in Mutation /\ op[q].kind # "unknown"
           /\ \E row \in Row : loaded[q] = {row} /\ table' = Changed(row, op[q], q)
           /\ table' \in Row /\ told' \in Row
<1>1. pc[q] = "save" /\ op[q] \in Mutation /\ op[q].kind # "unknown" /\ told \in Row
  BY DEF Save, Core, Sound, SoundAt, TypeOK
<1>2. PICK row \in Row : loaded[q] = {row}
  BY <1>1 DEF Core, Sound, SoundAt
<1>3. table' \in {Changed(w, op[q], q) : w \in {row}}
  BY <1>2 DEF Save
<1>4. table' = Changed(row, op[q], q)
  BY <1>3
<1>5. table' \in Row
  BY <1>1, <1>4, ChangedIsRow
<1>6. told' \in Row
  BY <1>1, ToldIsRow DEF Save
<1> QED BY <1>1, <1>2, <1>4, <1>5, <1>6

\* What is settled was replied to, and changes the queries of its browser.
LEMMA SettleIs ==
    ASSUME Core, NEW q \in Request, Settle(q)
    PROVE  /\ pc[q] = "replied" /\ op[q] \in Mutation /\ op[q].by \in Browser
           /\ cache' \in [Browser -> [Query -> Cached(Row, Request)]]
           /\ \A b \in Browser, k \in Query :
                 LET c == IF k = "tasks" THEN RolledBack(cache[b][k], q) ELSE cache[b][k] IN
                 cache'[b][k] = IF b # op[q].by THEN cache[b][k]
                                ELSE IF k \in Invalidates(q) /\ c # NoData
                                     THEN Invalidated(c, q) ELSE c
<1>1. pc[q] = "replied"
  BY DEF Settle
<1>2. op[q] \in Mutation
  BY <1>1 DEF Core, Sound, SoundAt
<1>3. op[q].by \in Browser
  BY <1>2, MutationIs
<1> DEFINE b0 == op[q].by
           seen == [cache[b0] EXCEPT !["tasks"] = RolledBack(@, q)]
           new == [k \in Query |-> IF k \in Invalidates(q) /\ seen[k] # NoData
                                   THEN Invalidated(seen[k], q) ELSE seen[k]]
<1>4. cache' = [cache EXCEPT ![b0] = new]
  BY DEF Settle
<1>5. snapshot[q] \in SUBSET Row /\ cache \in [Browser -> [Query -> Cached(Row, Request)]]
  BY DEF Core, TypeOK
<1>6. \A k \in Query : seen[k] = IF k = "tasks" THEN RolledBack(cache[b0][k], q) ELSE cache[b0][k]
  BY <1>3, <1>5
<1>7. \A k \in Query : RolledBack(cache[b0][k], q) \in Cached(Row, Request)
  BY <1>3, <1>5, RolledBackIs
<1>8. \A k \in Query : seen[k] \in Cached(Row, Request)
  BY <1>3, <1>5, <1>6, <1>7
<1>9. \A k \in Query : new[k] \in Cached(Row, Request)
  <2> TAKE k \in Query
  <2>1. Invalidated(seen[k], q) \in Cached(Row, Request)
    BY <1>8, CacheTypes
  <2> QED BY <1>8, <2>1
<1>10. new \in [Query -> Cached(Row, Request)]
  BY <1>9
<1>11. \A k \in Query : new[k] = IF k \in Invalidates(q) /\ seen[k] # NoData
                                  THEN Invalidated(seen[k], q) ELSE seen[k]
  OBVIOUS
<1> HIDE DEF new, seen
<1>12. cache' \in [Browser -> [Query -> Cached(Row, Request)]]
  BY <1>3, <1>4, <1>5, <1>10
<1>13. \A b \in Browser : cache'[b] = IF b = b0 THEN new ELSE cache[b]
  BY <1>3, <1>4, <1>5
<1> QED BY <1>1, <1>2, <1>3, <1>6, <1>11, <1>12, <1>13

\* A status change cancels the fetch of the list and shows the status.
LEMMA ChangeStatusIs ==
    ASSUME Core, NEW b \in Browser, NEW q \in Request, ChangeStatus(b, q)
    PROVE  LET m == [kind |-> "status", by |-> b]
           IN  /\ m \in Mutation /\ Start(q, m)
               /\ cache' \in [Browser -> [Query -> Cached(Row, Request)]]
               /\ \A b2 \in Browser, k \in Query :
                    cache'[b2][k] = IF b2 = b /\ k = "tasks" THEN OnMutate(cache[b][k], q)
                                    ELSE cache[b2][k]
<1> DEFINE m == [kind |-> "status", by |-> b]
<1>1. m \in Mutation
  BY DEF Mutation
<1>2. "tasks" \in Query
  BY DEF Query
<1>3. cache \in [Browser -> [Query -> Cached(Row, Request)]]
  BY DEF Core, TypeOK
<1>4. OnMutate(cache[b]["tasks"], q) \in Cached(Row, Request)
  BY <1>2, <1>3, OnMutateIs
<1>5. cache' = [cache EXCEPT ![b]["tasks"] = OnMutate(cache[b]["tasks"], q)]
  BY DEF ChangeStatus
<1>6. cache' \in [Browser -> [Query -> Cached(Row, Request)]]
  BY <1>2, <1>3, <1>4, <1>5
<1>7. \A b2 \in Browser, k \in Query :
        cache'[b2][k] = IF b2 = b /\ k = "tasks" THEN OnMutate(cache[b][k], q) ELSE cache[b2][k]
  BY <1>2, <1>3, <1>5
<1>8. Start(q, m)
  BY DEF ChangeStatus
<1> QED BY <1>1, <1>6, <1>7, <1>8

\* A save tells every query that it is behind.
LEMMA MissingIs ==
    ASSUME Core, NEW q \in Request, Save(q)
    PROVE  /\ cache' \in [Browser -> [Query -> Cached(Row, Request)]]
           /\ \A b \in Browser, k \in Query : cache'[b][k] = Missing(cache[b][k], q)
<1>1. cache' = [b \in Browser |-> [k \in Query |-> Missing(cache[b][k], q)]]
  BY DEF Save
<1>2. cache \in [Browser -> [Query -> Cached(Row, Request)]]
  BY DEF Core, TypeOK
<1>3. \A b \in Browser, k \in Query : Missing(cache[b][k], q) \in Cached(Row, Request)
  BY <1>2, CacheTypes
<1> QED BY <1>1, <1>3

\* What a request holds is kept by every step.
LEMMA CoreStep == Core /\ [Next]_vars => Core'
<1> SUFFICES ASSUME Core, [Next]_vars PROVE Core'
  OBVIOUS
<1>0. TypeOK /\ Sound
  BY DEF Core
<1>1. CASE MutateStep
  <2>1. PICK q \in Request, m \in Mutation :
          Fine(m) /\ Asked(q, m) /\ draft' \in [Browser -> SUBSET Draft]
    BY <1>1 DEF MutateStep
  <2>2. TypeOK'
    BY <1>0, <2>1 DEF TypeOK, Asked, Start, history, bounds
  <2>3. \A p \in Request : SoundAt(p)'
    BY <1>0, <2>1 DEF TypeOK, Sound, SoundAt, Asked, Start, Fine
  <2> QED BY <2>2, <2>3 DEF Core, Sound
<1>2. CASE Edits
  BY <1>0, <1>2 DEF Core, TypeOK, Sound, SoundAt, Edits, history, bounds, Fine
<1>3. ASSUME NEW b \in Browser, NEW q \in Request, ChangeStatus(b, q)
      PROVE  Core'
  <2> DEFINE m == [kind |-> "status", by |-> b]
  <2>1. /\ m \in Mutation /\ Start(q, m) /\ Fine(m)
        /\ cache' \in [Browser -> [Query -> Cached(Row, Request)]]
    BY <1>3, ChangeStatusIs DEF Fine
  <2>2. snapshot' \in [Request -> SUBSET Row]
    <3>1. cache[b]["tasks"].data \in SUBSET Row
      BY <1>0 DEF TypeOK, Query, Cached
    <3> QED BY <1>0, <1>3, <3>1 DEF TypeOK, ChangeStatus
  <2>3. disturbed' \subseteq Request
    BY <1>0, <1>3 DEF ChangeStatus, Disturb, OutOf, TypeOK
  <2> HIDE DEF m
  <2>4. TypeOK'
    BY <1>0, <1>3, <2>1, <2>2, <2>3 DEF TypeOK, ChangeStatus, Start, bounds
  <2>5. \A p \in Request : SoundAt(p)'
    BY <1>0, <1>3, <2>1 DEF TypeOK, Sound, SoundAt, ChangeStatus, Start, Fine
  <2> QED BY <2>4, <2>5 DEF Core, Sound
<1>4. ASSUME NEW b \in Browser, NEW k \in Query, NEW d, Fetching(b, k, d)
      PROVE  Core'
  <2>1. disturbed' \subseteq Request
    BY <1>0, <1>4 DEF Fetching, Disturb, OutOf, TypeOK
  <2>2. cache' \in [Browser -> [Query -> Cached(Row, Request)]]
    BY <1>0, <1>4 DEF Fetching, TypeOK
  <2>3. TypeOK'
    BY <1>0, <1>4, <2>1, <2>2 DEF TypeOK, Fetching
  <2>4. \A p \in Request : SoundAt(p)'
    BY <1>0, <1>4 DEF Sound, SoundAt, Fetching, Fine
  <2> QED BY <2>3, <2>4 DEF Core, Sound
<1>5. ASSUME NEW q \in Request, GoOn(q)
      PROVE  Core'
  <2>1. TypeOK'
    BY <1>0, <1>5 DEF TypeOK, GoOn, history
  <2>2. \A p \in Request : SoundAt(p)'
    BY <1>0, <1>5 DEF TypeOK, Sound, SoundAt, GoOn, Fine
  <2> QED BY <2>1, <2>2 DEF Core, Sound
<1>6. ASSUME NEW q \in Request, Save(q)
      PROVE  Core'
  <2>1. table' \in Row /\ told' \in Row /\ cache' \in [Browser -> [Query -> Cached(Row, Request)]]
    BY <1>6, SaveIs, MissingIs
  <2>2. fetches' \in 0..MaxFetches /\ faults' \in 0..MaxFaults
    BY <1>0, <1>6 DEF Save, Fault, bounds, TypeOK
  <2>3. muddled' \in BOOLEAN
    BY <1>0, <1>6 DEF Save, LeftBehind, TypeOK
  <2>4. /\ reply' \in [Request -> {"none", "ok", "error"}] /\ reply'[q] # "none"
        /\ \A p \in Request \ {q} : reply'[p] = reply[p]
    BY <1>0, <1>6 DEF Save, TypeOK
  <2>5. TypeOK'
    BY <1>0, <1>6, <2>1, <2>2, <2>3, <2>4 DEF TypeOK, Save
  <2>6. \A p \in Request : SoundAt(p)'
    BY <1>0, <1>6, <2>4 DEF TypeOK, Sound, SoundAt, Save, Fine
  <2> QED BY <2>5, <2>6 DEF Core, Sound
<1>7. ASSUME NEW q \in Request, Settle(q)
      PROVE  Core'
  <2>1. cache' \in [Browser -> [Query -> Cached(Row, Request)]]
    BY <1>7, SettleIs
  <2>2. disturbed' \subseteq Request
    BY <1>0, <1>7 DEF Settle, Disturb, OutOf, TypeOK
  <2>3. TypeOK'
    BY <1>0, <1>7, <2>1, <2>2 DEF TypeOK, Settle, bounds
  <2>4. \A p \in Request : SoundAt(p)'
    BY <1>0, <1>7 DEF TypeOK, Sound, SoundAt, Settle, Fine
  <2> QED BY <2>3, <2>4 DEF Core, Sound
<1>8. CASE UNCHANGED vars
  BY <1>0, <1>8 DEF vars, history, bounds, Core, TypeOK, Sound, SoundAt, Fine
<1> QED BY <1>1, <1>2, <1>3, <1>4, <1>5, <1>6, <1>7, <1>8, StepIs DEF FetchStep

\* The types hold.
THEOREM TypeCorrect == Spec => []TypeOK
<1>1. Core => TypeOK
  BY DEF Core
<1> QED BY <1>1, CoreInit, CoreStep, PTL DEF Spec

-----------------------------------------------------------------------------
(* The row holds what users asked for last.                                *)

\* the fields that users can fill
Stored == Field \ {"remaining"}

\* In the row and in every copy the remaining estimate is the original one.
Paired ==
    /\ table.remaining = table.estimate
    /\ \A q \in Request : \A row \in loaded[q] : row.remaining = row.estimate

\* While nothing was saved from something left behind, the row is what was asked for.
AsTold == Paired /\ (~muddled => \A f \in Stored : table[f] = told[f])

\* A save whose list, field and copy are the row's writes what was asked for.
LEMMA SavesAsTold ==
    ASSUME Core, NEW q \in Request, Save(q), \A f \in Stored : table[f] = told[f],
           ~LeftBehind(op[q], q)
    PROVE  \A f \in Stored : table'[f] = told'[f]
<1> DEFINE m == op[q]
<1>1. /\ m \in Mutation /\ m.kind # "unknown" /\ Fine(m) /\ pc[q] = "save"
      /\ loaded[q] = {table} /\ table' = Changed(table, m, q) /\ told' = Told(m, q)
  BY SaveIs DEF Save, LeftBehind, Core, Sound, SoundAt
<1>2. told \in Row /\ table \in Row /\ {q} \in SUBSET Request /\ Stored \subseteq Field
  BY DEF Core, TypeOK, Stored
<1>3. CASE m.kind \in Plain
  <2>1. table' = With(table, m.kind, {q})
    BY <1>1, <1>3, ChangedIs
  <2>2. told' = With(told, m.kind, {q})
    BY <1>1, <1>3, ToldIs
  <2>3. m.kind \in Field
    BY <1>3 DEF Plain, Field
  <2> QED BY <1>2, <2>1, <2>2, <2>3, Written
<1>4. CASE Dropped(m)
  <2>1. table' = table
    BY <1>1, <1>4, ChangedIs
  <2>2. told' = told
    BY <1>1, <1>4, ToldIs
  <2> QED BY <2>1, <2>2
<1>5. CASE m.kind \in Typed /\ ~Dropped(m)
  <2>0. m.kind \in Field /\ m.value \in SUBSET Request
    BY <1>1, <1>5, MutationIs DEF Typed, Field, Plain
  <2>1. \A f \in Stored : table'[f] = IF f = m.kind THEN m.value ELSE table[f]
    <3>1. CASE m.kind = "estimate"
      <4>1. table' = With(With(table, "estimate", m.value), "remaining", m.value)
        BY <1>1, <1>5, <3>1, ChangedIs
      <4>2. "estimate" \in Field /\ "remaining" \in Field /\ "remaining" \notin Stored
        BY DEF Field, Stored
      <4>3. /\ With(table, "estimate", m.value) \in Row
            /\ \A f \in Field : With(table, "estimate", m.value)[f]
                                 = IF f = "estimate" THEN m.value ELSE table[f]
        BY <1>2, <2>0, <4>2, Written
      <4>4. \A f \in Field : table'[f] = IF f = "remaining" THEN m.value
                                         ELSE With(table, "estimate", m.value)[f]
        BY <2>0, <4>1, <4>2, <4>3, Written
      <4> QED BY <1>2, <3>1, <4>2, <4>3, <4>4
    <3>2. CASE m.kind \in {"text", "number"}
      <4>1. table' = With(table, m.kind, m.value)
        BY <1>1, <3>2, ChangedIs
      <4> QED BY <1>2, <2>0, <4>1, Written
    <3> QED BY <1>5, <3>1, <3>2 DEF Typed
  <2>2. CASE Untouched(m)
    <3>1. m.value = table[m.kind]
      BY <1>5, <2>2 DEF LeftBehind
    <3>2. told' = told
      BY <1>1, <2>2, ToldIs
    <3> QED BY <2>1, <3>1, <3>2
  <2>3. CASE ~Untouched(m)
    <3>1. told' = With(told, m.kind, m.value)
      BY <1>1, <1>5, <2>3, ToldIs
    <3> QED BY <1>2, <2>0, <2>1, <3>1, Written
  <2> QED BY <2>2, <2>3
<1>6. CASE m.kind \in {"label", "unlabel"}
  <2>0. "labels" \in Field /\ "labels" \in Stored
    BY DEF Field, Stored
  <2>1. m.shown = told.labels
    BY <1>6, <2>0 DEF LeftBehind
  <2>2. table' = With(table, "labels", m.list) /\ m.list \in SUBSET Request
    BY <1>1, <1>6, ChangedIs, MutationIs DEF Plain, Typed
  <2>3. told' = With(told, "labels", m.list)
    <3>1. CASE m.kind = "label"
      BY <1>1, <2>1, <3>1, ToldIs DEF Fine
    <3>2. CASE m.kind = "unlabel"
      BY <1>1, <2>1, <3>2, ToldIs DEF Fine
    <3> QED BY <1>6, <3>1, <3>2
  <2> QED BY <1>2, <2>0, <2>2, <2>3, Written
<1>7. m.kind = "dropped" => Dropped(m)
  BY DEF Dropped
<1> QED BY <1>1, <1>3, <1>4, <1>5, <1>6, <1>7, MutationIs

\* A save writes both estimates or none.
LEMMA SavesPaired ==
    ASSUME Core, NEW q \in Request, Save(q), Paired
    PROVE  Paired'
<1> DEFINE m == op[q]
<1>1. PICK row \in Row : loaded[q] = {row} /\ table' = Changed(row, m, q)
  BY SaveIs
<1>2. m \in Mutation /\ m.kind # "unknown" /\ {q} \in SUBSET Request
  BY DEF Save, Core, Sound, SoundAt
<1>3. row.remaining = row.estimate /\ "estimate" \in Field /\ "remaining" \in Field
  BY <1>1 DEF Paired, Field
<1>4. ASSUME NEW f \in Field \ {"estimate", "remaining"}, NEW v \in SUBSET Request,
             table' = With(row, f, v)
      PROVE  table'["remaining"] = table'["estimate"]
  BY <1>1, <1>3, <1>4, Written
<1>5. table'["remaining"] = table'["estimate"]
  <2>1. CASE m.kind \in Plain
    <3>1. m.kind \in Field \ {"estimate", "remaining"}
      BY <2>1 DEF Plain, Field
    <3>2. table' = With(row, m.kind, {q})
      BY <1>1, <2>1, ChangedIs
    <3> QED BY <1>2, <1>4, <3>1, <3>2
  <2>2. CASE Dropped(m)
    BY <1>1, <1>3, <2>2, ChangedIs
  <2>3. CASE m.kind \in {"text", "number"} /\ m.value \in SUBSET Request
    <3>1. m.kind \in Field \ {"estimate", "remaining"}
      BY <2>3 DEF Field
    <3>2. table' = With(row, m.kind, m.value)
      BY <1>1, <2>3, ChangedIs
    <3> QED BY <1>4, <2>3, <3>1, <3>2
  <2>4. CASE m.kind = "estimate" /\ ~Dropped(m) /\ m.value \in SUBSET Request
    <3>1. table' = With(With(row, "estimate", m.value), "remaining", m.value)
      BY <1>1, <2>4, ChangedIs
    <3>2. /\ With(row, "estimate", m.value) \in Row
          /\ With(row, "estimate", m.value)["estimate"] = m.value
      BY <1>1, <1>3, <2>4, Written
    <3> QED BY <1>3, <2>4, <3>1, <3>2, Written
  <2>5. CASE m.kind \in {"label", "unlabel"} /\ m.list \in SUBSET Request
    <3>1. "labels" \in Field \ {"estimate", "remaining"}
      BY DEF Field
    <3>2. table' = With(row, "labels", m.list)
      BY <1>1, <2>5, ChangedIs
    <3> QED BY <1>4, <2>5, <3>1, <3>2
  <2>6. m.kind = "dropped" => Dropped(m)
    BY DEF Dropped
  <2> QED BY <1>2, <2>1, <2>2, <2>3, <2>4, <2>5, <2>6, MutationIs DEF Typed
<1>6. \A r \in Request : loaded'[r] \subseteq loaded[r]
  BY DEF Save, Core, TypeOK
<1> QED BY <1>5, <1>6 DEF Paired

LEMMA AsToldStep == Core /\ AsTold /\ [Next]_vars => AsTold'
<1> SUFFICES ASSUME Core, AsTold, [Next]_vars PROVE AsTold'
  OBVIOUS
<1>1. ASSUME table' = table, told' = told, muddled' = muddled, loaded' = loaded
      PROVE  AsTold'
  BY <1>1 DEF AsTold, Paired
<1>2. ASSUME NEW q \in Request, Save(q)
      PROVE  AsTold'
  <2>1. muddled' = (muddled \/ LeftBehind(op[q], q))
    BY <1>2 DEF Save
  <2>2. Paired'
    BY <1>2, SavesPaired DEF AsTold
  <2>3. CASE muddled \/ LeftBehind(op[q], q)
    BY <2>1, <2>2, <2>3 DEF AsTold
  <2>4. CASE ~muddled /\ ~LeftBehind(op[q], q)
    <3>1. \A f \in Stored : table[f] = told[f]
      BY <2>4 DEF AsTold
    <3>2. \A f \in Stored : table'[f] = told'[f]
      BY <1>2, <2>4, <3>1, SavesAsTold
    <3> QED BY <2>2, <3>2 DEF AsTold, Stored
  <2> QED BY <2>3, <2>4
<1>3. CASE UNCHANGED vars
  BY <1>1, <1>3 DEF vars, history
<1>4. CASE Next
  <2>1. CASE MutateStep
    BY <1>1, <2>1 DEF MutateStep, Asked, history
  <2>2. CASE Edits
    BY <1>1, <2>2 DEF Edits, history
  <2>3. CASE \E b \in Browser, q \in Request : ChangeStatus(b, q)
    BY <1>1, <2>3 DEF ChangeStatus
  <2>4. CASE \E b \in Browser, k \in Query : FetchStep(b, k)
    BY <1>1, <2>4 DEF FetchStep, Fetching
  <2>5. CASE \E q \in Request : GoOn(q)
    <3>1. PICK q \in Request : GoOn(q)
      BY <2>5
    <3>2. \A r \in Request : loaded'[r] \subseteq loaded[r] \cup {table}
      BY <3>1 DEF GoOn, Core, TypeOK
    <3> QED BY <3>1, <3>2 DEF GoOn, history, AsTold, Paired
  <2>6. CASE \E q \in Request : Save(q) \/ Settle(q)
    BY <1>1, <1>2, <2>6 DEF Settle
  <2> QED BY <1>4, <2>1, <2>2, <2>3, <2>4, <2>5, <2>6, StepIs
<1> QED BY <1>3, <1>4

\* No order of edits, errors, lost answers and fetches loses what users asked
\* for: only lists, fields and copies left behind do, and the edits that are
\* answered as done and dropped.
THEOREM EditsSurvive == Spec => []EditsHold
<1>1. Init => AsTold
  <2> SUFFICES ASSUME Init PROVE AsTold
    OBVIOUS
  <2>1. FirstRow.remaining = FirstRow.estimate
    BY DEF FirstRow, Field
  <2> QED BY <2>1 DEF Init, AsTold, Paired
<1>2. Core /\ AsTold => EditsHold
  BY DEF AsTold, Paired, Stored, EditsHold
<1> QED BY <1>1, <1>2, CoreInit, CoreStep, AsToldStep, PTL DEF Spec

-----------------------------------------------------------------------------
(* A status that is chosen is shown until the answer is here.              *)

\* the change of status of q is out
Chosen(q) == pc[q] \in {"sent", "save", "replied"} /\ op[q].kind = "status"

\* It is shown, and no fetch is out that could change it, unless the list was
\* touched since.
KeptAt(q) ==
    Chosen(q) /\ q \notin disturbed =>
        /\ cache[op[q].by]["tasks"].fetch = "idle"
        /\ \A row \in cache[op[q].by]["tasks"].data : row.status = {q}

Kept == \A q \in Request : KeptAt(q)

\* A list that is touched is known to be.
LEMMA DisturbIs ==
    ASSUME Core, NEW b, NEW q \in Request, Chosen(q), op[q].by = b, Disturb(b)
    PROVE  q \in disturbed'
  BY DEF Core, TypeOK, Chosen, Disturb, OutOf

LEMMA KeptStep == Core /\ Kept /\ [Next]_vars => Kept'
<1> SUFFICES ASSUME Core, Kept, [Next]_vars, NEW q \in Request PROVE KeptAt(q)'
  BY DEF Kept
<1>0. /\ KeptAt(q) /\ cache \in [Browser -> [Query -> Cached(Row, Request)]] /\ "tasks" \in Query
      /\ Chosen(q) => op[q] \in Mutation /\ op[q].by \in Browser
  <2>1. Chosen(q) => op[q] \in Mutation
    BY DEF Core, Sound, SoundAt, Chosen
  <2> QED BY <2>1, MutationIs DEF Core, TypeOK, Kept, Query
\* the request was out, and neither the list nor its fetch was touched
<1>1. ASSUME Chosen(q)' /\ q \notin disturbed' => Chosen(q) /\ q \notin disturbed /\ op'[q] = op[q],
             Chosen(q)' /\ q \notin disturbed' =>
                 /\ cache'[op[q].by]["tasks"].data = cache[op[q].by]["tasks"].data
                 /\ cache[op[q].by]["tasks"].fetch = "idle" =>
                       cache'[op[q].by]["tasks"].fetch = "idle"
      PROVE  KeptAt(q)'
  BY <1>0, <1>1 DEF KeptAt
<1>2. CASE MutateStep
  <2>1. PICK p \in Request, m \in Mutation : m.kind # "status" /\ Asked(p, m)
    BY <1>2 DEF MutateStep
  <2>2. Chosen(q)' => Chosen(q) /\ op'[q] = op[q]
    BY <2>1 DEF Chosen, Asked, Start, Core, TypeOK
  <2> QED BY <1>1, <2>1, <2>2 DEF Asked, history
<1>3. CASE Edits
  BY <1>1, <1>3 DEF Edits, history, Chosen
<1>4. ASSUME NEW b \in Browser, NEW p \in Request, ChangeStatus(b, p)
      PROVE  KeptAt(q)'
  <2> DEFINE c == cache[b]["tasks"]
  <2>0. c \in Cached(Row, Request)
    BY <1>0
  <2>1. /\ pc[p] = "idle" /\ pc' = [pc EXCEPT ![p] = "sent"]
        /\ op' = [op EXCEPT ![p] = [kind |-> "status", by |-> b]]
        /\ cache'[b]["tasks"] = OnMutate(c, p)
        /\ \A b2 \in Browser \ {b} : cache'[b2]["tasks"] = cache[b2]["tasks"]
        /\ Disturb(b)
    BY <1>0, <1>4, ChangeStatusIs DEF ChangeStatus, Start
  <2>2. CASE q = p
    <3>1. op'[q].by = b
      BY <2>1, <2>2 DEF Core, TypeOK
    <3> QED BY <2>0, <2>1, <2>2, <3>1, OnMutateIs DEF KeptAt
  <2>3. CASE q # p
    <3>1. pc'[q] = pc[q] /\ op'[q] = op[q]
      BY <2>1, <2>3
    <3>2. Chosen(q)' => Chosen(q)
      BY <3>1 DEF Chosen
    <3>3. disturbed \subseteq disturbed'
      BY <2>1 DEF Disturb
    <3>4. Chosen(q) /\ q \notin disturbed' => op[q].by # b
      BY <2>1, DisturbIs
    <3> QED BY <1>0, <1>1, <2>1, <3>1, <3>2, <3>3, <3>4
  <2> QED BY <2>2, <2>3
<1>5. ASSUME NEW b \in Browser, NEW k \in Query, FetchStep(b, k)
      PROVE  KeptAt(q)'
  <2> DEFINE c == cache[b][k]
  <2>0. c \in Cached(Row, Request)
    BY <1>0
  <2>1. PICK d \in Cached(Row, Request) :
          /\ cache' = [cache EXCEPT ![b][k] = d]
          /\ pc' = pc /\ op' = op
          /\ disturbed' = disturbed \/ Disturb(b)
          /\ c.fetch = "idle" => k = "detail" \/ Disturb(b)
    BY <1>5, <2>0 DEF FetchStep, Fetching, Query
  <2>2. Chosen(q)' => Chosen(q)
    BY <2>1 DEF Chosen
  <2>3. disturbed \subseteq disturbed'
    BY <2>1 DEF Disturb
  <2>4. CASE k = "tasks" /\ Chosen(q) /\ op[q].by = b
    <3>1. q \in disturbed \/ c.fetch = "idle"
      BY <1>0, <2>4 DEF KeptAt
    <3>2. q \in disturbed'
      BY <2>1, <2>3, <2>4, <3>1, DisturbIs
    <3> QED BY <3>2 DEF KeptAt
  <2>5. CASE ~(k = "tasks" /\ Chosen(q) /\ op[q].by = b)
    <3>1. Chosen(q) => cache'[op[q].by]["tasks"] = cache[op[q].by]["tasks"]
      BY <1>0, <2>1, <2>5
    <3> QED BY <1>1, <2>1, <2>2, <2>3, <3>1
  <2> QED BY <2>4, <2>5
<1>6. ASSUME NEW p \in Request, GoOn(p)
      PROVE  KeptAt(q)'
  <2>1. Chosen(q)' => Chosen(q)
    BY <1>6 DEF Chosen, GoOn, Core, TypeOK
  <2> QED BY <1>1, <1>6, <2>1 DEF GoOn, history
<1>7. ASSUME NEW p \in Request, Save(p)
      PROVE  KeptAt(q)'
  <2>1. Chosen(q)' => Chosen(q)
    BY <1>7 DEF Chosen, Save, Core, TypeOK
  <2>2. Chosen(q) => /\ cache[op[q].by]["tasks"] \in Cached(Row, Request)
                     /\ cache'[op[q].by]["tasks"] = Missing(cache[op[q].by]["tasks"], p)
    BY <1>0, <1>7, MissingIs
  <2>3. Chosen(q) => /\ cache'[op[q].by]["tasks"].data = cache[op[q].by]["tasks"].data
                     /\ cache'[op[q].by]["tasks"].fetch = cache[op[q].by]["tasks"].fetch
    BY <2>2 DEF Missing, Cached
  <2> QED BY <1>1, <1>7, <2>1, <2>3 DEF Save
<1>8. ASSUME NEW p \in Request, Settle(p)
      PROVE  KeptAt(q)'
  <2>1. /\ pc' = [pc EXCEPT ![p] = "done"] /\ op' = op
        /\ IF "tasks" \in Invalidates(p) THEN Disturb(op[p].by) ELSE UNCHANGED disturbed
    BY <1>8 DEF Settle
  <2>2. Chosen(q)' => Chosen(q)
    BY <2>1 DEF Chosen, Core, TypeOK
  <2>3. disturbed \subseteq disturbed'
    BY <2>1 DEF Disturb
  <2>4. CASE "tasks" \in Invalidates(p) /\ Chosen(q) /\ op[q].by = op[p].by
    BY <2>1, <2>4, DisturbIs DEF KeptAt
  <2>5. CASE ~("tasks" \in Invalidates(p) /\ Chosen(q) /\ op[q].by = op[p].by)
    <3>1. "tasks" \notin Invalidates(p) => op[p].kind # "status"
      BY DEF Invalidates
    <3>2. /\ op[p].by \in Browser
          /\ \A b \in Browser :
               LET c == RolledBack(cache[b]["tasks"], p) IN
               cache'[b]["tasks"] = IF b # op[p].by THEN cache[b]["tasks"]
                                    ELSE IF "tasks" \in Invalidates(p) /\ c # NoData
                                         THEN Invalidated(c, p) ELSE c
      BY <1>0, <1>8, SettleIs
    <3>3. op[p].kind # "status" => \A b \in Browser : RolledBack(cache[b]["tasks"], p) = cache[b]["tasks"]
      BY DEF RolledBack
    <3>4. Chosen(q) => cache'[op[q].by]["tasks"] = cache[op[q].by]["tasks"]
      BY <1>0, <2>5, <3>1, <3>2, <3>3
    <3> QED BY <1>1, <2>1, <2>2, <2>3, <3>4
  <2> QED BY <2>4, <2>5
<1>9. CASE UNCHANGED vars
  BY <1>1, <1>9 DEF vars, history, Chosen
<1> QED BY <1>2, <1>3, <1>4, <1>5, <1>6, <1>7, <1>8, <1>9, StepIs

\* No fetch that was out before brings the old status back.
THEOREM OptimismIsKept == Spec => []OptimismHolds
<1>1. Init => Kept
  BY DEF Init, Kept, KeptAt, Chosen
<1>2. Kept => OptimismHolds
  BY DEF Kept, KeptAt, Chosen, OptimismHolds
<1> QED BY <1>1, <1>2, CoreInit, CoreStep, KeptStep, PTL DEF Spec

-----------------------------------------------------------------------------
(* A query at rest is behind for a reason.                                 *)

\* a query that shows what it has fetched: nothing is out that will change it
Settled(b, k) ==
    /\ cache[b][k].data # {} /\ cache[b][k].fetch = "idle" /\ ~cache[b][k].failed
    /\ k = "tasks" => \A q \in Request : Chosen(q) => op[q].by # b

\* why b need not know of r in query k
Excused(b, k, r) ==
    op[r].by # b \/ pc[r] # "done" \/ Unheard(r, k) \/ r \in cache[b][k].deaf

\* What a query shows, and what an answer brings, is the row but for what was
\* saved since; of its own requests a browser misses those that it has a
\* reason to, and those that are not over.
FreshAt(b, k) ==
    LET c == cache[b][k] IN
    /\ Settled(b, k) =>
          /\ c.missing = {} => c.data = {table}
          /\ \A r \in c.missing : Excused(b, k, r)
    /\ c.fetch = "answered" =>
          /\ c.late = {} => c.answer = {table}
          /\ \A r \in c.late : Excused(b, k, r)
    /\ c.fetch # "answered" => c.late = {}
    /\ \A r \in c.missing \cup c.late : r \in Request /\ pc[r] \in {"replied", "done"}

Fresh == \A b \in Browser, k \in Query : FreshAt(b, k)

\* The reason of a request whose answer invalidates nothing.
LEMMA UnheardIs ==
    ASSUME Core, NEW q \in Request, pc[q] = "replied", NEW k \in Query, k \notin Invalidates(q)
    PROVE  /\ Unheard(q, k)
           /\ k = "tasks" => op[q].kind # "status"
<1>1. reply[q] \in {"ok", "error"}
  BY DEF Core, Sound, SoundAt, TypeOK
<1>2. k \in {"tasks", "detail"}
  BY DEF Query
<1> QED BY <1>1, <1>2 DEF Unheard, Invalidates, Query

\* A step that does not touch the query and saves nothing, and settles only what
\* is of another browser or not heard.
Still(b, k) ==
    /\ cache'[b][k] = cache[b][k] /\ table' = table
    /\ \A r \in Request : pc[r] \in {"replied", "done"} =>
           /\ op'[r] = op[r] /\ reply'[r] = reply[r]
           /\ \/ pc'[r] = pc[r]
              \/ pc'[r] = "done" /\ (op[r].by # b \/ Unheard(r, k))
    /\ k = "tasks" => \A r \in Request : Chosen(r) /\ op[r].by = b =>
           pc'[r] \in {"sent", "save", "replied"} /\ op'[r] = op[r]

LEMMA FreshStep == Core /\ Fresh /\ [Next]_vars => Fresh'
<1> SUFFICES ASSUME Core, Fresh, [Next]_vars, NEW b \in Browser, NEW k \in Query
             PROVE  FreshAt(b, k)'
  BY DEF Fresh
<1> DEFINE c == cache[b][k]
<1>0. /\ FreshAt(b, k) /\ cache \in [Browser -> [Query -> Cached(Row, Request)]] /\ c \in Cached(Row, Request)
      /\ pc \in [Request -> {"idle", "sent", "save", "replied", "done"}]
      /\ \A r \in c.missing \cup c.late : r \in Request /\ pc[r] \in {"replied", "done"}
  BY DEF Fresh, FreshAt, Core, TypeOK
<1>1. ASSUME Still(b, k) PROVE FreshAt(b, k)'
  <2>1. \A r \in c.missing \cup c.late :
          /\ r \in Request /\ pc[r] \in {"replied", "done"} /\ pc'[r] \in {"replied", "done"}
          /\ Excused(b, k, r) => Excused(b, k, r)'
    BY <1>0, <1>1 DEF Excused, Unheard, Still
  <2>2. Settled(b, k)' => Settled(b, k)
    BY <1>1 DEF Settled, Chosen, Still
  <2> QED BY <1>0, <1>1, <2>1, <2>2 DEF FreshAt, Still
<1>2. CASE MutateStep
  <2>1. PICK q \in Request, m \in Mutation : Asked(q, m)
    BY <1>2 DEF MutateStep
  <2>2. \A r \in Request : pc[r] # "idle" => op'[r] = op[r] /\ pc'[r] = pc[r] /\ reply'[r] = reply[r]
    BY <1>0, <2>1 DEF Asked, Start, Core, TypeOK
  <2>3. \A r \in Request : Chosen(r) =>
          pc'[r] \in {"sent", "save", "replied"} /\ op'[r] = op[r]
    BY <2>2 DEF Chosen
  <2>4. Still(b, k)
    BY <1>0, <2>1, <2>2, <2>3 DEF Asked, Still
  <2> QED BY <1>1, <2>4
<1>3. CASE Edits
  <2>1. Still(b, k)
    BY <1>3 DEF Edits, Chosen, Still
  <2> QED BY <1>1, <2>1
<1>4. ASSUME NEW p \in Request, GoOn(p)
      PROVE  FreshAt(b, k)'
  <2>1. \A r \in Request : pc[r] \in {"replied", "done"} =>
            op'[r] = op[r] /\ reply'[r] = reply[r] /\ pc'[r] = pc[r]
    BY <1>0, <1>4 DEF GoOn, Core, TypeOK
  <2>2. \A r \in Request : Chosen(r) =>
          pc'[r] \in {"sent", "save", "replied"} /\ op'[r] = op[r]
    BY <1>0, <1>4 DEF GoOn, Chosen
  <2>3. Still(b, k)
    BY <1>4, <2>1, <2>2 DEF GoOn, Still
  <2> QED BY <1>1, <2>3
<1>5. ASSUME NEW b0 \in Browser, NEW q \in Request, ChangeStatus(b0, q)
      PROVE  FreshAt(b, k)'
  <2>1. /\ pc[q] = "idle" /\ pc' = [pc EXCEPT ![q] = "sent"]
        /\ op' = [op EXCEPT ![q] = [kind |-> "status", by |-> b0]]
        /\ cache'[b][k] = IF b = b0 /\ k = "tasks" THEN OnMutate(c, q) ELSE c
        /\ table' = table /\ reply' = reply
    BY <1>5, ChangeStatusIs DEF ChangeStatus, Start
  <2>2. \A r \in Request : pc[r] # "idle" => op'[r] = op[r] /\ pc'[r] = pc[r]
    BY <1>0, <2>1
  <2>3. \A r \in Request : Chosen(r) =>
          pc'[r] \in {"sent", "save", "replied"} /\ op'[r] = op[r]
    BY <2>2 DEF Chosen
  <2>4. CASE b = b0 /\ k = "tasks"
    <3>1. Chosen(q)' /\ op'[q].by = b
      BY <1>0, <2>1, <2>4 DEF Chosen, Core, TypeOK
    <3>2. LET d == OnMutate(c, q) IN d.fetch = "idle" /\ d.missing = c.missing /\ d.late = {}
      BY <1>0, OnMutateIs
    <3>3. ~Settled(b, k)'
      BY <2>4, <3>1 DEF Settled
    <3> QED BY <1>0, <2>1, <2>2, <2>4, <3>2, <3>3 DEF FreshAt
  <2>5. CASE ~(b = b0 /\ k = "tasks")
    <3>1. \A r \in Request : pc[r] \in {"replied", "done"} =>
            op'[r] = op[r] /\ reply'[r] = reply[r] /\ pc'[r] = pc[r]
      BY <2>1, <2>2
    <3>2. cache'[b][k] = cache[b][k]
      BY <2>1, <2>5
    <3>3. Still(b, k)
      BY <2>1, <2>3, <3>1, <3>2 DEF Still
    <3> QED BY <1>1, <3>3
  <2> QED BY <2>4, <2>5
<1>6. ASSUME NEW b0 \in Browser, NEW k0 \in Query, FetchStep(b0, k0)
      PROVE  FreshAt(b, k)'
  <2>0. /\ UNCHANGED <<table, pc, op, reply>>
        /\ \A r \in Request : Chosen(r)' <=> Chosen(r)
    BY <1>6 DEF FetchStep, Fetching, Chosen
  <2>1. CASE b = b0 /\ k = k0
    <3>1. CASE cache'[b][k] = Sent(c)
      <4>1. Sent(c).fetch = "sent" /\ Sent(c).late = {} /\ Sent(c).missing = c.missing
        BY <1>0 DEF Sent, Idle, Cached
      <4> QED BY <1>0, <2>0, <3>1, <4>1 DEF FreshAt, Settled
    <3>2. CASE cache'[b][k] = Answered(c, table) /\ c.fetch = "sent"
      <4>1. LET d == Answered(c, table) IN
            /\ d.fetch = "answered" /\ d.missing = c.missing /\ d.late = c.late /\ c.late = {}
            /\ d.answer = {table}
        BY <1>0, <3>2 DEF Answered, Cached, FreshAt
      <4> QED BY <1>0, <2>0, <3>2, <4>1 DEF FreshAt, Settled
    <3>3. CASE cache'[b][k] = Arrived(c) /\ c.fetch = "answered"
      <4>1. LET d == Arrived(c) IN
            /\ d.data = c.answer /\ d.missing = c.late /\ d.fetch = "idle"
            /\ d.late = {} /\ d.deaf = c.deaf
        BY <1>0 DEF Arrived, Idle, Cached
      <4>2. \A r \in c.late : Excused(b, k, r)'
        BY <1>0, <2>0, <3>3, <4>1 DEF FreshAt, Excused, Unheard
      <4> QED BY <1>0, <2>0, <3>3, <4>1, <4>2 DEF FreshAt
    <3>4. CASE cache'[b][k] = Failed(c)
      <4>1. Failed(c).failed /\ Failed(c).fetch = "idle" /\ Failed(c).late = {}
            /\ Failed(c).missing = c.missing
        BY <1>0 DEF Failed, Idle, Cached
      <4> QED BY <1>0, <2>0, <3>4, <4>1 DEF FreshAt, Settled
    <3> QED BY <1>0, <1>6, <2>1, <3>1, <3>2, <3>3, <3>4 DEF FetchStep, Fetching
  <2>2. CASE ~(b = b0 /\ k = k0)
    <3>1. cache'[b][k] = c
      BY <1>0, <1>6, <2>2 DEF FetchStep, Fetching
    <3>2. \A r \in Request : /\ pc'[r] = pc[r] /\ op'[r] = op[r] /\ reply'[r] = reply[r]
                            /\ Chosen(r) => pc'[r] \in {"sent", "save", "replied"}
      BY <2>0 DEF Chosen
    <3>3. Still(b, k)
      BY <2>0, <3>1, <3>2 DEF Still
    <3> QED BY <1>1, <3>3
  <2> QED BY <2>1, <2>2
<1>7. ASSUME NEW q \in Request, Save(q)
      PROVE  FreshAt(b, k)'
  <2> DEFINE d == Missing(c, q)
  <2>1. /\ pc[q] = "save" /\ pc' = [pc EXCEPT ![q] = "replied"] /\ op' = op
        /\ \A r \in Request \ {q} : reply'[r] = reply[r]
        /\ cache'[b][k] = d
    BY <1>7, MissingIs DEF Save, Core, TypeOK
  <2>2. /\ d.data = c.data /\ d.fetch = c.fetch /\ d.failed = c.failed
        /\ d.answer = c.answer /\ d.deaf = c.deaf
        /\ c.data # {} => d.missing = c.missing \cup {q}
        /\ d.missing \subseteq c.missing \cup {q}
        /\ d.late = IF c.fetch = "answered" THEN c.late \cup {q} ELSE c.late
    BY <1>0 DEF Missing, Cached
  <2>3. \A r \in c.missing \cup c.late \cup {q} :
           r \in Request /\ pc'[r] \in {"replied", "done"}
    BY <1>0, <2>1
  <2>4. \A r \in c.missing \cup c.late : Excused(b, k, r) => Excused(b, k, r)'
    BY <1>0, <2>1, <2>2 DEF Excused, Unheard
  <2>5. Excused(b, k, q)'
    BY <1>0, <2>1 DEF Excused
  <2>6. Settled(b, k)' => Settled(b, k) /\ c.data # {}
    <3>1. \A r \in Request : Chosen(r) =>
          pc'[r] \in {"sent", "save", "replied"} /\ op'[r] = op[r]
      BY <1>0, <2>1 DEF Chosen
    <3> HIDE DEF d
    <3> QED BY <2>1, <2>2, <3>1 DEF Settled, Chosen
  <2> HIDE DEF d
  <2> QED BY <1>0, <2>1, <2>2, <2>3, <2>4, <2>5, <2>6 DEF FreshAt
<1>8. ASSUME NEW q \in Request, Settle(q)
      PROVE  FreshAt(b, k)'
  <2> DEFINE c0 == IF k = "tasks" THEN RolledBack(c, q) ELSE c
  <2>1. /\ pc[q] = "replied" /\ pc' = [pc EXCEPT ![q] = "done"]
        /\ UNCHANGED <<op, reply, table>>
    BY <1>8 DEF Settle
  <2>2. cache'[b][k] = IF b # op[q].by THEN c
                       ELSE IF k \in Invalidates(q) /\ c0 # NoData THEN Invalidated(c0, q) ELSE c0
    BY <1>8, SettleIs
  <2>3. \A r \in Request \ {q} : pc'[r] = pc[r] /\ (Chosen(r) => pc'[r] \in {"sent", "save", "replied"})
    BY <1>0, <2>1 DEF Chosen
  <2>4. CASE b # op[q].by
    <3>1. Still(b, k)
      BY <1>0, <2>1, <2>2, <2>3, <2>4 DEF Still
    <3> QED BY <1>1, <3>1
  <2>5. CASE b = op[q].by /\ k \notin Invalidates(q)
    <3>1. Unheard(q, k) /\ (k = "tasks" => op[q].kind # "status")
      BY <2>1, <2>5, UnheardIs
    <3>2. cache'[b][k] = c
      BY <2>2, <2>5, <3>1 DEF RolledBack
    <3>3. k = "tasks" => ~Chosen(q)
      BY <3>1 DEF Chosen
    <3>4. Still(b, k)
      BY <1>0, <2>1, <2>3, <3>1, <3>2, <3>3 DEF Still
    <3> QED BY <1>1, <3>4
  <2>6. CASE b = op[q].by /\ k \in Invalidates(q)
    <3>1. /\ c0 \in Cached(Row, Request) /\ c0.fetch = c.fetch /\ c0.missing = c.missing
          /\ c0.late = c.late /\ c0.answer = c.answer /\ c0.deaf = c.deaf
      <4>1. snapshot[q] \in SUBSET Row
        BY DEF Core, TypeOK
      <4> QED BY <1>0, <4>1, RolledBackIs
    <3>2. \A r \in c.missing \cup c.late : r \in Request /\ pc'[r] \in {"replied", "done"}
      BY <1>0, <2>1
    <3> HIDE DEF c0
    <3>3. CASE cache'[b][k] = Sent(c0)
      <4>1. Sent(c0).fetch = "sent" /\ Sent(c0).late = {} /\ Sent(c0).missing = c.missing
        BY <3>1 DEF Sent, Idle, Cached
      <4> QED BY <3>2, <3>3, <4>1 DEF FreshAt, Settled
    <3>4. CASE c0.data = {} /\ cache'[b][k] = [c0 EXCEPT !.deaf = c0.deaf \cup {q}]
      <4> DEFINE d == [c0 EXCEPT !.deaf = c0.deaf \cup {q}]
      <4>1. /\ d.data = {} /\ d.fetch = c.fetch /\ d.late = c.late /\ d.answer = c.answer
            /\ d.missing = c.missing /\ d.deaf = c.deaf \cup {q}
        BY <3>1, <3>4 DEF Cached
      <4>2. \A r \in c.late : Excused(b, k, r) => Excused(b, k, r)'
        BY <1>0, <2>1, <2>3, <3>4, <4>1 DEF Excused, Unheard
      <4> HIDE DEF d
      <4> QED BY <1>0, <2>1, <3>2, <3>4, <4>1, <4>2 DEF FreshAt, Settled, d
    <3>5. CASE cache'[b][k] = NoData
      <4>1. NoData.data = {} /\ NoData.fetch = "idle" /\ NoData.late = {} /\ NoData.missing = {}
        BY DEF NoData
      <4> QED BY <3>5, <4>1 DEF FreshAt, Settled
    <3> QED BY <2>2, <2>6, <3>1, <3>3, <3>4, <3>5, InvalidatedIs
  <2> QED BY <2>4, <2>5, <2>6
<1>9. CASE UNCHANGED vars
  <2>1. Still(b, k)
    BY <1>9 DEF vars, Chosen, Still
  <2> QED BY <1>1, <2>1
<1> QED BY <1>2, <1>3, <1>4, <1>5, <1>6, <1>7, <1>8, <1>9, StepIs

\* When its own requests and its fetch are over, a query shows the row, but
\* for what it could not know of.
THEOREM QueriesCatchUp == Spec => []BehindForAReason
<1>1. Init => Fresh
  <2> SUFFICES ASSUME Init, NEW b \in Browser, NEW k \in Query PROVE FreshAt(b, k)
    BY DEF Fresh
  <2>1. cache[b][k] = NoData \/ cache[b][k] = Sent(NoData)
    BY DEF Init, Query
  <2>2. /\ NoData.data = {} /\ NoData.missing = {} /\ NoData.late = {} /\ NoData.fetch = "idle"
        /\ LET d == Sent(NoData) IN d.data = {} /\ d.missing = {} /\ d.late = {} /\ d.fetch = "sent"
    BY DEF NoData, Sent, Idle
  <2> QED BY <2>1, <2>2 DEF FreshAt, Settled
<1>2. Core /\ Fresh => BehindForAReason
  <2> SUFFICES ASSUME Core, Fresh, NEW b \in Browser, NEW k \in Query,
                      OutOf(b) = {}, cache[b][k].data # {}, cache[b][k].fetch = "idle",
                      ~cache[b][k].failed
               PROVE  /\ cache[b][k].missing = {} => cache[b][k].data = {table}
                      /\ \A r \in cache[b][k].missing :
                            op[r].by # b \/ Unheard(r, k) \/ r \in cache[b][k].deaf
    BY DEF BehindForAReason
  <2>1. \A q \in Request : op[q].by = b => pc[q] \in {"idle", "done"}
    BY DEF OutOf
  <2>2. Settled(b, k)
    BY <2>1 DEF Settled, Chosen
  <2>3. FreshAt(b, k)
    BY DEF Fresh
  <2>4. \A r \in cache[b][k].missing : r \in Request /\ pc[r] \in {"replied", "done"} /\ Excused(b, k, r)
    BY <2>2, <2>3 DEF FreshAt
  <2> QED BY <2>1, <2>2, <2>3, <2>4 DEF FreshAt, Excused
<1> QED BY <1>1, <1>2, CoreInit, CoreStep, FreshStep, PTL DEF Spec

=============================================================================
