---------------------------- MODULE BoardColumns ----------------------------
(***************************************************************************)
(* The columns of one project's board.  They are one JSON value of one     *)
(* row: the first read makes the row with the default columns, and every   *)
(* change of a browser sends the whole list that its query cache holds,    *)
(* changed, which replaces the row's.  A column maps statuses; a task is   *)
(* shown in the columns that map its status.                               *)
(*                                                                         *)
(* A browser whose first read has failed shows a board without columns and *)
(* the form to add one.  The form keeps the statuses chosen in it, while   *)
(* the columns under it may change.                                        *)
(*                                                                         *)
(* A Change is the request of one change; it also stands for the id and    *)
(* the name it gives a column (the id is made of the browser's clock).  On *)
(* the API an action ends at an await.                                     *)
(***************************************************************************)
EXTENDS QueryCache, Naturals, Sequences, Functions

CONSTANTS
    Browser, Change, ColumnStatus,
    DefaultStatuses,  \* the statuses of the default columns, in their order
    MaxFetches,       \* bound: fetches that no mutation asks for
    MaxFaults         \* bound: errors and lost answers

ASSUME BoundAssumption == MaxFetches \in Nat /\ MaxFaults \in Nat

ASSUME DefaultAssumption ==
    /\ DefaultStatuses \in Seq((SUBSET ColumnStatus) \ {{}})
    /\ \A i, j \in DOMAIN DefaultStatuses :
          i # j => DefaultStatuses[i] \cap DefaultStatuses[j] = {}
    /\ DOMAIN DefaultStatuses \cap Change = {}

Id == DOMAIN DefaultStatuses \cup Change

\* name: the request that gave it, {} for a default column
Column == [id : Id, name : SUBSET Change, statuses : SUBSET ColumnStatus, order : Nat]

DefaultColumns ==
    [i \in DOMAIN DefaultStatuses |->
        [id |-> i, name |-> {}, statuses |-> DefaultStatuses[i], order |-> i - 1]]

\* shown: {} or {the columns the browser had}; list: the columns it sends
NoMutation == [kind |-> "none"]
Mutation ==
    [kind : {"add", "delete", "rename"}, by : Browser, id : Id,
     shown : SUBSET Seq(Column), list : Seq(Column)]

VARIABLES
    config,     \* {} or {the columns of the row}
    opening,    \* handlers of a first read: between which of their awaits
    at,         \* where a request is
    change,         \* its mutation
    reply,      \* what the browser will be told
    cache,      \* the query board-config of each browser
    form,       \* newColStatuses: the statuses chosen for a new column
    told,       \* history: the columns that the saved requests ask for
    contested,  \* history: columns on which a saved list was made from
                \* others than the table's
    crowded,    \* history: columns came that map a status chosen in the form
    fetches, faults

bounds == <<fetches, faults>>
columnVars ==
    <<config, opening, at, change, reply, cache, form, told, contested, crowded, bounds>>

ColumnsInit ==
    /\ config = {}
    /\ opening = [b \in Browser |-> "no"]
    /\ at = [q \in Change |-> "idle"]
    /\ change = [q \in Change |-> NoMutation]
    /\ reply = [q \in Change |-> "none"]
    /\ cache = [b \in Browser |-> Sent(NoData)]
    /\ form = [b \in Browser |-> {}]
    /\ told = {} /\ contested = {} /\ crowded = FALSE
    /\ fetches = 0 /\ faults = 0

Fault == faults < MaxFaults /\ faults' = faults + 1 /\ UNCHANGED fetches

-----------------------------------------------------------------------------
(* Reading the columns.                                                    *)

\* the id and the name of each column
Named(cols) == {[id |-> c.id, name |-> c.name] : c \in Range(cols)}

Used(cols) == UNION {c.statuses : c \in Range(cols)}

\* the query is mounted again, or the browser reconnects
Refetch(b) ==
    /\ cache[b].fetch = "idle"
    /\ cache' = [cache EXCEPT ![b] = Sent(@)]
    /\ fetches < MaxFetches /\ fetches' = fetches + 1
    /\ UNCHANGED <<config, opening, at, change, reply, form, told, contested, crowded, faults>>

\* findUnique; a handler whose browser has given up ends before the next
Read(b) ==
    /\ cache[b].fetch = "sent" /\ opening[b] = "no"
    /\ \/ \E cols \in config :
             cache' = [cache EXCEPT ![b] = Answered(@, cols)] /\ UNCHANGED opening
       \/ config = {} /\ opening' = [opening EXCEPT ![b] = "lookup"] /\ UNCHANGED cache
    /\ UNCHANGED <<config, at, change, reply, form, told, contested, crowded, bounds>>

\* the workspace of the project, for the new row
Lookup(b) ==
    /\ opening[b] = "lookup"
    /\ opening' = [opening EXCEPT ![b] = "create"]
    /\ UNCHANGED <<config, at, change, reply, cache, form, told, contested, crowded, bounds>>

\* create throws when there is a row by now: the project is unique in the
\* table.  The query asks again.
Create(b) ==
    /\ opening[b] = "create"
    /\ opening' = [opening EXCEPT ![b] = "no"]
    /\ \/ /\ config = {}
          /\ config' = {DefaultColumns}
          /\ told' = Named(DefaultColumns)
          /\ cache' = IF cache[b].fetch = "sent"
                      THEN [cache EXCEPT ![b] = Answered(@, DefaultColumns)] ELSE cache
       \/ config # {} /\ UNCHANGED <<config, told, cache>>
    /\ UNCHANGED <<at, change, reply, form, contested, crowded, bounds>>

Arrive(b) ==
    /\ cache[b].fetch = "answered"
    /\ cache' = [cache EXCEPT ![b] = Arrived(@)]
    /\ crowded' = (crowded \/ \E cols \in cache[b].answer : form[b] \cap Used(cols) # {})
    /\ UNCHANGED <<config, opening, at, change, reply, form, told, contested, bounds>>

FetchFails(b) ==
    /\ cache[b].fetch # "idle" /\ Fault
    /\ cache' = [cache EXCEPT ![b] = Failed(@)]
    /\ UNCHANGED <<config, opening, at, change, reply, form, told, contested, crowded>>

-----------------------------------------------------------------------------
(* Changing the columns.                                                   *)

Loading(b) == cache[b].data = {} /\ cache[b].fetch # "idle"

\* no data, no columns
Shown(b) == IF cache[b].data = {} THEN <<>> ELSE CHOOSE cols \in cache[b].data : TRUE

\* Mutant of Available: any status may be chosen.
MutAvailable(cols) == ColumnStatus

\* the statuses that the form offers
Available(cols) == ColumnStatus \ Used(cols)

\* Mutant of WithColumn: only the new column is sent.
MutWithColumn(cols, q, statuses) ==
    <<[id |-> q, name |-> {q}, statuses |-> statuses, order |-> 0]>>

WithColumn(cols, q, statuses) ==
    Append(cols, [id |-> q, name |-> {q}, statuses |-> statuses, order |-> Len(cols)])

\* the column of the id goes (ids differ), those that stay are numbered again
WithoutColumn(cols, id) ==
    LET gone == CHOOSE i \in DOMAIN cols : cols[i].id = id
    IN  [i \in 1..Len(cols) - 1 |->
            [cols[IF i < gone THEN i ELSE i + 1] EXCEPT !.order = i - 1]]

Renamed(cols, id, q) ==
    [i \in DOMAIN cols |-> IF cols[i].id = id THEN [cols[i] EXCEPT !.name = {q}] ELSE cols[i]]

\* a status is chosen, or no longer, for the new column
ToggleNewColStatus(b, s) ==
    /\ ~Loading(b) /\ s \in Available(Shown(b))
    /\ form' = [form EXCEPT ![b] = IF s \in @ THEN @ \ {s} ELSE @ \cup {s}]
    /\ UNCHANGED <<config, opening, at, change, reply, cache, told, contested, crowded, bounds>>

Mutate(q, b, kind, id, list) ==
    /\ at[q] = "idle" /\ ~Loading(b)
    /\ change' = [change EXCEPT ![q] = [kind |-> kind, by |-> b, id |-> id,
                                shown |-> cache[b].data, list |-> list]]
    /\ at' = [at EXCEPT ![q] = "sent"]
    /\ UNCHANGED <<config, opening, reply, cache, told, contested, bounds>>

AddColumn(b, q) ==
    /\ form[b] # {}
    /\ Mutate(q, b, "add", q, WithColumn(Shown(b), q, form[b]))
    /\ form' = [form EXCEPT ![b] = {}]
    /\ UNCHANGED crowded

DeleteColumn(b, q) ==
    /\ \E c \in Range(Shown(b)) : Mutate(q, b, "delete", c.id, WithoutColumn(Shown(b), c.id))
    /\ UNCHANGED <<form, crowded>>

RenameColumn(b, q) ==
    /\ \E c \in Range(Shown(b)) : Mutate(q, b, "rename", c.id, Renamed(Shown(b), c.id, q))
    /\ UNCHANGED <<form, crowded>>

\* what the columns asked for are once q is saved
ToldColumns(q) ==
    LET others == {n \in told : n.id # change[q].id}
    IN  CASE change[q].kind = "add"    -> told \cup {[id |-> q, name |-> {q}]}
          [] change[q].kind = "delete" -> others
          [] change[q].kind = "rename" -> IF others = told THEN told
                                      ELSE others \cup {[id |-> change[q].id, name |-> {q}]}

NamedIn(some) == UNION {Named(cols) : cols \in some}

\* upsert: the list replaces that of the row; the answer may be lost
SaveConfig(q) ==
    LET was == NamedIn(config)
        seen == NamedIn(change[q].shown)
    IN
    /\ at[q] = "sent"
    /\ config' = {change[q].list}
    /\ \/ reply' = [reply EXCEPT ![q] = "ok"] /\ UNCHANGED bounds
       \/ reply' = [reply EXCEPT ![q] = "error"] /\ Fault
    /\ at' = [at EXCEPT ![q] = "replied"]
    /\ cache' = [b \in Browser |-> Missing(cache[b], q)]
    /\ told' = ToldColumns(q)
    /\ contested' = contested \cup {n.id : n \in (was \ seen) \cup (seen \ was)}
    /\ UNCHANGED <<opening, change, form, crowded>>

\* the request does not get that far
Refuse(q) ==
    /\ at[q] = "sent" /\ Fault
    /\ at' = [at EXCEPT ![q] = "replied"]
    /\ reply' = [reply EXCEPT ![q] = "error"]
    /\ UNCHANGED <<config, opening, change, cache, form, told, contested, crowded>>

\* Mutant of OnSuccess: the query is left as it is.
MutOnSuccess(c, q) == c

\* onSuccess of the mutation
OnSuccess(c, q) == Invalidated(c, q)

Settle(q) ==
    /\ at[q] = "replied"
    /\ at' = [at EXCEPT ![q] = "done"]
    /\ cache' = IF reply[q] # "ok" THEN cache
                ELSE [cache EXCEPT ![change[q].by] = OnSuccess(@, q)]
    /\ UNCHANGED <<config, opening, change, reply, form, told, contested, crowded, bounds>>

ColumnsNext ==
    \/ \E b \in Browser :
          \/ Refetch(b) \/ Read(b) \/ Lookup(b) \/ Create(b) \/ Arrive(b) \/ FetchFails(b)
          \/ \E s \in ColumnStatus : ToggleNewColStatus(b, s)
          \/ \E q \in Change : AddColumn(b, q) \/ DeleteColumn(b, q) \/ RenameColumn(b, q)
    \/ \E q \in Change : SaveConfig(q) \/ Refuse(q) \/ Settle(q)

ColumnsSpec == ColumnsInit /\ [][ColumnsNext]_columnVars

-----------------------------------------------------------------------------

ColumnsTypeOK ==
    /\ config \in SUBSET Seq(Column) /\ \A c, d \in config : c = d
    /\ opening \in [Browser -> {"no", "lookup", "create"}]
    /\ at \in [Change -> {"idle", "sent", "replied", "done"}]
    /\ change \in [Change -> Mutation \cup {NoMutation}]
    /\ reply \in [Change -> {"none", "ok", "error"}]
    /\ cache \in [Browser -> Cached(Seq(Column), Change)]
    /\ form \in [Browser -> SUBSET ColumnStatus]
    /\ told \subseteq [id : Id, name : SUBSET Change] /\ contested \subseteq Id
    /\ crowded \in BOOLEAN
    /\ fetches \in 0..MaxFetches /\ faults \in 0..MaxFaults

\* The table's columns, and their names, are those that the saved requests
\* have added, renamed and not deleted, but for columns on which a saved list
\* was made from others than the table's: no column is lost or comes back
\* through the order of first reads, creations, answers and refetches alone.
ColumnsAreKept ==
    LET odd == (NamedIn(config) \ told) \cup (told \ NamedIn(config))
    IN  {n.id : n \in odd} \subseteq contested

\* A task is shown in at most one column, in the table and in every browser,
\* unless columns that map a status have come while the form had it chosen for
\* a new column: overlapping saves, old lists and failed reads alone
\* never map a status twice.  No two columns of a list have one id.
OneColumnPerStatus ==
    \A cols \in config \cup UNION {cache[b].data : b \in Browser} :
        \A i, j \in DOMAIN cols : i # j =>
            /\ cols[i].id # cols[j].id
            /\ crowded \/ cols[i].statuses \cap cols[j].statuses = {}

\* When the mutations of a browser and its fetch are over, and the fetch did
\* not fail, the board shows the row, but for what other browsers have saved
\* since, what was saved although the answer was an error, and what was settled
\* while the query was fetched for the first time.
ColumnsCatchUp ==
    \A b \in Browser :
        LET c == cache[b]
            out == {q \in Change : at[q] \notin {"idle", "done"} /\ change[q].by = b}
        IN
        out = {} /\ c.data # {} /\ c.fetch = "idle" /\ ~c.failed =>
            /\ c.missing = {} => c.data = config
            /\ \A r \in c.missing : change[r].by # b \/ reply[r] = "error" \/ r \in c.deaf
=============================================================================
