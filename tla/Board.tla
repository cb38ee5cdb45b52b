------------------------------- MODULE Board -------------------------------
(***************************************************************************)
(* The projects, sprints and tasks of a board.  Every command handler      *)
(* loads a whole aggregate (findById), lets a method change the copy and   *)
(* saves all columns of the copy by an upsert that compares no version; a  *)
(* task's events become outbox rows in the same transaction.  An action    *)
(* ends at an await.  Starting a sprint asks between load and save whether *)
(* another sprint of the project is active.                                *)
(*                                                                         *)
(* The column version is left out: saves increment it and nothing reads    *)
(* it.                                                                     *)
(***************************************************************************)
EXTENDS Naturals, Sequences

CONSTANTS
    Project, Sprint, Task,    \* ids; the sprints belong to one project
    User,
    Status,                   \* TaskStatus
    Request                   \* calls of command handlers

ASSUME StatusAssumption == {"BACKLOG", "CANCELLED"} \subseteq Status
ASSUME IdAssumption == Project \cap Sprint = {} /\ Project \cap Task = {} /\ Sprint \cap Task = {}

Object == Project \cup Sprint \cup Task

\* the aggregates whose saves store events; those of a sprint are dropped
Logged == Project \cup Task

\* A column that may be null holds {} or {value}.
NoRow == [status |-> "none"]
ProjectRow == [status : {"DRAFT", "ACTIVE", "COMPLETED", "ARCHIVED"}]
SprintRow == [status : {"PLANNING", "ACTIVE", "COMPLETED"}]
TaskRow ==
    [status : Status, assignee : SUBSET User, sprint : SUBSET Sprint,
     details : SUBSET Request, deleted : BOOLEAN]

AnyRow == {NoRow} \cup ProjectRow \cup SprintRow \cup TaskRow

Row(o) ==
    IF o \in Task THEN TaskRow ELSE IF o \in Sprint THEN SprintRow ELSE ProjectRow

\* What the controllers make of a request: the field "to" holds the argument.
ProjectCommand == [kind : {"activate", "complete", "archive"}, on : Project, to : {{}}]

StartSprintCommand == [kind : {"start"}, on : Sprint, to : {{}}]
CompleteSprintCommand == [kind : {"finish"}, on : Sprint, to : {{}}]
SprintCommand == StartSprintCommand \cup CompleteSprintCommand

ChangeTaskStatusCommand == [kind : {"changeStatus"}, on : Task, to : {{s} : s \in Status}]
AssignTaskCommand == [kind : {"assign"}, on : Task, to : {{u} : u \in User}]
MoveTaskToSprintCommand ==
    [kind : {"moveToSprint"}, on : Task, to : {{}} \cup {{s} : s \in Sprint}]
UpdateTaskCommand == [kind : {"update"}, on : Task, to : {{}}]
DeleteTaskCommand == [kind : {"delete"}, on : Task, to : {{}}]
TaskCommand ==
    ChangeTaskStatusCommand \cup AssignTaskCommand \cup MoveTaskToSprintCommand \cup
    UpdateTaskCommand \cup DeleteTaskCommand

Command == ProjectCommand \cup SprintCommand \cup TaskCommand

NoCommand == [kind |-> "none"]

\* ProjectCreatedEvent and TaskCreatedEvent, TaskStatusChangedEvent,
\* TaskAssignedEvent, TaskDeletedEvent
Event ==
    [type : {"Created", "Deleted"}, from : {{}}, to : {{}}] \cup
    [type : {"StatusChanged"}, from : {{s} : s \in Status}, to : {{s} : s \in Status}] \cup
    [type : {"Assigned"}, from : {{}}, to : {{u} : u \in User}]

VARIABLES
    table,     \* the row of each object
    log,       \* the outbox rows of each object, in the order of their commits
    pc,        \* the await a request stands at
    op,        \* its command
    loaded,    \* what findById returned to it
    raced,     \* objects that were saved from a copy the table had left behind
    starters,  \* the requests that have made a sprint active
    met        \* pairs of requests that were in flight at the same time

vars == <<table, log, pc, op, loaded, raced, starters, met>>

Init ==
    /\ table = [o \in Object |-> NoRow]
    /\ log = [o \in Logged |-> <<>>]
    /\ pc = [q \in Request |-> "idle"]
    /\ op = [q \in Request |-> NoCommand]
    /\ loaded = [q \in Request |-> NoRow]
    /\ raced = {}
    /\ starters = [s \in Sprint |-> {}]
    /\ met = {}

-----------------------------------------------------------------------------
(* The methods of the aggregates on a copy w: the set holds the changed    *)
(* copy, and is empty when the method returns Result.fail.                 *)

\* VALID_TRANSITIONS of a project
ValidTransition ==
    {<<"DRAFT", "ACTIVE">>, <<"DRAFT", "ARCHIVED">>, <<"ACTIVE", "COMPLETED">>,
     <<"ACTIVE", "ARCHIVED">>, <<"COMPLETED", "ARCHIVED">>, <<"ARCHIVED", "ACTIVE">>}

TransitionTo(w, s) ==
    IF <<w.status, s>> \in ValidTransition THEN {[w EXCEPT !.status = s]} ELSE {}

Activate(w) == TransitionTo(w, "ACTIVE")
CompleteProject(w) == TransitionTo(w, "COMPLETED")
Archive(w) == TransitionTo(w, "ARCHIVED")

Start(w) == IF w.status = "PLANNING" THEN {[w EXCEPT !.status = "ACTIVE"]} ELSE {}

Complete(w) == IF w.status = "ACTIVE" THEN {[w EXCEPT !.status = "COMPLETED"]} ELSE {}

\* every status may follow every status
ChangeStatus(w, s) == {[w EXCEPT !.status = s]}

\* Mutant of Assign: cancelled tasks are assigned too.
MutAssignCancelled(w, u) == {[w EXCEPT !.assignee = {u}]}

Assign(w, u) == IF w.status = "CANCELLED" THEN {} ELSE {[w EXCEPT !.assignee = {u}]}

MoveToSprint(w, s) == {[w EXCEPT !.sprint = {s}]}

RemoveFromSprint(w) == {[w EXCEPT !.sprint = {}]}

SoftDelete(w) == {[w EXCEPT !.deleted = TRUE]}

\* new objects; a blank name or title makes none
NewProject == [status |-> "DRAFT"]
NewSprint == [status |-> "PLANNING"]
NewTask ==
    [status |-> "BACKLOG", assignee |-> {}, sprint |-> {}, details |-> {}, deleted |-> FALSE]

-----------------------------------------------------------------------------
(* What the handler of a command c makes of the copy w that it found; the  *)
(* set is empty when it answers with the error of the method.              *)

ChangeProjectStatus(c, w) ==
    CASE c.kind = "activate" -> Activate(w)
      [] c.kind = "complete" -> CompleteProject(w)
      [] c.kind = "archive"  -> Archive(w)

CompleteSprint(w) == Complete(w)

ChangeTaskStatus(c, w) == UNION {ChangeStatus(w, s) : s \in c.to}

AssignTask(c, w) == UNION {Assign(w, u) : u \in c.to}

MoveTaskToSprint(c, w) ==
    IF c.to # {} THEN UNION {MoveToSprint(w, s) : s \in c.to} ELSE RemoveFromSprint(w)

\* the setters of Task for all other fields, which are taken as one: request q
SetDetails(w, q) == [w EXCEPT !.details = {q}]

UpdateTask(q, w) == {SetDetails(w, q)}

DeleteTask(w) == SoftDelete(w)

\* the handler of c, called as request q
Execute(c, q, w) ==
    CASE c.kind \in {"activate", "complete", "archive"} -> ChangeProjectStatus(c, w)
      [] c.kind = "start"        -> Start(w)
      [] c.kind = "finish"       -> CompleteSprint(w)
      [] c.kind = "changeStatus" -> ChangeTaskStatus(c, w)
      [] c.kind = "assign"       -> AssignTask(c, w)
      [] c.kind = "moveToSprint" -> MoveTaskToSprint(c, w)
      [] c.kind = "update"       -> UpdateTask(q, w)
      [] c.kind = "delete"       -> DeleteTask(w)

StatusChanged(from, to) == <<[type |-> "StatusChanged", from |-> from, to |-> to]>>
Assigned(u) == <<[type |-> "Assigned", from |-> {}, to |-> u]>>
Created == <<[type |-> "Created", from |-> {}, to |-> {}]>>
Deleted == <<[type |-> "Deleted", from |-> {}, to |-> {}]>>

\* Mutant of Raised: the event of a change of status names the new status twice.
MutRaisedFrom(c, w) ==
    IF c.kind = "changeStatus" THEN StatusChanged(c.to, c.to)
    ELSE IF c.kind = "assign" THEN Assigned(c.to)
    ELSE IF c.kind = "delete" THEN Deleted
    ELSE <<>>

\* The events that the method adds to the aggregate; a change of a project
\* raises none.
Raised(c, w) ==
    IF c.kind = "changeStatus" THEN StatusChanged({w.status}, c.to)
    ELSE IF c.kind = "assign" THEN Assigned(c.to)
    ELSE IF c.kind = "delete" THEN Deleted
    ELSE <<>>

-----------------------------------------------------------------------------
(* The repositories.  A save writes the columns of the copy, whatever the   *)
(* row holds by then, and the events in the same transaction.              *)

SaveProject(p, w, events) ==
    /\ table' = [table EXCEPT ![p] = w]
    /\ log' = [log EXCEPT ![p] = @ \o events]

\* the events of the sprint stay in the aggregate
SaveSprint(s, w) ==
    /\ table' = [table EXCEPT ![s] = w]
    /\ UNCHANGED log

SaveTask(t, w, events) ==
    /\ table' = [table EXCEPT ![t] = w]
    /\ log' = [log EXCEPT ![t] = @ \o events]

\* findById: the row, or none
FindProject(p) == {table[p]} \ {NoRow}
FindSprint(s) == {table[s]} \ {NoRow}
FindTask(t) == {w \in {table[t]} \ {NoRow} : ~w.deleted}

FindById(o) ==
    IF o \in Task THEN FindTask(o) ELSE IF o \in Sprint THEN FindSprint(o) ELSE FindProject(o)

-----------------------------------------------------------------------------
(* The command handlers.                                                   *)

\* A create handler takes a new id.
Insert(o) ==
    /\ table[o] = NoRow
    /\ UNCHANGED <<pc, op, loaded, raced, starters, met>>

CreateProject(p) == Insert(p) /\ SaveProject(p, NewProject, Created)

CreateSprint(s) == Insert(s) /\ SaveSprint(s, NewSprint)

CreateTask(t) == Insert(t) /\ SaveTask(t, NewTask, Created)

InFlight == {q \in Request : pc[q] \notin {"idle", "done"}}

\* a command on an existing object reaches its handler
Receive(q, c) ==
    /\ pc[q] = "idle" /\ table[c.on] # NoRow
    /\ op' = [op EXCEPT ![q] = c]
    /\ pc' = [pc EXCEPT ![q] = "find"]
    /\ met' = met \cup {{q, r} : r \in InFlight}
    /\ UNCHANGED <<table, log, loaded, raced, starters>>

\* the request is answered, well or not
End(q) ==
    /\ pc' = [pc EXCEPT ![q] = "done"]
    /\ op' = [op EXCEPT ![q] = NoCommand]
    /\ loaded' = [loaded EXCEPT ![q] = NoRow]

IsStart(q) == op[q].kind = "start"

\* findById and the method of the aggregate; StartSprintHandler calls the
\* method after its second query
Find(q) ==
    /\ pc[q] = "find"
    /\ LET found == {w \in FindById(op[q].on) : IsStart(q) \/ Execute(op[q], q, w) # {}}
       IN \/ /\ found = {}
             /\ End(q)
          \/ \E w \in found :
             /\ loaded' = [loaded EXCEPT ![q] = w]
             /\ pc' = [pc EXCEPT ![q] = IF IsStart(q) THEN "findActive" ELSE "save"]
             /\ UNCHANGED op
    /\ UNCHANGED <<table, log, raced, starters, met>>

ActiveSprints == {s \in Sprint : table[s].status = "ACTIVE"}

\* Mutant of MayStart: the answer of the query is ignored.
MutMayStart(q) == TRUE

\* findActiveByProjectId returned none, or any one, which must be the sprint
\* itself
MayStart(q) == ActiveSprints = {} \/ op[q].on \in ActiveSprints

FindActive(q) ==
    /\ pc[q] = "findActive"
    /\ \/ /\ MayStart(q)
          /\ Execute(op[q], q, loaded[q]) # {}
          /\ pc' = [pc EXCEPT ![q] = "save"]
          /\ UNCHANGED <<op, loaded>>
       \/ /\ (ActiveSprints \ {op[q].on} # {} \/ Execute(op[q], q, loaded[q]) = {})
          /\ End(q)
    /\ UNCHANGED <<table, log, raced, starters, met>>

\* the transaction of save commits
Commit(q) ==
    LET o == op[q].on IN
    /\ \E w \in Execute(op[q], q, loaded[q]) :
        \/ o \in Project /\ SaveProject(o, w, <<>>)
        \/ o \in Sprint /\ SaveSprint(o, w)
        \/ o \in Task /\ SaveTask(o, w, Raised(op[q], loaded[q]))
    /\ raced' = IF loaded[q] = table[o] THEN raced ELSE raced \cup {o}
    /\ starters' = IF IsStart(q) THEN [starters EXCEPT ![o] = @ \cup {q}] ELSE starters

Save(q) ==
    /\ pc[q] = "save"
    /\ Commit(q)
    /\ End(q)
    /\ UNCHANGED met

\* A statement throws or the process dies, the save being applied or not.
Throws(q) ==
    /\ q \in InFlight
    /\ \/ pc[q] = "save" /\ Commit(q)
       \/ UNCHANGED <<table, log, raced, starters>>
    /\ End(q)
    /\ UNCHANGED met

Next ==
    \/ \E p \in Project : CreateProject(p)
    \/ \E s \in Sprint : CreateSprint(s)
    \/ \E t \in Task : CreateTask(t)
    \/ \E q \in Request :
        \/ \E c \in Command : Receive(q, c)
        \/ Find(q) \/ FindActive(q) \/ Save(q) \/ Throws(q)

Spec == Init /\ [][Next]_vars

-----------------------------------------------------------------------------

TypeOK ==
    /\ table \in [Object -> AnyRow]
    /\ \A o \in Object : table[o] # NoRow => table[o] \in Row(o)
    /\ log \in [Logged -> Seq(Event)]
    /\ pc \in [Request -> {"idle", "find", "findActive", "save", "done"}]
    /\ op \in [Request -> Command \cup {NoCommand}]
    /\ loaded \in [Request -> AnyRow]
    /\ \A q \in InFlight :
        /\ op[q] # NoCommand
        /\ pc[q] # "find" => loaded[q] \in Row(op[q].on)
    /\ raced \subseteq Object
    /\ starters \in [Sprint -> SUBSET Request]
    /\ met \subseteq SUBSET Request

\* Two sprints of a project are active only if two requests that started them
\* were in flight at the same time.
ActiveSprintsOverlapped ==
    \A s, r \in ActiveSprints :
        s # r => \E a \in starters[s], b \in starters[r] : {a, b} \in met

\* the value after the last event of that type among the first n, or else d
Told(t, type, d, n) ==
    LET I == {i \in 1..n : log[t][i].type = type}
    IN IF I = {} THEN d ELSE log[t][CHOOSE i \in I : \A j \in I : j <= i].to

\* As long as no save of a task came from a copy left behind, its events, read
\* in order, give its status, its assignee and whether it is deleted, and each
\* change of status starts from the status that the events before it gave.
LogTellsTheTask ==
    \A t \in Task : table[t] # NoRow /\ t \notin raced =>
        LET n == Len(log[t]) IN
        /\ {table[t].status} = Told(t, "StatusChanged", {"BACKLOG"}, n)
        /\ table[t].assignee = Told(t, "Assigned", {}, n)
        /\ table[t].deleted <=> \E i \in 1..n : log[t][i].type = "Deleted"
        /\ \A i \in 1..n : log[t][i].type = "StatusChanged" =>
            log[t][i].from = Told(t, "StatusChanged", {"BACKLOG"}, i - 1)

\* the save that this step makes of object o comes from a copy left behind
StaleSave(o) ==
    \E q \in Request :
        pc[q] = "save" /\ pc'[q] # "save" /\ op[q].on = o /\ loaded[q] # table[o]

\* A deleted task does not change and does not come back, a cancelled task
\* keeps its assignee, a completed sprint stays completed and a project goes
\* through VALID_TRANSITIONS only, unless a save writes back a copy that the
\* table has left behind.
ClosedStaysClosed ==
    [][/\ \A t \in Task : table[t] # NoRow /\ ~StaleSave(t) =>
            /\ table[t].deleted => table'[t] = table[t]
            /\ table[t].status = "CANCELLED" => table'[t].assignee = table[t].assignee
       /\ \A s \in Sprint : table[s].status = "COMPLETED" /\ ~StaleSave(s) =>
            table'[s] = table[s]
       /\ \A p \in Project :
            table[p] \notin {NoRow, table'[p]} /\ ~StaleSave(p) =>
                <<table[p].status, table'[p].status>> \in ValidTransition]_vars
=============================================================================
