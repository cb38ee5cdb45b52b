---------------------------- MODULE BoardProofs ----------------------------
(***************************************************************************)
(* Board keeps its types; two sprints are active only if their starts      *)
(* overlapped; what is closed stays closed and the log of a task tells the *)
(* task, but for stale saves, for any number of objects, users and         *)
(* requests.                                                               *)
(*                                                                         *)
(* BoardColumns keeps its types; a task is shown in one column; the        *)
(* table's columns are those that are asked for, and a board at rest       *)
(* catches up with them, for any default columns and any number of         *)
(* browsers, changes, fetches and faults.                                  *)
(***************************************************************************)
EXTENDS Board, BoardColumns, TLAPS

USE StatusAssumption, IdAssumption

-----------------------------------------------------------------------------
(* The inductive invariant.                                                *)

\* A command works on an object that has a row.
Targets == \A q \in InFlight : table[op[q].on] # NoRow

\* Requests in flight have met.
InFlightMet == \A q, r \in InFlight : q # r => {q, r} \in met

\* The starts of s and r overlapped.
Overlapped(s, r) == \E a \in starters[s], b \in starters[r] : {a, b} \in met

\* When a start is about to save its sprint, it has met a starter of every
\* other active sprint, unless the two sprints have overlapped anyway.
AboutToStart ==
    \A q \in Request : pc[q] = "save" /\ IsStart(q) =>
        \A r \in ActiveSprints : r # op[q].on =>
            (\E b \in starters[r] : {q, b} \in met) \/ Overlapped(op[q].on, r)

-----------------------------------------------------------------------------
\* A sprint, a task, a project has one kind of commands.
LEMMA KindsOfObjects ==
    ASSUME NEW c \in Command
    PROVE /\ c.on \in Object
          /\ c \in TaskCommand <=> c.on \in Task
          /\ c \in SprintCommand <=> c.on \in Sprint
          /\ c.kind = "start" => c \in SprintCommand
          /\ c # NoCommand
<1>1. CASE c \in TaskCommand
  <2>1. c.on \in Task /\ c.kind \notin {"start", "none"}
    BY <1>1 DEF TaskCommand, ChangeTaskStatusCommand, AssignTaskCommand,
                MoveTaskToSprintCommand, UpdateTaskCommand, DeleteTaskCommand
  <2>2. c \notin SprintCommand
    BY <2>1 DEF SprintCommand, StartSprintCommand, CompleteSprintCommand
  <2> QED BY <1>1, <2>1, <2>2 DEF Object, NoCommand
<1>2. CASE c \in SprintCommand
  <2>1. c.on \in Sprint /\ c.kind # "none"
    BY <1>2 DEF SprintCommand, StartSprintCommand, CompleteSprintCommand
  <2>2. c \notin TaskCommand
    BY <2>1 DEF TaskCommand, ChangeTaskStatusCommand, AssignTaskCommand,
                MoveTaskToSprintCommand, UpdateTaskCommand, DeleteTaskCommand
  <2> QED BY <1>2, <2>1, <2>2 DEF Object, NoCommand
<1>3. CASE c \in ProjectCommand
  <2>1. c.on \in Project /\ c.kind \notin {"start", "none"}
    BY <1>3 DEF ProjectCommand
  <2>2. c \notin TaskCommand /\ c \notin SprintCommand
    BY <2>1 DEF TaskCommand, ChangeTaskStatusCommand, AssignTaskCommand,
                MoveTaskToSprintCommand, UpdateTaskCommand, DeleteTaskCommand,
                SprintCommand, StartSprintCommand, CompleteSprintCommand
  <2> QED BY <2>1, <2>2 DEF Object, NoCommand
<1> QED BY <1>1, <1>2, <1>3 DEF Command

\* No method of an aggregate leaves the domain of its columns.
LEMMA ExecuteKeepsRows ==
    ASSUME NEW c \in Command, NEW q \in Request, NEW w \in Row(c.on),
           NEW v \in Execute(c, q, w)
    PROVE v \in Row(c.on) /\ v \in AnyRow /\ v # NoRow
<1>1. CASE c \in TaskCommand
  <2>1. w \in TaskRow /\ Row(c.on) = TaskRow
    BY <1>1, KindsOfObjects DEF Row
  <2>2. v \in TaskRow
    <3>1. CASE c \in ChangeTaskStatusCommand
      BY <2>1, <3>1 DEF Execute, ChangeTaskStatus, ChangeStatus, TaskRow, ChangeTaskStatusCommand
    <3>2. CASE c \in AssignTaskCommand
      BY <2>1, <3>2 DEF Execute, AssignTask, Assign, TaskRow, AssignTaskCommand
    <3>3. CASE c \in MoveTaskToSprintCommand
      BY <2>1, <3>3 DEF Execute, MoveTaskToSprint, MoveToSprint, RemoveFromSprint, TaskRow,
                        MoveTaskToSprintCommand
    <3>4. CASE c \in UpdateTaskCommand
      BY <2>1, <3>4 DEF Execute, UpdateTask, SetDetails, TaskRow, UpdateTaskCommand
    <3>5. CASE c \in DeleteTaskCommand
      BY <2>1, <3>5 DEF Execute, DeleteTask, SoftDelete, TaskRow, DeleteTaskCommand
    <3> QED BY <1>1, <3>1, <3>2, <3>3, <3>4, <3>5 DEF TaskCommand
  <2> QED BY <2>1, <2>2 DEF AnyRow, TaskRow, NoRow
<1>2. CASE c \in SprintCommand
  <2>1. w \in SprintRow /\ Row(c.on) = SprintRow
    BY <1>2, KindsOfObjects DEF Row
  <2>2. v \in SprintRow
    BY <2>1, <1>2 DEF Execute, Start, CompleteSprint, Complete, SprintRow, SprintCommand,
                      StartSprintCommand, CompleteSprintCommand
  <2> QED BY <2>1, <2>2 DEF AnyRow, SprintRow, NoRow
<1>3. CASE c \in ProjectCommand
  <2>1. w \in ProjectRow /\ Row(c.on) = ProjectRow
    BY <1>3 DEF Row, ProjectCommand
  <2>2. v \in ProjectRow
    BY <2>1, <1>3 DEF Execute, ChangeProjectStatus, Activate, CompleteProject, Archive,
                      TransitionTo, ProjectRow, ProjectCommand
  <2> QED BY <2>1, <2>2 DEF AnyRow, ProjectRow, NoRow
<1> QED BY <1>1, <1>2, <1>3 DEF Command

\* What a method of a task raises are events.
LEMMA RaisedAreEvents ==
    ASSUME NEW c \in TaskCommand, NEW w \in TaskRow
    PROVE Raised(c, w) \in Seq(Event)
<1>1. CASE c \in ChangeTaskStatusCommand
  BY <1>1 DEF ChangeTaskStatusCommand, TaskRow, Raised, StatusChanged, Event
<1>2. CASE c \in AssignTaskCommand
  <2>1. c.kind = "assign" /\ c.to \in {{u} : u \in User}
    BY <1>2 DEF AssignTaskCommand
  <2> QED BY <2>1 DEF Raised, Assigned, Event
<1>3. CASE c \in DeleteTaskCommand
  <2>1. c.kind = "delete"
    BY <1>3 DEF DeleteTaskCommand
  <2> QED BY <2>1 DEF Raised, Deleted, Event
<1>4. CASE c \in MoveTaskToSprintCommand \/ c \in UpdateTaskCommand
  BY <1>4 DEF MoveTaskToSprintCommand, UpdateTaskCommand, Raised
<1> QED BY <1>1, <1>2, <1>3, <1>4 DEF TaskCommand

-----------------------------------------------------------------------------
(* Types, commands with an object, requests that have met.                 *)

TypeInv == TypeOK /\ Targets /\ InFlightMet

\* What a step of a request in flight needs to know of it.
LEMMA Flight ==
    ASSUME TypeOK, Targets, NEW q \in InFlight
    PROVE /\ op[q] \in Command
          /\ op[q].on \in Object
          /\ table[op[q].on] \in Row(op[q].on)
          /\ table[op[q].on] # NoRow
          /\ pc[q] # "find" => loaded[q] \in Row(op[q].on)
BY KindsOfObjects DEF TypeOK, Targets, InFlight

\* A save writes the row of the object and appends events to its own log.
LEMMA CommitWrites ==
    ASSUME NEW q \in Request, Commit(q)
    PROVE \E w \in Execute(op[q], q, loaded[q]) : table' = [table EXCEPT ![op[q].on] = w]
BY DEF Commit, SaveProject, SaveSprint, SaveTask

\* The transaction of a save keeps types and rows.
LEMMA CommitKeepsTypes ==
    ASSUME TypeOK, Targets, NEW q \in InFlight, pc[q] # "find", Commit(q)
    PROVE /\ table' \in [Object -> AnyRow]
          /\ \A o \in Object : table'[o] # NoRow => table'[o] \in Row(o)
          /\ \A o \in Object : table[o] # NoRow => table'[o] # NoRow
          /\ log' \in [Logged -> Seq(Event)]
          /\ raced' \subseteq Object
          /\ starters' \in [Sprint -> SUBSET Request]
<1> DEFINE o == op[q].on
<1>1. /\ op[q] \in Command /\ o \in Object
      /\ loaded[q] \in Row(o)
      /\ q \in Request
  BY Flight DEF InFlight
<1>2. PICK w \in Execute(op[q], q, loaded[q]) : table' = [table EXCEPT ![o] = w]
  BY <1>1, CommitWrites
<1>3. w \in Row(o) /\ w \in AnyRow /\ w # NoRow
  BY <1>1, <1>2, ExecuteKeepsRows
<1>4. /\ table' \in [Object -> AnyRow]
      /\ \A x \in Object : table'[x] # NoRow => table'[x] \in Row(x)
      /\ \A x \in Object : table[x] # NoRow => table'[x] # NoRow
  BY <1>1, <1>2, <1>3 DEF TypeOK
<1>5. log' \in [Logged -> Seq(Event)]
  <2> SUFFICES ASSUME NEW e \in Seq(Event), o \in Logged, log' = [log EXCEPT ![o] = @ \o e]
               PROVE log' \in [Logged -> Seq(Event)]
    <3>1. CASE o \in Project /\ log' = [log EXCEPT ![o] = @ \o <<>>]
      <4>1. <<>> \in Seq(Event) /\ o \in Logged
        BY <3>1 DEF Logged
      <4> QED BY <3>1, <4>1
    <3>2. CASE UNCHANGED log
      BY <3>2 DEF TypeOK
    <3>3. CASE o \in Task /\ log' = [log EXCEPT ![o] = @ \o Raised(op[q], loaded[q])]
      <4>1. op[q] \in TaskCommand /\ loaded[q] \in TaskRow
        BY <1>1, <3>3, KindsOfObjects DEF Row
      <4>2. Raised(op[q], loaded[q]) \in Seq(Event) /\ o \in Logged
        BY <3>3, <4>1, RaisedAreEvents DEF Logged
      <4> QED BY <3>3, <4>2
    <3> QED BY <3>1, <3>2, <3>3 DEF Commit, SaveProject, SaveSprint, SaveTask
  <2>1. log[o] \o e \in Seq(Event)
    BY DEF TypeOK
  <2> QED BY <2>1 DEF TypeOK
<1>6. raced' \subseteq Object
  BY <1>1 DEF Commit, TypeOK
<1>7. starters' \in [Sprint -> SUBSET Request]
  <2>1. CASE IsStart(q)
    <3>1. o \in Sprint
      BY <1>1, <2>1, KindsOfObjects DEF IsStart
    <3>2. starters' = [starters EXCEPT ![o] = starters[o] \cup {q}]
      BY <2>1 DEF Commit
    <3> QED BY <3>1, <3>2, <1>1 DEF TypeOK
  <2>2. CASE ~IsStart(q)
    BY <2>2 DEF Commit, TypeOK
  <2> QED BY <2>1, <2>2
<1> QED BY <1>4, <1>5, <1>6, <1>7

\* The end of a request keeps the types of what it resets.
LEMMA EndKeepsTypes ==
    ASSUME TypeOK, NEW q \in Request, End(q)
    PROVE /\ pc' \in [Request -> {"idle", "find", "findActive", "save", "done"}]
          /\ op' \in [Request -> Command \cup {NoCommand}]
          /\ loaded' \in [Request -> AnyRow]
          /\ InFlight' = InFlight \ {q}
          /\ \A r \in InFlight' : pc'[r] = pc[r] /\ op'[r] = op[r] /\ loaded'[r] = loaded[r]
BY DEF TypeOK, End, InFlight, AnyRow

\* A row that is inserted leaves the requests alone.
LEMMA InsertKeepsTypes ==
    ASSUME TypeInv, NEW o \in Object, NEW w \in Row(o), w \in AnyRow, w # NoRow, Insert(o),
           table' = [table EXCEPT ![o] = w], log' \in [Logged -> Seq(Event)]
    PROVE TypeInv'
<1>1. table' \in [Object -> AnyRow] /\ \A x \in Object : table'[x] # NoRow => table'[x] \in Row(x)
  BY DEF TypeInv, TypeOK
<1>2. InFlight' = InFlight
  BY DEF Insert, InFlight
<1>3. TypeOK'
  BY <1>1, <1>2 DEF TypeInv, TypeOK, Insert
<1>4. Targets'
  BY <1>2 DEF TypeInv, TypeOK, Targets, Insert
<1>5. InFlightMet'
  BY <1>2 DEF TypeInv, InFlightMet, Insert
<1> QED BY <1>3, <1>4, <1>5 DEF TypeInv

\* The event of a creation is logged.
LEMMA CreationIsLogged ==
    ASSUME TypeInv, NEW o \in Logged, log' = [log EXCEPT ![o] = @ \o Created]
    PROVE log' \in [Logged -> Seq(Event)]
<1>1. Created \in Seq(Event)
  BY DEF Created, Event
<1>2. log[o] \o Created \in Seq(Event)
  BY <1>1 DEF TypeInv, TypeOK
<1> QED BY <1>2 DEF TypeInv, TypeOK

\* A step of a request in flight that ends it, having committed or not.
LEMMA EndKeepsTypeInv ==
    ASSUME TypeInv, NEW q \in InFlight, End(q), UNCHANGED met,
           \/ pc[q] # "find" /\ Commit(q)
           \/ UNCHANGED <<table, log, raced, starters>>
    PROVE TypeInv'
<1>1. /\ table' \in [Object -> AnyRow]
      /\ \A o \in Object : table'[o] # NoRow => table'[o] \in Row(o)
      /\ \A o \in Object : table[o] # NoRow => table'[o] # NoRow
      /\ log' \in [Logged -> Seq(Event)]
      /\ raced' \subseteq Object
      /\ starters' \in [Sprint -> SUBSET Request]
  <2>1. CASE pc[q] # "find" /\ Commit(q)
    BY <2>1, CommitKeepsTypes DEF TypeInv
  <2>2. CASE UNCHANGED <<table, log, raced, starters>>
    BY <2>2 DEF TypeInv, TypeOK
  <2> QED BY <2>1, <2>2
<1>2. /\ pc' \in [Request -> {"idle", "find", "findActive", "save", "done"}]
      /\ op' \in [Request -> Command \cup {NoCommand}]
      /\ loaded' \in [Request -> AnyRow]
      /\ InFlight' = InFlight \ {q}
      /\ \A r \in InFlight' : pc'[r] = pc[r] /\ op'[r] = op[r] /\ loaded'[r] = loaded[r]
  BY EndKeepsTypes DEF TypeInv, InFlight
<1>3. \A r \in InFlight : op[r].on \in Object
  BY Flight DEF TypeInv
<1>4. TypeOK'
  BY <1>1, <1>2 DEF TypeInv, TypeOK
<1>5. Targets'
  BY <1>1, <1>2, <1>3 DEF TypeInv, Targets
<1>6. InFlightMet'
  BY <1>2 DEF TypeInv, InFlightMet
<1> QED BY <1>4, <1>5, <1>6 DEF TypeInv

\* Every reachable state has the types, and the facts about requests.
LEMMA TypesHold == Spec => []TypeInv
<1>1. Init => TypeInv
  BY DEF Init, TypeInv, TypeOK, Targets, InFlightMet, InFlight, AnyRow
<1>2. TypeInv /\ [Next]_vars => TypeInv'
  <2> SUFFICES ASSUME TypeInv, [Next]_vars PROVE TypeInv'
    OBVIOUS
  <2>1. ASSUME NEW p \in Project, CreateProject(p) PROVE TypeInv'
    <3>1. NewProject \in Row(p) /\ NewProject \in AnyRow /\ NewProject # NoRow
      BY DEF NewProject, Row, ProjectRow, AnyRow, NoRow
    <3>2. p \in Object /\ p \in Logged
      BY DEF Object, Logged
    <3> QED BY <2>1, <3>1, <3>2, InsertKeepsTypes, CreationIsLogged DEF CreateProject, SaveProject
  <2>2. ASSUME NEW s \in Sprint, CreateSprint(s) PROVE TypeInv'
    <3>1. NewSprint \in Row(s) /\ NewSprint \in AnyRow /\ NewSprint # NoRow
      BY DEF NewSprint, Row, SprintRow, AnyRow, NoRow
    <3>2. log' \in [Logged -> Seq(Event)] /\ s \in Object
      BY <2>2 DEF CreateSprint, SaveSprint, TypeInv, TypeOK, Object
    <3> QED BY <2>2, <3>1, <3>2, InsertKeepsTypes DEF CreateSprint, SaveSprint
  <2>3. ASSUME NEW t \in Task, CreateTask(t) PROVE TypeInv'
    <3>1. NewTask \in Row(t) /\ NewTask \in AnyRow /\ NewTask # NoRow
      BY DEF NewTask, Row, TaskRow, AnyRow, NoRow
    <3>2. t \in Object /\ t \in Logged
      BY DEF Object, Logged
    <3> QED BY <2>3, <3>1, <3>2, InsertKeepsTypes, CreationIsLogged DEF CreateTask, SaveTask
  <2>4. ASSUME NEW q \in Request, NEW c \in Command, Receive(q, c) PROVE TypeInv'
    <3>1. InFlight' = InFlight \cup {q} /\ q \notin InFlight /\ op'[q] = c /\ pc'[q] = "find"
          /\ \A r \in InFlight : op'[r] = op[r] /\ pc'[r] = pc[r]
      BY <2>4 DEF Receive, InFlight, TypeInv, TypeOK
    <3>2. c # NoCommand /\ met' \subseteq SUBSET Request
      BY <2>4, KindsOfObjects DEF Receive, TypeInv, TypeOK, InFlight
    <3>3. TypeOK'
      BY <2>4, <3>1, <3>2 DEF Receive, TypeInv, TypeOK
    <3>4. Targets'
      BY <2>4, <3>1 DEF Receive, TypeInv, Targets
    <3>5. InFlightMet'
      <4> SUFFICES ASSUME NEW r \in InFlight', NEW x \in InFlight', r # x PROVE {r, x} \in met'
        BY DEF InFlightMet
      <4>1. CASE r = q
        BY <2>4, <3>1, <4>1 DEF Receive
      <4>2. CASE x = q
        <5>1. {x, r} \in met' /\ {x, r} = {r, x}
          BY <2>4, <3>1, <4>2 DEF Receive
        <5> QED BY <5>1
      <4>3. CASE r # q /\ x # q
        BY <2>4, <3>1, <4>3 DEF Receive, TypeInv, InFlightMet
      <4> QED BY <4>1, <4>2, <4>3
    <3> QED BY <3>3, <3>4, <3>5 DEF TypeInv
  <2>5. ASSUME NEW q \in Request, Find(q) PROVE TypeInv'
    <3>1. q \in InFlight
      BY <2>5 DEF Find, InFlight
    <3>2. CASE End(q)
      BY <2>5, <3>1, <3>2, EndKeepsTypeInv DEF Find
    <3>3. CASE ~End(q)
      <4>1. /\ loaded' = [loaded EXCEPT ![q] = table[op[q].on]]
            /\ pc' = [pc EXCEPT ![q] = IF IsStart(q) THEN "findActive" ELSE "save"]
            /\ UNCHANGED <<op, table, log, raced, starters, met>>
        BY <2>5, <3>3 DEF Find, FindById, FindTask, FindSprint, FindProject
      <4>2. table[op[q].on] \in Row(op[q].on) /\ table[op[q].on] \in AnyRow
        BY <3>1, Flight DEF TypeInv, TypeOK
      <4>3. InFlight' = InFlight
        BY <4>1, <3>1 DEF InFlight, TypeInv, TypeOK
      <4>4. TypeOK'
        BY <3>1, <4>1, <4>2, <4>3 DEF TypeInv, TypeOK
      <4>5. Targets' /\ InFlightMet'
        BY <4>1, <4>3 DEF TypeInv, Targets, InFlightMet
      <4> QED BY <4>4, <4>5 DEF TypeInv
    <3> QED BY <3>2, <3>3
  <2>6. ASSUME NEW q \in Request, FindActive(q) PROVE TypeInv'
    <3>1. q \in InFlight
      BY <2>6 DEF FindActive, InFlight
    <3>2. CASE End(q)
      BY <2>6, <3>1, <3>2, EndKeepsTypeInv DEF FindActive
    <3>3. CASE ~End(q)
      <4>1. /\ pc' = [pc EXCEPT ![q] = "save"]
            /\ UNCHANGED <<op, loaded, table, log, raced, starters, met>>
            /\ pc[q] = "findActive"
        BY <2>6, <3>3 DEF FindActive
      <4>2. InFlight' = InFlight
        BY <4>1, <3>1 DEF InFlight, TypeInv, TypeOK
      <4>3. TypeOK'
        BY <3>1, <4>1, <4>2 DEF TypeInv, TypeOK
      <4>4. Targets' /\ InFlightMet'
        BY <4>1, <4>2 DEF TypeInv, Targets, InFlightMet
      <4> QED BY <4>3, <4>4 DEF TypeInv
    <3> QED BY <3>2, <3>3
  <2>7. ASSUME NEW q \in Request, Save(q) PROVE TypeInv'
    <3>1. q \in InFlight
      BY <2>7 DEF Save, InFlight
    <3> QED BY <2>7, <3>1, EndKeepsTypeInv DEF Save
  <2>8. ASSUME NEW q \in Request, Throws(q) PROVE TypeInv'
    BY <2>8, EndKeepsTypeInv DEF Throws
  <2>9. CASE UNCHANGED vars
    BY <2>9 DEF vars, TypeInv, TypeOK, Targets, InFlightMet, InFlight
  <2> QED BY <2>1, <2>2, <2>3, <2>4, <2>5, <2>6, <2>7, <2>8, <2>9 DEF Next
<1> QED BY <1>1, <1>2, PTL DEF Spec

\* Every variable keeps its type: whatever columns a save writes back, the row
\* of an object stays in the domain of its table.
THEOREM TypeCorrect == Spec => []TypeOK
<1>1. TypeInv => TypeOK
  BY DEF TypeInv
<1> QED BY <1>1, TypesHold, PTL

-----------------------------------------------------------------------------
(* Two sprints are active only if their starts overlapped.                 *)

StartInv == ActiveSprintsOverlapped /\ AboutToStart

\* A step that activates no sprint and brings no start to its save.
LEMMA QuietStep ==
    ASSUME StartInv, ActiveSprints' \subseteq ActiveSprints, UNCHANGED starters,
           met \subseteq met',
           \A x \in Request : pc'[x] = "save" /\ IsStart(x)' =>
                pc[x] = "save" /\ IsStart(x) /\ op'[x].on = op[x].on
    PROVE StartInv'
<1>1. \A s, r \in Sprint : Overlapped(s, r) => Overlapped(s, r)'
  BY DEF Overlapped
<1>2. ActiveSprintsOverlapped'
  BY <1>1 DEF StartInv, ActiveSprintsOverlapped, Overlapped
<1>3. AboutToStart'
  BY DEF StartInv, AboutToStart, Overlapped
<1> QED BY <1>2, <1>3 DEF StartInv

\* A row that is inserted is no active sprint.
LEMMA InsertIsQuiet ==
    ASSUME StartInv, TypeInv, NEW o \in Object, NEW w \in AnyRow, Insert(o),
           table' = [table EXCEPT ![o] = w], o \in Sprint => w.status # "ACTIVE"
    PROVE StartInv'
<1>1. ActiveSprints' \subseteq ActiveSprints
  BY DEF ActiveSprints, TypeInv, TypeOK, Object
<1> QED BY <1>1, QuietStep DEF Insert, IsStart

\* The end of a request is quiet when its commit was.
LEMMA EndIsQuiet ==
    ASSUME StartInv, TypeInv, NEW q \in Request, End(q), UNCHANGED <<met, starters>>,
           ActiveSprints' \subseteq ActiveSprints
    PROVE StartInv'
<1>1. \A x \in Request : pc'[x] = "save" => x # q /\ pc'[x] = pc[x] /\ op'[x] = op[x]
  BY DEF End, TypeInv, TypeOK
<1> QED BY <1>1, QuietStep DEF IsStart

\* The save of a request that starts no sprint leaves no sprint newly active.
LEMMA OtherCommits ==
    ASSUME TypeInv, NEW q \in InFlight, pc[q] # "find", Commit(q), ~IsStart(q)
    PROVE ActiveSprints' \subseteq ActiveSprints /\ UNCHANGED starters
<1> DEFINE o == op[q].on
<1>1. op[q] \in Command /\ o \in Object /\ loaded[q] \in Row(o)
  BY Flight DEF TypeInv
<1>2. PICK w \in Execute(op[q], q, loaded[q]) : table' = [table EXCEPT ![o] = w]
  BY CommitWrites DEF InFlight
<1>3. CASE o \in Sprint
  <2>1. op[q] \in SprintCommand
    BY <1>1, <1>3, KindsOfObjects
  <2>2. op[q].kind = "finish"
    BY <2>1 DEF SprintCommand, StartSprintCommand, CompleteSprintCommand, IsStart
  <2>3. w.status # "ACTIVE"
    BY <1>1, <1>3, <2>2, <1>2, KindsOfObjects DEF Execute, CompleteSprint, Complete, Row, SprintRow
  <2> QED BY <1>2, <1>3, <2>3 DEF ActiveSprints, Commit, TypeInv, TypeOK, Object
<1>4. CASE o \notin Sprint
  BY <1>2, <1>4 DEF ActiveSprints, Commit, TypeInv, TypeOK, Object
<1> QED BY <1>3, <1>4

\* The save of a start.
LEMMA StartCommits ==
    ASSUME StartInv, TypeInv, NEW q \in InFlight, pc[q] = "save", Commit(q), IsStart(q),
           End(q), UNCHANGED met
    PROVE StartInv'
<1>1. op[q] \in Command /\ q \in Request
  BY Flight DEF TypeInv, InFlight
<1>2. PICK o \in Sprint : o = op[q].on
  BY <1>1, KindsOfObjects DEF IsStart
<1>3. ActiveSprints' \subseteq ActiveSprints \cup {o}
  <2>1. PICK w \in Execute(op[q], q, loaded[q]) : table' = [table EXCEPT ![o] = w]
    BY <1>1, <1>2, CommitWrites
  <2> QED BY <2>1 DEF ActiveSprints, TypeInv, TypeOK, Object
<1>4. starters' = [starters EXCEPT ![o] = starters[o] \cup {q}]
  BY <1>2 DEF Commit
<1>5. /\ starters'[o] = starters[o] \cup {q}
      /\ \A r \in Sprint : r # o => starters'[r] = starters[r]
  BY <1>2, <1>4 DEF TypeInv, TypeOK
<1>6. \A s, r \in Sprint : Overlapped(s, r) => Overlapped(s, r)'
  BY <1>5 DEF Overlapped
<1>7. \A r \in ActiveSprints : r # o => Overlapped(o, r)'
  <2> SUFFICES ASSUME NEW r \in ActiveSprints, r # o PROVE Overlapped(o, r)'
    OBVIOUS
  <2>1. CASE \E b \in starters[r] : {q, b} \in met
    BY <2>1, <1>5 DEF Overlapped, ActiveSprints
  <2>2. CASE Overlapped(o, r)
    BY <2>2, <1>6, <1>2 DEF ActiveSprints
  <2> QED BY <2>1, <2>2, <1>1, <1>2 DEF StartInv, AboutToStart
<1>8. ActiveSprintsOverlapped'
  <2> SUFFICES ASSUME NEW s \in ActiveSprints', NEW r \in ActiveSprints', s # r
               PROVE Overlapped(s, r)'
    BY DEF ActiveSprintsOverlapped, Overlapped
  <2>1. CASE s = o
    BY <2>1, <1>3, <1>7
  <2>2. CASE r = o
    <3>1. Overlapped(o, s)'
      BY <2>2, <1>3, <1>7
    <3>2. PICK a \in starters'[o], b \in starters'[s] : {a, b} \in met'
      BY <3>1 DEF Overlapped
    <3>3. {b, a} \in met'
      <4>1. {b, a} = {a, b}
        OBVIOUS
      <4> QED BY <3>2, <4>1
    <3> QED BY <3>2, <3>3, <2>2 DEF Overlapped
  <2>3. CASE s # o /\ r # o
    <3>1. Overlapped(s, r)
      BY <2>3, <1>3 DEF StartInv, ActiveSprintsOverlapped, Overlapped
    <3> QED BY <3>1, <1>6 DEF ActiveSprints
  <2> QED BY <2>1, <2>2, <2>3
<1>9. AboutToStart'
  <2> SUFFICES ASSUME NEW x \in Request, pc'[x] = "save", IsStart(x)',
                      NEW r \in ActiveSprints', r # op'[x].on
               PROVE \/ \E b \in starters'[r] : {x, b} \in met'
                     \/ \E a \in starters'[op[x].on], b \in starters'[r] : {a, b} \in met'
    <3>1. \A x \in Request : pc'[x] = "save" => x # q /\ op'[x] = op[x]
      BY DEF End, TypeInv, TypeOK
    <3> QED BY <3>1 DEF AboutToStart, Overlapped
  <2>1. x # q /\ x \in InFlight /\ pc[x] = "save" /\ IsStart(x) /\ op'[x] = op[x]
    BY DEF End, TypeInv, TypeOK, InFlight, IsStart
  <2>2. CASE r = o
    BY <2>1, <2>2, <1>5 DEF TypeInv, InFlightMet
  <2>3. CASE r # o
    <3>1. r \in ActiveSprints /\ r \in Sprint
      BY <2>3, <1>3 DEF ActiveSprints
    <3>2. op[x].on \in Sprint
      BY <2>1, Flight, KindsOfObjects DEF IsStart, TypeInv
    <3>3. (\E b \in starters[r] : {x, b} \in met) \/ Overlapped(op[x].on, r)
      BY <2>1, <3>1 DEF StartInv, AboutToStart
    <3>4. starters[op[x].on] \subseteq starters'[op[x].on] /\ starters'[r] = starters[r]
      BY <3>1, <3>2, <1>5, <2>3
    <3> QED BY <3>3, <3>4 DEF Overlapped
  <2> QED BY <2>2, <2>3
<1> QED BY <1>8, <1>9 DEF StartInv

\* Two sprints of a project are active only if requests that started them were
\* in flight at the same time: the check of StartSprintHandler excludes every
\* sequential way to two active sprints.
THEOREM ActiveSprintsHaveOverlapped == Spec => []ActiveSprintsOverlapped
<1>1. Init => StartInv
  BY DEF Init, StartInv, ActiveSprintsOverlapped, AboutToStart, ActiveSprints, NoRow, Object
<1>2. StartInv /\ TypeInv /\ [Next]_vars => StartInv'
  <2> SUFFICES ASSUME StartInv, TypeInv, [Next]_vars PROVE StartInv'
    OBVIOUS
  <2>1. ASSUME NEW p \in Project, CreateProject(p) PROVE StartInv'
    BY <2>1, InsertIsQuiet DEF CreateProject, SaveProject, NewProject, Object, AnyRow, ProjectRow
  <2>2. ASSUME NEW s \in Sprint, CreateSprint(s) PROVE StartInv'
    BY <2>2, InsertIsQuiet DEF CreateSprint, SaveSprint, NewSprint, Object, AnyRow, SprintRow
  <2>3. ASSUME NEW t \in Task, CreateTask(t) PROVE StartInv'
    <3>1. NewTask \in AnyRow /\ t \in Object /\ t \notin Sprint
      BY DEF NewTask, AnyRow, TaskRow, Object
    <3> QED BY <2>3, <3>1, InsertIsQuiet DEF CreateTask, SaveTask
  <2>4. ASSUME NEW q \in Request, NEW c \in Command, Receive(q, c) PROVE StartInv'
    <3>1. \A x \in Request : pc'[x] = "save" => x # q /\ pc'[x] = pc[x] /\ op'[x] = op[x]
      BY <2>4 DEF Receive, TypeInv, TypeOK
    <3>2. ActiveSprints' = ActiveSprints
      BY <2>4 DEF Receive, ActiveSprints
    <3> QED BY <2>4, <3>1, <3>2, QuietStep DEF Receive, IsStart
  <2>5. ASSUME NEW q \in Request, Find(q) PROVE StartInv'
    <3>1. ActiveSprints' = ActiveSprints
      BY <2>5 DEF Find, ActiveSprints
    <3>2. CASE End(q)
      BY <2>5, <3>1, <3>2, EndIsQuiet DEF Find
    <3>3. CASE ~End(q)
      <4>1. \A x \in Request : pc'[x] = "save" /\ IsStart(x)' =>
                pc[x] = "save" /\ IsStart(x) /\ op'[x].on = op[x].on
        BY <2>5, <3>3 DEF Find, IsStart, TypeInv, TypeOK
      <4> QED BY <2>5, <3>1, <4>1, QuietStep DEF Find
    <3> QED BY <3>2, <3>3
  <2>6. ASSUME NEW q \in Request, FindActive(q) PROVE StartInv'
    <3>1. ActiveSprints' = ActiveSprints
      BY <2>6 DEF FindActive, ActiveSprints
    <3>2. CASE End(q)
      BY <2>6, <3>1, <3>2, EndIsQuiet DEF FindActive
    <3>3. CASE ~End(q)
      <4>1. /\ MayStart(q)
            /\ pc' = [pc EXCEPT ![q] = "save"]
            /\ UNCHANGED <<op, starters, met>>
        BY <2>6, <3>3 DEF FindActive
      <4>2. ActiveSprintsOverlapped'
        <5>1. starters' = starters /\ met' = met
          BY <4>1
        <5> QED BY <3>1, <5>1 DEF StartInv, ActiveSprintsOverlapped
      <4>3. \A r \in ActiveSprints : r # op[q].on => Overlapped(op[q].on, r)
        BY <4>1 DEF MayStart, StartInv, ActiveSprintsOverlapped, Overlapped
      <4>4. AboutToStart'
        BY <3>1, <4>1, <4>3 DEF AboutToStart, StartInv, IsStart, Overlapped, TypeInv, TypeOK
      <4> QED BY <4>2, <4>4 DEF StartInv
    <3> QED BY <3>2, <3>3
  <2>7. ASSUME NEW q \in InFlight, pc[q] = "save", Commit(q), End(q), UNCHANGED met
        PROVE StartInv'
    <3>1. CASE IsStart(q)
      BY <2>7, <3>1, StartCommits
    <3>2. CASE ~IsStart(q)
      BY <2>7, <3>2, OtherCommits, EndIsQuiet DEF InFlight
    <3> QED BY <3>1, <3>2
  <2>8. ASSUME NEW q \in Request, Save(q) PROVE StartInv'
    BY <2>7, <2>8 DEF Save, InFlight
  <2>9. ASSUME NEW q \in Request, Throws(q) PROVE StartInv'
    <3>1. CASE pc[q] = "save" /\ Commit(q)
      BY <2>7, <2>9, <3>1 DEF Throws
    <3>2. CASE UNCHANGED <<table, log, raced, starters>>
      <4>1. ActiveSprints' = ActiveSprints
        BY <3>2 DEF ActiveSprints
      <4> QED BY <2>9, <3>2, <4>1, EndIsQuiet DEF Throws
    <3> QED BY <2>9, <3>1, <3>2 DEF Throws
  <2>10. CASE UNCHANGED vars
    BY <2>10 DEF vars, StartInv, ActiveSprintsOverlapped, AboutToStart, ActiveSprints,
                 IsStart, Overlapped
  <2> QED BY <2>1, <2>2, <2>3, <2>4, <2>5, <2>6, <2>8, <2>9, <2>10 DEF Next
<1>3. StartInv => ActiveSprintsOverlapped
  BY DEF StartInv
<1> QED BY <1>1, <1>2, <1>3, TypesHold, PTL DEF Spec

-----------------------------------------------------------------------------
(* What a step does to one object.                                         *)

\* A deleted task is not found, so no request holds a copy of one.
LoadedAlive ==
    \A q \in InFlight : pc[q] # "find" /\ op[q].on \in Task => ~loaded[q].deleted

\* A step leaves an object alone, inserts it, or is the commit of a request
\* that works on it.
LEMMA ObjectSteps ==
    ASSUME TypeInv, [Next]_vars, NEW o \in Object
    PROVE \/ /\ table'[o] = table[o]
             /\ o \in Logged => log'[o] = log[o]
             /\ raced \subseteq raced'
          \/ /\ table[o] = NoRow
             /\ o \in Task => CreateTask(o)
          \/ \E q \in InFlight :
                /\ pc[q] = "save" /\ pc'[q] = "done" /\ op[q].on = o
                /\ Commit(q)
<1> DEFINE Alone == /\ table'[o] = table[o]
                    /\ o \in Logged => log'[o] = log[o]
                    /\ raced \subseteq raced'
           Inserted == table[o] = NoRow /\ (o \in Task => CreateTask(o))
           Saved == \E q \in InFlight :
                        /\ pc[q] = "save" /\ pc'[q] = "done" /\ op[q].on = o
                        /\ Commit(q)
<1>1. CASE UNCHANGED <<table, log, raced>>
  BY <1>1
<1>2. ASSUME NEW p \in Project, CreateProject(p) PROVE Alone \/ Inserted
  <2>1. CASE o = p
    BY <1>2, <2>1 DEF CreateProject, Insert
  <2>2. CASE o # p
    BY <1>2, <2>2 DEF CreateProject, Insert, SaveProject, TypeInv, TypeOK
  <2> QED BY <2>1, <2>2
<1>3. ASSUME NEW s \in Sprint, CreateSprint(s) PROVE Alone \/ Inserted
  <2>1. CASE o = s
    BY <1>3, <2>1 DEF CreateSprint, Insert
  <2>2. CASE o # s
    BY <1>3, <2>2 DEF CreateSprint, Insert, SaveSprint, TypeInv, TypeOK
  <2> QED BY <2>1, <2>2
<1>4. ASSUME NEW t \in Task, CreateTask(t) PROVE Alone \/ Inserted
  <2>1. CASE o = t
    BY <1>4, <2>1 DEF CreateTask, Insert
  <2>2. CASE o # t
    BY <1>4, <2>2 DEF CreateTask, Insert, SaveTask, TypeInv, TypeOK
  <2> QED BY <2>1, <2>2
<1>5. ASSUME NEW q \in InFlight, pc[q] = "save", Commit(q), End(q) PROVE Alone \/ Saved
  <2>1. CASE op[q].on = o
    <3>1. pc'[q] = "done"
      BY <1>5 DEF End, TypeInv, TypeOK, InFlight
    <3> QED BY <1>5, <2>1, <3>1
  <2>2. CASE op[q].on # o
    <3>1. table'[o] = table[o]
      <4>1. PICK w \in Execute(op[q], q, loaded[q]) : table' = [table EXCEPT ![op[q].on] = w]
        BY <1>5, CommitWrites DEF InFlight
      <4> QED BY <2>2, <4>1 DEF TypeInv, TypeOK
    <3>2. o \in Logged => log'[o] = log[o]
      BY <1>5, <2>2 DEF Commit, SaveProject, SaveSprint, SaveTask, TypeInv, TypeOK
    <3>3. raced \subseteq raced'
      BY <1>5 DEF Commit
    <3> QED BY <3>1, <3>2, <3>3
  <2> QED BY <2>1, <2>2
<1>6. ASSUME NEW q \in Request, NEW c \in Command, Receive(q, c) \/ Find(q) \/ FindActive(q)
      PROVE Alone
  BY <1>6 DEF Receive, Find, FindActive
<1>7. ASSUME NEW q \in Request, Save(q) PROVE Alone \/ Saved
  BY <1>5, <1>7 DEF Save, InFlight
<1>8. ASSUME NEW q \in Request, Throws(q) PROVE Alone \/ Saved
  BY <1>5, <1>8 DEF Throws
<1> HIDE DEF Alone, Inserted, Saved
<1>9. Alone \/ Inserted \/ Saved
  <2>1. ASSUME NEW q \in Request, Find(q) \/ FindActive(q) PROVE Alone
    BY <2>1 DEF Find, FindActive, Alone
  <2>2. CASE UNCHANGED vars
    BY <2>2 DEF vars, Alone
  <2> QED BY <1>2, <1>3, <1>4, <1>6, <1>7, <1>8, <2>1, <2>2 DEF Next
<1> QED BY <1>9 DEF Alone, Inserted, Saved

\* Requests take their copies by findById and keep them.
LEMMA AliveHolds == Spec => []LoadedAlive
<1>1. Init => LoadedAlive
  BY DEF Init, LoadedAlive, InFlight
<1>2. TypeInv /\ LoadedAlive /\ [Next]_vars => LoadedAlive'
  <2> SUFFICES ASSUME TypeInv, LoadedAlive, [Next]_vars PROVE LoadedAlive'
    OBVIOUS
  <2>1. ASSUME NEW q \in Request, End(q) PROVE LoadedAlive'
    BY <2>1, EndKeepsTypes DEF LoadedAlive, TypeInv
  <2>2. ASSUME UNCHANGED <<pc, op, loaded>> PROVE LoadedAlive'
    BY <2>2 DEF LoadedAlive, InFlight
  <2>3. ASSUME NEW q \in Request, NEW c \in Command, Receive(q, c) PROVE LoadedAlive'
    BY <2>3 DEF Receive, LoadedAlive, InFlight, TypeInv, TypeOK
  <2>4. ASSUME NEW q \in Request, Find(q) PROVE LoadedAlive'
    <3>1. CASE ~End(q)
      <4>1. PICK w \in FindById(op[q].on) : loaded' = [loaded EXCEPT ![q] = w]
        BY <2>4, <3>1 DEF Find
      <4>2. UNCHANGED op /\ loaded'[q] = w /\ (op[q].on \in Task => ~w.deleted)
        BY <2>4, <3>1, <4>1 DEF Find, FindById, FindTask, TypeInv, TypeOK
      <4>3. \A x \in InFlight' : x # q => x \in InFlight /\ pc'[x] = pc[x] /\ loaded'[x] = loaded[x]
        BY <2>4, <3>1, <4>1 DEF Find, InFlight, TypeInv, TypeOK
      <4> QED BY <4>2, <4>3 DEF LoadedAlive
    <3> QED BY <2>1, <3>1
  <2>5. ASSUME NEW q \in Request, FindActive(q) PROVE LoadedAlive'
    <3>1. CASE ~End(q)
      BY <2>5, <3>1 DEF FindActive, LoadedAlive, InFlight, TypeInv, TypeOK
    <3> QED BY <2>1, <3>1
  <2>6. ASSUME NEW q \in Request, Save(q) \/ Throws(q) PROVE LoadedAlive'
    BY <2>1, <2>6 DEF Save, Throws
  <2>7. ASSUME NEW o, Insert(o) PROVE LoadedAlive'
    BY <2>2, <2>7 DEF Insert
  <2>8. CASE UNCHANGED vars
    BY <2>2, <2>8 DEF vars
  <2> QED BY <2>3, <2>4, <2>5, <2>6, <2>7, <2>8 DEF Next, CreateProject, CreateSprint, CreateTask
<1> QED BY <1>1, <1>2, TypesHold, PTL DEF Spec

\* What a commit makes of a row that its copy equals: a cancelled task keeps
\* its assignee, a completed sprint is refused, a project makes a transition
\* of VALID_TRANSITIONS.
LEMMA FreshExecute ==
    ASSUME NEW c \in Command, NEW q \in Request, NEW w \in Row(c.on),
           NEW v \in Execute(c, q, w)
    PROVE /\ c.on \in Task /\ w.status = "CANCELLED" => v.assignee = w.assignee
          /\ c.on \in Sprint => w.status # "COMPLETED"
          /\ c.on \in Project => <<w.status, v.status>> \in ValidTransition
<1>1. ASSUME c.on \in Task, w.status = "CANCELLED" PROVE v.assignee = w.assignee
  <2>1. w \in TaskRow /\ c \in TaskCommand
    BY <1>1, KindsOfObjects DEF Row
  <2>2. CASE c \in ChangeTaskStatusCommand
    BY <2>1, <2>2 DEF Execute, ChangeTaskStatus, ChangeStatus, TaskRow, ChangeTaskStatusCommand
  <2>3. CASE c \in AssignTaskCommand
    BY <1>1, <2>1, <2>3 DEF Execute, AssignTask, Assign, TaskRow, AssignTaskCommand
  <2>4. CASE c \in MoveTaskToSprintCommand
    BY <2>1, <2>4 DEF Execute, MoveTaskToSprint, MoveToSprint, RemoveFromSprint, TaskRow,
                      MoveTaskToSprintCommand
  <2>5. CASE c \in UpdateTaskCommand
    BY <2>1, <2>5 DEF Execute, UpdateTask, SetDetails, TaskRow, UpdateTaskCommand
  <2>6. CASE c \in DeleteTaskCommand
    BY <2>1, <2>6 DEF Execute, DeleteTask, SoftDelete, TaskRow, DeleteTaskCommand
  <2> QED BY <2>1, <2>2, <2>3, <2>4, <2>5, <2>6 DEF TaskCommand
<1>2. ASSUME c.on \in Sprint PROVE w.status # "COMPLETED"
  <2>1. c \in SprintCommand
    BY <1>2, KindsOfObjects
  <2>2. CASE c.kind = "start"
    BY <2>2 DEF Execute, Start
  <2>3. CASE c.kind = "finish"
    BY <2>3 DEF Execute, CompleteSprint, Complete
  <2> QED BY <2>1, <2>2, <2>3 DEF SprintCommand, StartSprintCommand, CompleteSprintCommand
<1>3. ASSUME c.on \in Project PROVE <<w.status, v.status>> \in ValidTransition
  <2>1. c \in ProjectCommand /\ w \in ProjectRow
    BY <1>3, KindsOfObjects DEF Command, Row, TaskCommand, SprintCommand
  <2>2. PICK s \in {"ACTIVE", "COMPLETED", "ARCHIVED"} : v \in TransitionTo(w, s)
    BY <2>1 DEF Execute, ChangeProjectStatus, Activate, CompleteProject, Archive, ProjectCommand
  <2>3. <<w.status, s>> \in ValidTransition /\ v = [w EXCEPT !.status = s]
    BY <2>2 DEF TransitionTo
  <2>4. v.status = s
    BY <2>1, <2>3 DEF ProjectRow
  <2> QED BY <2>3, <2>4
<1> QED BY <1>1, <1>2, <1>3

\* A deleted task does not change and does not come back, a cancelled task
\* keeps its assignee, a completed sprint stays completed and a project goes
\* through VALID_TRANSITIONS only, unless a save writes back a stale copy.
THEOREM ClosedForGood == Spec => ClosedStaysClosed
<1> DEFINE Closed(o) ==
        table[o] # NoRow /\ ~StaleSave(o) =>
            /\ o \in Task => /\ table[o].deleted => table'[o] = table[o]
                             /\ table[o].status = "CANCELLED" => table'[o].assignee = table[o].assignee
            /\ o \in Sprint /\ table[o].status = "COMPLETED" => table'[o] = table[o]
            /\ o \in Project /\ table[o] # table'[o] =>
                <<table[o].status, table'[o].status>> \in ValidTransition
<1>1. TypeInv /\ LoadedAlive /\ [Next]_vars => \A o \in Object : Closed(o)
  <2> SUFFICES ASSUME TypeInv, LoadedAlive, [Next]_vars,
                      NEW o \in Object, table[o] # NoRow, ~StaleSave(o)
               PROVE Closed(o)
    OBVIOUS
  <2>1. CASE table'[o] = table[o]
    BY <2>1
  <2>2. ASSUME NEW q \in InFlight, pc[q] = "save", pc'[q] = "done", op[q].on = o, Commit(q)
        PROVE Closed(o)
    <3>1. loaded[q] = table[o]
      BY <2>2 DEF StaleSave, InFlight
    <3>2. op[q] \in Command /\ table[o] \in Row(op[q].on) /\ q \in Request
      BY <2>2, Flight DEF TypeInv, InFlight
    <3>3. PICK v \in Execute(op[q], q, table[o]) : table' = [table EXCEPT ![o] = v]
      BY <2>2, <3>1, <3>2, CommitWrites
    <3>4. table'[o] = v
      BY <3>3 DEF TypeInv, TypeOK
    <3>5. o \in Task => ~table[o].deleted
      BY <2>2, <3>1 DEF LoadedAlive
    <3> QED BY <2>2, <3>2, <3>3, <3>4, <3>5, FreshExecute
  <2> HIDE DEF Closed
  <2> QED BY <2>1, <2>2, ObjectSteps
<1>2. ASSUME \A o \in Object : Closed(o)
      PROVE /\ \A t \in Task : table[t] # NoRow /\ ~StaleSave(t) =>
                /\ table[t].deleted => table'[t] = table[t]
                /\ table[t].status = "CANCELLED" => table'[t].assignee = table[t].assignee
            /\ \A s \in Sprint : table[s].status = "COMPLETED" /\ ~StaleSave(s) =>
                table'[s] = table[s]
            /\ \A p \in Project :
                table[p] \notin {NoRow, table'[p]} /\ ~StaleSave(p) =>
                    <<table[p].status, table'[p].status>> \in ValidTransition
  <2>1. \A t \in Task : t \in Object /\ Closed(t)
    BY <1>2 DEF Object
  <2>2. \A s \in Sprint : s \in Object /\ Closed(s)
    BY <1>2 DEF Object
  <2>3. \A p \in Project : p \in Object /\ Closed(p)
    BY <1>2 DEF Object
  <2>4. \A s \in Sprint : table[s].status = "COMPLETED" => table[s] # NoRow
    BY DEF NoRow
  <2> QED BY <2>1, <2>2, <2>3, <2>4
<1> HIDE DEF Closed
<1> QED BY <1>1, <1>2, TypesHold, AliveHolds, PTL DEF Spec, ClosedStaysClosed

-----------------------------------------------------------------------------
(* The log of a task tells the task.                                       *)

\* v is the value after the last event of that type among the first n of s,
\* or else d: a relation, so that no last event has to be searched for.
IsTold(s, type, d, n, v) ==
    \/ v = d /\ \A i \in 1..n : s[i].type # type
    \/ \E i \in 1..n :
        /\ s[i].type = type /\ v = s[i].to
        /\ \A j \in 1..n : s[j].type = type => j <= i

\* The events s tell the row w of a task.
Tale(s, w) ==
    /\ IsTold(s, "StatusChanged", {"BACKLOG"}, Len(s), {w.status})
    /\ IsTold(s, "Assigned", {}, Len(s), w.assignee)
    /\ w.deleted <=> \E i \in 1..Len(s) : s[i].type = "Deleted"
    /\ \A i \in 1..Len(s) : s[i].type = "StatusChanged" =>
        IsTold(s, "StatusChanged", {"BACKLOG"}, i - 1, s[i].from)

\* A task without a row has no events; one never saved from a stale copy has
\* its tale in the log.
TaleInv ==
    \A t \in Task :
        /\ table[t] = NoRow => log[t] = <<>>
        /\ table[t] # NoRow /\ t \notin raced => Tale(log[t], table[t])

\* What is told is what the definition of the property chooses.
LEMMA ToldIsTold ==
    ASSUME NEW t \in Task, NEW type, NEW d, NEW n \in Nat, NEW v, IsTold(log[t], type, d, n, v)
    PROVE v = Told(t, type, d, n)
<1> DEFINE I == {i \in 1..n : log[t][i].type = type}
<1>1. CASE v = d /\ \A i \in 1..n : log[t][i].type # type
  <2>1. I = {}
    BY <1>1
  <2> QED BY <1>1, <2>1 DEF Told
<1>2. ASSUME NEW i \in 1..n, log[t][i].type = type, v = log[t][i].to,
             \A j \in 1..n : log[t][j].type = type => j <= i
      PROVE v = Told(t, type, d, n)
  <2>1. i \in I /\ \A j \in I : j <= i
    BY <1>2
  <2>2. (CHOOSE x \in I : \A j \in I : j <= x) = i
    <3>1. \A x \in I : (\A j \in I : j <= x) => x = i
      BY <2>1
    <3> QED BY <2>1, <3>1
  <2> QED BY <1>2, <2>1, <2>2 DEF Told
<1> QED BY <1>1, <1>2 DEF IsTold

\* The first events of a longer log tell the same.
LEMMA ToldByPrefix ==
    ASSUME NEW s, NEW u, NEW n \in Nat, \A i \in 1..n : u[i] = s[i],
           NEW type, NEW d, NEW v, IsTold(s, type, d, n, v)
    PROVE IsTold(u, type, d, n, v)
BY DEF IsTold

\* One event e more, at place n + 1.
LEMMA ToldByOneMore ==
    ASSUME NEW s, NEW u, NEW n \in Nat, \A i \in 1..n : u[i] = s[i], NEW e, u[n + 1] = e,
           NEW type, NEW d, NEW v, IsTold(s, type, d, n, v)
    PROVE IsTold(u, type, d, n + 1, IF e.type = type THEN e.to ELSE v)
<1>1. CASE e.type = type
  <2>1. n + 1 \in 1..(n + 1) /\ \A j \in 1..(n + 1) : j <= n + 1
    OBVIOUS
  <2> QED BY <1>1, <2>1 DEF IsTold
<1>2. CASE e.type # type
  <2>1. \A i \in 1..(n + 1) : i \in 1..n \/ i = n + 1
    OBVIOUS
  <2>2. \A i \in 1..n : i \in 1..(n + 1)
    OBVIOUS
  <2>3. IsTold(u, type, d, n, v)
    BY ToldByPrefix
  <2>4. ASSUME v = d, \A i \in 1..n : u[i].type # type
        PROVE IsTold(u, type, d, n + 1, v)
    BY <1>2, <2>1, <2>4 DEF IsTold
  <2>5. ASSUME NEW i \in 1..n, u[i].type = type, v = u[i].to,
               \A j \in 1..n : u[j].type = type => j <= i
        PROVE IsTold(u, type, d, n + 1, v)
    BY <1>2, <2>1, <2>2, <2>5 DEF IsTold
  <2>6. \/ v = d /\ \A i \in 1..n : u[i].type # type
        \/ \E i \in 1..n :
            /\ u[i].type = type /\ v = u[i].to
            /\ \A j \in 1..n : u[j].type = type => j <= i
    BY <2>3 DEF IsTold
  <2>7. IsTold(u, type, d, n + 1, v)
    BY <2>4, <2>5, <2>6
  <2> QED BY <1>2, <2>7
<1> QED BY <1>1, <1>2

\* The tale of a log with one event e more.
LEMMA TaleByOneMore ==
    ASSUME NEW s \in Seq(Event), NEW w \in TaskRow, Tale(s, w), NEW e \in Event, NEW v \in TaskRow,
           {v.status} = IF e.type = "StatusChanged" THEN e.to ELSE {w.status},
           v.assignee = IF e.type = "Assigned" THEN e.to ELSE w.assignee,
           v.deleted <=> w.deleted \/ e.type = "Deleted",
           e.type = "StatusChanged" => e.from = {w.status}
    PROVE Tale(s \o <<e>>, v)
<1> DEFINE u == s \o <<e>>
           n == Len(s)
<1>1. n \in Nat /\ Len(u) = n + 1 /\ u[n + 1] = e /\ \A i \in 1..n : u[i] = s[i]
  OBVIOUS
<1>2. \A i \in 1..(n + 1) : i \in 1..n \/ i = n + 1
  BY <1>1
<1>3. \A i \in 1..n : i \in 1..(n + 1) /\ i - 1 \in Nat /\ \A j \in 1..(i - 1) : j \in 1..n
  BY <1>1
<1> HIDE DEF u, n
<1>4. IsTold(s, "StatusChanged", {"BACKLOG"}, n, {w.status}) /\ IsTold(s, "Assigned", {}, n, w.assignee)
  BY DEF Tale, n
<1>5. IsTold(u, "StatusChanged", {"BACKLOG"}, n + 1, {v.status})
  <2>1. IsTold(u, "StatusChanged", {"BACKLOG"}, n + 1,
               IF e.type = "StatusChanged" THEN e.to ELSE {w.status})
    BY <1>1, <1>4, ToldByOneMore
  <2> QED BY <2>1
<1>6. IsTold(u, "Assigned", {}, n + 1, v.assignee)
  BY <1>1, <1>4, ToldByOneMore
<1>7. v.deleted <=> \E i \in 1..(n + 1) : u[i].type = "Deleted"
  <2>1. w.deleted <=> \E i \in 1..n : s[i].type = "Deleted"
    BY DEF Tale, n
  <2>2. n + 1 \in 1..(n + 1)
    BY <1>1
  <2> QED BY <1>1, <1>2, <1>3, <2>1, <2>2
<1>8. ASSUME NEW i \in 1..(n + 1), u[i].type = "StatusChanged"
      PROVE IsTold(u, "StatusChanged", {"BACKLOG"}, i - 1, u[i].from)
  <2>1. CASE i \in 1..n
    <3>1. IsTold(s, "StatusChanged", {"BACKLOG"}, i - 1, s[i].from)
      BY <1>1, <1>8, <2>1 DEF Tale, n
    <3>2. i - 1 \in Nat /\ u[i] = s[i] /\ \A j \in 1..(i - 1) : u[j] = s[j]
      BY <1>1, <1>3, <2>1
    <3> QED BY <3>1, <3>2, ToldByPrefix
  <2>2. CASE i = n + 1
    <3>1. i - 1 = n /\ u[i].from = {w.status}
      BY <1>1, <1>8, <2>2
    <3>2. IsTold(u, "StatusChanged", {"BACKLOG"}, n, {w.status})
      BY <1>1, <1>4, ToldByPrefix
    <3> QED BY <3>1, <3>2
  <2> QED BY <1>2, <2>1, <2>2
<1>9. Tale(u, v)
  BY <1>1, <1>5, <1>6, <1>7, <1>8 DEF Tale
<1> QED BY <1>9 DEF u

\* A commit from the row itself appends what the row needs told.
LEMMA TaleByCommit ==
    ASSUME NEW c \in TaskCommand, NEW q \in Request, NEW w \in TaskRow, NEW v \in Execute(c, q, w),
           v \in TaskRow, NEW s \in Seq(Event), Tale(s, w)
    PROVE Tale(s \o Raised(c, w), v)
<1>1. CASE c \in ChangeTaskStatusCommand
  <2>1. PICK x \in Status : c.kind = "changeStatus" /\ c.to = {x}
    BY <1>1 DEF ChangeTaskStatusCommand
  <2>2. v = [w EXCEPT !.status = x]
    BY <2>1 DEF Execute, ChangeTaskStatus, ChangeStatus
  <2>3. v.status = x /\ v.assignee = w.assignee /\ v.deleted = w.deleted /\ w.status \in Status
    BY <2>2 DEF TaskRow
  <2> DEFINE e == [type |-> "StatusChanged", from |-> {w.status}, to |-> {x}]
  <2>4. Raised(c, w) = <<e>> /\ e \in Event
    BY <2>1, <2>3 DEF Raised, StatusChanged, Event
  <2>5. e.type = "StatusChanged" /\ e.from = {w.status} /\ e.to = {x}
    OBVIOUS
  <2> HIDE DEF e
  <2> QED BY <2>3, <2>4, <2>5, TaleByOneMore
<1>2. CASE c \in AssignTaskCommand
  <2>1. PICK x \in User : c.kind = "assign" /\ c.to = {x}
    BY <1>2 DEF AssignTaskCommand
  <2>2. v = [w EXCEPT !.assignee = {x}]
    BY <2>1 DEF Execute, AssignTask, Assign
  <2>3. v.status = w.status /\ v.assignee = {x} /\ v.deleted = w.deleted
    BY <2>2 DEF TaskRow
  <2> DEFINE e == [type |-> "Assigned", from |-> {}, to |-> {x}]
  <2>4. Raised(c, w) = <<e>> /\ e \in Event
    BY <2>1 DEF Raised, Assigned, Event
  <2>5. e.type = "Assigned" /\ e.to = {x}
    OBVIOUS
  <2> HIDE DEF e
  <2> QED BY <2>3, <2>4, <2>5, TaleByOneMore
<1>3. CASE c \in DeleteTaskCommand
  <2>1. c.kind = "delete"
    BY <1>3 DEF DeleteTaskCommand
  <2>2. v = [w EXCEPT !.deleted = TRUE]
    BY <2>1 DEF Execute, DeleteTask, SoftDelete
  <2>3. v.status = w.status /\ v.assignee = w.assignee /\ v.deleted
    BY <2>2 DEF TaskRow
  <2> DEFINE e == [type |-> "Deleted", from |-> {}, to |-> {}]
  <2>4. Raised(c, w) = <<e>> /\ e \in Event
    BY <2>1 DEF Raised, Deleted, Event
  <2>5. e.type = "Deleted"
    OBVIOUS
  <2> HIDE DEF e
  <2> QED BY <2>3, <2>4, <2>5, TaleByOneMore
<1>4. CASE c \in MoveTaskToSprintCommand \/ c \in UpdateTaskCommand
  <2>1. c.kind \in {"moveToSprint", "update"}
    BY <1>4 DEF MoveTaskToSprintCommand, UpdateTaskCommand
  <2>2. v.status = w.status /\ v.assignee = w.assignee /\ v.deleted = w.deleted
    BY <2>1 DEF Execute, MoveTaskToSprint, MoveToSprint, RemoveFromSprint, UpdateTask, SetDetails, TaskRow
  <2>3. s \o Raised(c, w) = s
    BY <2>1 DEF Raised
  <2> QED BY <2>2, <2>3 DEF Tale
<1> QED BY <1>1, <1>2, <1>3, <1>4 DEF TaskCommand

\* As long as no save of a task came from a stale copy, its events tell its
\* status, its assignee and whether it is deleted, and each change of status
\* starts where the one before it ended.
THEOREM LogTells == Spec => []LogTellsTheTask
<1>1. Init => TaleInv
  BY DEF Init, TaleInv, Object, Logged
<1>2. TypeInv /\ TaleInv /\ [Next]_vars => TaleInv'
  <2> SUFFICES ASSUME TypeInv, TaleInv, [Next]_vars, NEW t \in Task
               PROVE /\ table'[t] = NoRow => log'[t] = <<>>
                     /\ table'[t] # NoRow /\ t \notin raced' => Tale(log'[t], table'[t])
    BY DEF TaleInv
  <2>1. t \in Object /\ t \in Logged /\ log[t] \in Seq(Event)
    BY DEF Object, Logged, TypeInv, TypeOK
  <2>2. CASE table'[t] = table[t] /\ log'[t] = log[t] /\ raced \subseteq raced'
    BY <2>2 DEF TaleInv
  <2>3. CASE table[t] = NoRow /\ CreateTask(t)
    <3>1. log'[t] = Created /\ table'[t] = NewTask
      <4>1. log'[t] = <<>> \o Created
        BY <2>1, <2>3 DEF CreateTask, SaveTask, TaleInv, TypeInv, TypeOK
      <4> QED BY <2>1, <2>3, <4>1 DEF CreateTask, SaveTask, Created, TypeInv, TypeOK
    <3>2. Len(Created) = 1 /\ Created[1].type = "Created"
      BY DEF Created
    <3>3. \A i \in 1..1 : i = 1
      OBVIOUS
    <3>4. /\ NewTask # NoRow /\ NewTask.status = "BACKLOG" /\ NewTask.assignee = {}
          /\ ~NewTask.deleted
      BY DEF NewTask, NoRow
    <3>5. Tale(Created, NewTask)
      BY <3>2, <3>3, <3>4 DEF Tale, IsTold
    <3> QED BY <3>1, <3>4, <3>5
  <2>4. ASSUME NEW q \in InFlight, pc[q] = "save", op[q].on = t, Commit(q)
        PROVE /\ table'[t] = NoRow => log'[t] = <<>>
              /\ table'[t] # NoRow /\ t \notin raced' => Tale(log'[t], table'[t])
    <3>1. op[q] \in TaskCommand /\ table[t] \in TaskRow /\ table[t] # NoRow /\ q \in Request
          /\ loaded[q] \in TaskRow
      BY <2>4, Flight, KindsOfObjects DEF TypeInv, InFlight, Row
    <3>2. PICK v \in Execute(op[q], q, loaded[q]) : SaveTask(t, v, Raised(op[q], loaded[q]))
      BY <2>4 DEF Commit
    <3>3. table'[t] = v /\ log'[t] = log[t] \o Raised(op[q], loaded[q])
      BY <2>1, <3>2 DEF SaveTask, TypeInv, TypeOK
    <3>4. v \in TaskRow /\ v # NoRow
      <4>1. op[q] \in Command /\ Row(op[q].on) = TaskRow
        BY <2>4, <3>1 DEF Command, Row
      <4> QED BY <3>1, <3>2, <4>1, ExecuteKeepsRows
    <3>5. ASSUME t \notin raced' PROVE Tale(log'[t], table'[t])
      <4>1. loaded[q] = table[t] /\ t \notin raced
        BY <2>4, <3>5 DEF Commit
      <4>2. Tale(log[t], table[t])
        BY <3>1, <4>1 DEF TaleInv
      <4> QED BY <2>1, <3>1, <3>2, <3>3, <3>4, <4>1, <4>2, TaleByCommit
    <3> QED BY <3>3, <3>4, <3>5
  <2> QED BY <2>1, <2>2, <2>3, <2>4, ObjectSteps
<1>3. TaleInv /\ TypeInv => LogTellsTheTask
  <2> SUFFICES ASSUME TaleInv, TypeInv, NEW t \in Task, table[t] # NoRow, t \notin raced
               PROVE LET n == Len(log[t]) IN
                     /\ {table[t].status} = Told(t, "StatusChanged", {"BACKLOG"}, n)
                     /\ table[t].assignee = Told(t, "Assigned", {}, n)
                     /\ table[t].deleted <=> \E i \in 1..n : log[t][i].type = "Deleted"
                     /\ \A i \in 1..n : log[t][i].type = "StatusChanged" =>
                         log[t][i].from = Told(t, "StatusChanged", {"BACKLOG"}, i - 1)
    BY DEF LogTellsTheTask
  <2> DEFINE n == Len(log[t])
  <2>1. Tale(log[t], table[t])
    BY DEF TaleInv
  <2>2. n \in Nat
    BY DEF TypeInv, TypeOK, Logged
  <2>3. /\ {table[t].status} = Told(t, "StatusChanged", {"BACKLOG"}, n)
        /\ table[t].assignee = Told(t, "Assigned", {}, n)
    BY <2>1, <2>2, ToldIsTold DEF Tale
  <2>4. ASSUME NEW i \in 1..n, log[t][i].type = "StatusChanged"
        PROVE log[t][i].from = Told(t, "StatusChanged", {"BACKLOG"}, i - 1)
    <3>1. i - 1 \in Nat
      BY <2>2
    <3> QED BY <2>1, <2>4, <3>1, ToldIsTold DEF Tale
  <2> QED BY <2>1, <2>3, <2>4 DEF Tale
<1> QED BY <1>1, <1>2, <1>3, TypesHold, PTL DEF Spec

-----------------------------------------------------------------------------
(* BoardColumns: lists of columns.                                         *)

USE BoundAssumption, DefaultAssumption

\* the name of a column, and what it shows
NameOf(c) == [id |-> c.id, name |-> c.name]

LEMMA NamedIs ==
    ASSUME NEW cols
    PROVE  \A n : n \in Named(cols) <=> \E i \in DOMAIN cols : n = NameOf(cols[i])
  BY DEF Named, Range, NameOf

LEMMA UsedIs ==
    ASSUME NEW cols
    PROVE  \A s : s \in Used(cols) <=> \E i \in DOMAIN cols : s \in cols[i].statuses
  BY DEF Used, Range

LEMMA NamedInIs ==
    /\ NamedIn({}) = {}
    /\ \A cols : NamedIn({cols}) = Named(cols)
  BY DEF NamedIn

\* the ids of a list differ, and its columns map no status twice unless the
\* form was crowded
Apart(cols) ==
    \A i, j \in DOMAIN cols : i # j =>
        /\ cols[i].id # cols[j].id
        /\ crowded \/ cols[i].statuses \cap cols[j].statuses = {}

\* an id that is not a default column's is that of a request that was sent
Given(cols) == \A i \in DOMAIN cols : cols[i].id \in Change => at[cols[i].id] # "idle"

Proper(cols) == cols \in Seq(Column) /\ Apart(cols) /\ Given(cols)

\* Nothing that happens makes a list improper.
LEMMA ProperStays ==
    ASSUME NEW cols, Proper(cols), crowded => crowded',
           \A q \in Change : at[q] # "idle" => at'[q] # "idle"
    PROVE  Proper(cols)'
  BY DEF Proper, Apart, Given

\* The default columns are apart.
LEMMA DefaultIsProper == Proper(DefaultColumns)
<1> DEFINE N == Len(DefaultStatuses)
<1>1. DOMAIN DefaultStatuses = 1..N /\ N \in Nat
  OBVIOUS
<1>2. \A i \in 1..N : DefaultStatuses[i] \in SUBSET ColumnStatus
  OBVIOUS
<1>3. DefaultColumns = [i \in 1..N |->
        [id |-> i, name |-> {}, statuses |-> DefaultStatuses[i], order |-> i - 1]]
  BY <1>1 DEF DefaultColumns
<1>4. \A i \in 1..N : /\ DefaultColumns[i] \in Column
                      /\ DefaultColumns[i].id = i
                      /\ DefaultColumns[i].statuses = DefaultStatuses[i]
  BY <1>1, <1>2, <1>3 DEF Column, Id
<1>5. DefaultColumns \in Seq(Column) /\ DOMAIN DefaultColumns = 1..N
  BY <1>1, <1>3, <1>4
<1>6. Apart(DefaultColumns)
  BY <1>1, <1>4, <1>5 DEF Apart
<1>7. Given(DefaultColumns)
  BY <1>1, <1>4, <1>5 DEF Given
<1> QED BY <1>5, <1>6, <1>7 DEF Proper

\* A column added at the end.
LEMMA WithColumnIs ==
    ASSUME NEW cols, Proper(cols), NEW q \in Change, at[q] = "idle",
           NEW some \in SUBSET ColumnStatus, crowded \/ some \cap Used(cols) = {}
    PROVE  LET list == WithColumn(cols, q, some) IN
           /\ list \in Seq(Column) /\ Apart(list)
           /\ \A i \in DOMAIN list : list[i].id = q \/ \E j \in DOMAIN cols : list[i].id = cols[j].id
           /\ Named(list) = Named(cols) \cup {[id |-> q, name |-> {q}]}
<1> DEFINE new == [id |-> q, name |-> {q}, statuses |-> some, order |-> Len(cols)]
           list == WithColumn(cols, q, some)
           n == Len(cols)
<1>1. cols \in Seq(Column) /\ n \in Nat /\ DOMAIN cols = 1..n
  BY DEF Proper
<1>2. new \in Column /\ new.id = q /\ new.statuses = some /\ NameOf(new) = [id |-> q, name |-> {q}]
  BY <1>1 DEF Column, Id, NameOf
<1>3. list = Append(cols, new)
  BY DEF WithColumn
<1> HIDE DEF new, list
<1>4. /\ list \in Seq(Column) /\ DOMAIN list = 1..n+1 /\ list[n+1] = new
      /\ \A i \in 1..n : list[i] = cols[i]
  BY <1>1, <1>2, <1>3
<1>5. \A i \in 1..n : cols[i].id # q
  BY <1>1 DEF Proper, Given
<1>6. Apart(list)
  <2> SUFFICES ASSUME NEW i \in 1..n+1, NEW j \in 1..n+1, i # j
               PROVE  /\ list[i].id # list[j].id
                      /\ crowded \/ list[i].statuses \cap list[j].statuses = {}
    BY <1>4 DEF Apart
  <2>1. \A k \in 1..n : crowded \/ cols[k].statuses \cap some = {}
    BY <1>1, UsedIs
  <2>2. CASE i \in 1..n /\ j \in 1..n
    BY <1>1, <1>4, <2>2 DEF Proper, Apart
  <2>3. CASE i = n+1 /\ j \in 1..n
    BY <1>2, <1>4, <1>5, <2>1, <2>3
  <2>4. CASE j = n+1 /\ i \in 1..n
    BY <1>2, <1>4, <1>5, <2>1, <2>4
  <2> QED BY <1>1, <2>2, <2>3, <2>4
<1>7. \A i \in DOMAIN list : list[i].id = q \/ \E j \in DOMAIN cols : list[i].id = cols[j].id
  BY <1>1, <1>2, <1>4
<1>8. Named(list) = Named(cols) \cup {[id |-> q, name |-> {q}]}
  <2>1. \A m : m \in Named(list) <=> m \in Named(cols) \/ m = NameOf(new)
    <3> TAKE m
    <3>1. m \in Named(list) <=> \E i \in 1..n+1 : m = NameOf(list[i])
      BY <1>4, NamedIs
    <3>2. m \in Named(cols) <=> \E i \in 1..n : m = NameOf(cols[i])
      BY <1>1, NamedIs
    <3>3. \A i : i \in 1..n+1 <=> i \in 1..n \/ i = n+1
      BY <1>1
    <3> QED BY <1>4, <3>1, <3>2, <3>3
  <2> QED BY <1>2, <2>1
<1> QED BY <1>4, <1>6, <1>7, <1>8 DEF list

\* A column taken away.
LEMMA WithoutColumnIs ==
    ASSUME NEW cols, Proper(cols), NEW k \in DOMAIN cols
    PROVE  LET list == WithoutColumn(cols, cols[k].id) IN
           /\ Proper(list)
           /\ Named(list) = {m \in Named(cols) : m.id # cols[k].id}
<1> DEFINE n == Len(cols)
           at0(i) == IF i < k THEN i ELSE i + 1
           list == WithoutColumn(cols, cols[k].id)
<1>1. cols \in Seq(Column) /\ n \in Nat /\ DOMAIN cols = 1..n /\ k \in 1..n
  BY DEF Proper
<1>2. (CHOOSE i \in DOMAIN cols : cols[i].id = cols[k].id) = k
  <2>1. \A i \in DOMAIN cols : cols[i].id = cols[k].id => i = k
    BY DEF Proper, Apart
  <2> QED BY <2>1
<1>3. list = [i \in 1..n-1 |-> [cols[at0(i)] EXCEPT !.order = i - 1]]
  BY <1>2 DEF WithoutColumn
<1>4. \A i \in 1..n-1 : at0(i) \in 1..n /\ at0(i) # k
  BY <1>1
<1>5. \A i, j \in 1..n-1 : i # j => at0(i) # at0(j)
  BY <1>1
<1>6. \A i \in 1..n : i # k => \E j \in 1..n-1 : at0(j) = i
  <2> SUFFICES ASSUME NEW i \in 1..n, i # k
               PROVE  \E j \in 1..n-1 : at0(j) = i
    OBVIOUS
  <2>1. CASE i < k
    <3>1. i \in 1..n-1 /\ at0(i) = i
      BY <1>1, <2>1
    <3> QED BY <3>1
  <2>2. CASE i > k
    <3>1. i-1 \in 1..n-1 /\ at0(i-1) = i
      BY <1>1, <2>2
    <3> QED BY <3>1
  <2> QED BY <1>1, <2>1, <2>2
<1>7. \A i \in 1..n-1 :
        /\ list[i] \in Column /\ list[i].id = cols[at0(i)].id
        /\ list[i].statuses = cols[at0(i)].statuses /\ NameOf(list[i]) = NameOf(cols[at0(i)])
  <2> SUFFICES ASSUME NEW i \in 1..n-1
               PROVE  /\ list[i] \in Column /\ list[i].id = cols[at0(i)].id
                      /\ list[i].statuses = cols[at0(i)].statuses
                      /\ NameOf(list[i]) = NameOf(cols[at0(i)])
    OBVIOUS
  <2>1. list[i] = [cols[at0(i)] EXCEPT !.order = i - 1]
    BY <1>3
  <2>2. cols[at0(i)] \in Column
    BY <1>1, <1>4
  <2>3. i - 1 \in Nat
    BY <1>1
  <2> HIDE DEF list, at0
  <2> QED BY <2>1, <2>2, <2>3 DEF Column, NameOf
<1>8. list \in Seq(Column) /\ DOMAIN list = 1..n-1
  <2>1. n - 1 \in Nat
    BY <1>1
  <2> QED BY <1>3, <1>7, <2>1
<1> HIDE DEF list, at0
<1>9. Apart(list)
  BY <1>1, <1>4, <1>5, <1>7, <1>8 DEF Apart, Proper
<1>10. Given(list)
  BY <1>1, <1>4, <1>7, <1>8 DEF Given, Proper
<1>11. \A m : m \in Named(list) <=> m \in Named(cols) /\ m.id # cols[k].id
  <2> TAKE m
  <2>1. m \in Named(list) <=> \E i \in 1..n-1 : m = NameOf(cols[at0(i)])
    BY <1>7, <1>8, NamedIs
  <2>2. m \in Named(cols) <=> \E i \in 1..n : m = NameOf(cols[i])
    BY <1>1, NamedIs
  <2>3. \A i \in 1..n : NameOf(cols[i]).id = cols[i].id
    BY DEF NameOf
  <2>4. \A i \in 1..n : cols[i].id # cols[k].id <=> i # k
    BY <1>1 DEF Proper, Apart
  <2> QED BY <1>4, <1>6, <2>1, <2>2, <2>3, <2>4
<1> QED BY <1>8, <1>9, <1>10, <1>11 DEF Proper, list

\* A column renamed.
LEMMA RenamedIs ==
    ASSUME NEW cols, Proper(cols), NEW k \in DOMAIN cols, NEW q \in Change
    PROVE  LET list == Renamed(cols, cols[k].id, q) IN
           /\ Proper(list)
           /\ Named(list) = {m \in Named(cols) : m.id # cols[k].id}
                            \cup {[id |-> cols[k].id, name |-> {q}]}
<1> DEFINE n == Len(cols)
           list == Renamed(cols, cols[k].id, q)
<1>1. cols \in Seq(Column) /\ n \in Nat /\ DOMAIN cols = 1..n /\ k \in 1..n
  BY DEF Proper
<1>2. \A i \in 1..n : cols[i].id = cols[k].id <=> i = k
  BY <1>1 DEF Proper, Apart
<1>3. list = [i \in 1..n |-> IF i = k THEN [cols[i] EXCEPT !.name = {q}] ELSE cols[i]]
  BY <1>1, <1>2 DEF Renamed
<1>4. \A i \in 1..n : cols[i] \in Column
  BY <1>1
<1>5. \A i \in 1..n :
        /\ list[i] \in Column /\ list[i].id = cols[i].id
        /\ list[i].statuses = cols[i].statuses
        /\ NameOf(list[i]) = IF i = k THEN [id |-> cols[k].id, name |-> {q}] ELSE NameOf(cols[i])
  <2> SUFFICES ASSUME NEW i \in 1..n
               PROVE  /\ list[i] \in Column /\ list[i].id = cols[i].id
                      /\ list[i].statuses = cols[i].statuses
                      /\ NameOf(list[i]) = IF i = k THEN [id |-> cols[k].id, name |-> {q}]
                                          ELSE NameOf(cols[i])
    OBVIOUS
  <2>1. list[i] = IF i = k THEN [cols[i] EXCEPT !.name = {q}] ELSE cols[i]
    BY <1>3
  <2>2. cols[i] \in Column
    BY <1>4
  <2> HIDE DEF list
  <2>3. CASE i = k
    BY <2>1, <2>2, <2>3 DEF Column, NameOf
  <2>4. CASE i # k
    BY <2>1, <2>2, <2>4
  <2> QED BY <2>3, <2>4
<1>6. list \in Seq(Column) /\ DOMAIN list = 1..n
  BY <1>1, <1>3, <1>5
<1> HIDE DEF list
<1>7. Apart(list)
  BY <1>1, <1>5, <1>6 DEF Apart, Proper
<1>8. Given(list)
  BY <1>1, <1>5, <1>6 DEF Given, Proper
<1>9. \A m : m \in Named(list) <=>
          \/ m \in Named(cols) /\ m.id # cols[k].id
          \/ m = [id |-> cols[k].id, name |-> {q}]
  <2> TAKE m
  <2>1. m \in Named(list) <=> \E i \in 1..n : m = NameOf(list[i])
    BY <1>6, NamedIs
  <2>2. m \in Named(cols) <=> \E i \in 1..n : m = NameOf(cols[i])
    BY <1>1, NamedIs
  <2>3. \A i \in 1..n : NameOf(cols[i]).id = cols[i].id
    BY DEF NameOf
  <2> DEFINE new == [id |-> cols[k].id, name |-> {q}]
  <2>4. m \in Named(list) <=> m = new \/ \E i \in 1..n : i # k /\ m = NameOf(cols[i])
    BY <1>1, <1>5, <2>1
  <2>5. (\E i \in 1..n : i # k /\ m = NameOf(cols[i])) <=> m \in Named(cols) /\ m.id # cols[k].id
    BY <1>2, <2>2, <2>3
  <2> QED BY <2>4, <2>5
<1> QED BY <1>6, <1>7, <1>8, <1>9 DEF Proper, list

-----------------------------------------------------------------------------
(* Types, lists, and what is asked for.                                    *)

\* no list, or one
OneOf(some) == some = {} \/ \E cols \in some : some = {cols} /\ Proper(cols)

\* The lists in the table, in the browsers and on their way are proper.
ListsFit ==
    /\ OneOf(config)
    /\ \A b \in Browser : OneOf(cache[b].data) /\ OneOf(cache[b].answer)
    /\ \A q \in Change : at[q] # "idle" => Proper(change[q].list)

\* What is chosen in a form is mapped by no column shown.
FormFits == crowded \/ \A b \in Browser : \A cols \in cache[b].data : form[b] \cap Used(cols) = {}

\* m asks for one column more or less than it was made from, or for a new name
\* of one of them.
AsksFor(m, q) ==
    LET seen   == NamedIn(m.shown)
        others == {n \in seen : n.id # m.id}
        new    == [id |-> m.id, name |-> {q}]
    IN  \/ m.kind = "add" /\ m.id = q /\ Named(m.list) = seen \cup {new}
        \/ m.kind = "delete" /\ Named(m.list) = others
        \/ m.kind = "rename" /\ others # seen /\ Named(m.list) = others \cup {new}

Asking == \A q \in Change : at[q] # "idle" => change[q] \in Mutation /\ AsksFor(change[q], q)

ColumnsCore == ColumnsTypeOK /\ ListsFit /\ FormFits /\ Asking

\* No query has columns at first.
LEMMA ColumnsCoreInit == ColumnsInit => ColumnsCore
<1> SUFFICES ASSUME ColumnsInit PROVE ColumnsCore
  OBVIOUS
<1>1. Sent(NoData) \in Cached(Seq(Column), Change)
  BY DEF NoData, Sent, Idle, Cached
<1>2. Sent(NoData).data = {} /\ Sent(NoData).answer = {}
  BY DEF NoData, Sent, Idle
<1>3. ColumnsTypeOK
  <2>1. /\ config \in SUBSET Seq(Column) /\ \A c, d \in config : c = d
        /\ cache \in [Browser -> Cached(Seq(Column), Change)]
    BY <1>1 DEF ColumnsInit
  <2>2. /\ change \in [Change -> {NoMutation}] /\ form \in [Browser -> {{}}]
        /\ at \in [Change -> {"idle"}] /\ opening \in [Browser -> {"no"}]
        /\ reply \in [Change -> {"none"}]
    BY DEF ColumnsInit
  <2>3. /\ change \in [Change -> Mutation \cup {NoMutation}]
        /\ form \in [Browser -> SUBSET ColumnStatus]
        /\ at \in [Change -> {"idle", "sent", "replied", "done"}]
        /\ opening \in [Browser -> {"no", "lookup", "create"}]
        /\ reply \in [Change -> {"none", "ok", "error"}]
    BY <2>2
  <2>4. /\ told \subseteq [id : Id, name : SUBSET Change] /\ contested \subseteq Id
        /\ fetches \in 0..MaxFetches /\ faults \in 0..MaxFaults
    BY DEF ColumnsInit
  <2>5. crowded \in BOOLEAN
    BY DEF ColumnsInit
  <2> QED BY <2>1, <2>3, <2>4, <2>5 DEF ColumnsTypeOK
<1>4. ListsFit
  BY <1>2 DEF ColumnsInit, ListsFit, OneOf
<1>5. FormFits
  BY <1>2 DEF ColumnsInit, FormFits
<1>6. Asking
  BY DEF ColumnsInit, Asking
<1> QED BY <1>3, <1>4, <1>5, <1>6 DEF ColumnsCore

\* The list that a browser shows.
LEMMA ShownIs ==
    ASSUME NEW b \in Browser, OneOf(cache[b].data)
    PROVE  /\ Proper(Shown(b))
           /\ NamedIn(cache[b].data) = Named(Shown(b))
           /\ Shown(b) = <<>> \/ Shown(b) \in cache[b].data
<1>1. CASE cache[b].data = {}
  <2>1. Shown(b) = <<>>
    BY <1>1 DEF Shown
  <2>2. Proper(<<>>)
    <3>1. <<>> \in Seq(Column) /\ DOMAIN <<>> = {}
      OBVIOUS
    <3> QED BY <3>1 DEF Proper, Apart, Given
  <2>3. Named(<<>>) = {}
    <3>1. DOMAIN <<>> = {}
      OBVIOUS
    <3> QED BY <3>1, NamedIs
  <2> QED BY <1>1, <2>1, <2>2, <2>3, NamedInIs
<1>2. CASE cache[b].data # {}
  <2>1. PICK cols \in cache[b].data : cache[b].data = {cols} /\ Proper(cols)
    BY <1>2 DEF OneOf
  <2>2. Shown(b) = cols
    BY <1>2, <2>1 DEF Shown
  <2> QED BY <2>1, <2>2, NamedInIs
<1> QED BY <1>1, <1>2

\* A request is made from the list that its browser shows.
Requested(q, b, m) ==
    /\ at[q] = "idle" /\ at' = [at EXCEPT ![q] = "sent"]
    /\ change' = [change EXCEPT ![q] = m]
    /\ m \in Mutation /\ m.by = b /\ AsksFor(m, q)
    /\ m.list \in Seq(Column) /\ Apart(m.list)
    /\ \A i \in DOMAIN m.list :
          m.list[i].id \in Change => m.list[i].id = q \/ at[m.list[i].id] # "idle"
    /\ form' = form \/ form' = [form EXCEPT ![b] = {}]
    /\ UNCHANGED <<config, opening, reply, cache, told, contested, crowded, bounds>>

LEMMA RequestedIs ==
    ASSUME ColumnsCore, NEW b \in Browser, NEW q \in Change,
           AddColumn(b, q) \/ DeleteColumn(b, q) \/ RenameColumn(b, q)
    PROVE  \E m \in Mutation : Requested(q, b, m)
<1> DEFINE cols == Shown(b)
           m(kind, id, list) == [kind |-> kind, by |-> b, id |-> id,
                                 shown |-> cache[b].data, list |-> list]
<1>1. /\ Proper(cols) /\ NamedIn(cache[b].data) = Named(cols)
      /\ cols = <<>> \/ cols \in cache[b].data
      /\ cache[b].data \in SUBSET Seq(Column)
  <2>1. OneOf(cache[b].data) /\ cache[b].data \in SUBSET Seq(Column)
    BY DEF ColumnsCore, ListsFit, ColumnsTypeOK, Cached
  <2> QED BY <2>1, ShownIs
<1>2. \A k \in DOMAIN cols : cols[k].id \in Id /\ NameOf(cols[k]) \in Named(cols)
  <2>1. \A k \in DOMAIN cols : cols[k] \in Column
    BY <1>1 DEF Proper
  <2> QED BY <2>1, NamedIs DEF Column
<1>3. CASE AddColumn(b, q)
  <2> DEFINE list == WithColumn(cols, q, form[b])
  <2>1. /\ at[q] = "idle" /\ form[b] \in SUBSET ColumnStatus
        /\ change' = [change EXCEPT ![q] = m("add", q, list)]
        /\ at' = [at EXCEPT ![q] = "sent"]
        /\ form' = [form EXCEPT ![b] = {}]
        /\ UNCHANGED <<config, opening, reply, cache, told, contested, crowded, bounds>>
    BY <1>3 DEF AddColumn, Mutate, ColumnsCore, ColumnsTypeOK
  <2>2. crowded \/ form[b] \cap Used(cols) = {}
    <3>1. Used(<<>>) = {}
      <4>1. DOMAIN <<>> = {}
        OBVIOUS
      <4> QED BY <4>1, UsedIs
    <3> QED BY <1>1, <3>1 DEF ColumnsCore, FormFits
  <2>3. /\ list \in Seq(Column) /\ Apart(list)
        /\ \A i \in DOMAIN list : list[i].id = q \/ \E j \in DOMAIN cols : list[i].id = cols[j].id
        /\ Named(list) = Named(cols) \cup {[id |-> q, name |-> {q}]}
    BY <1>1, <2>1, <2>2, WithColumnIs
  <2>4. \A i \in DOMAIN list : list[i].id \in Change => list[i].id = q \/ at[list[i].id] # "idle"
    BY <1>1, <2>3 DEF Proper, Given
  <2> HIDE DEF list
  <2>5. m("add", q, list) \in Mutation
    BY <1>1, <2>3 DEF Mutation, Id
  <2>6. AsksFor(m("add", q, list), q)
    BY <1>1, <2>3 DEF AsksFor
  <2> QED BY <2>1, <2>3, <2>4, <2>5, <2>6 DEF Requested
<1>4. CASE DeleteColumn(b, q)
  <2>1. PICK k \in DOMAIN cols : Mutate(q, b, "delete", cols[k].id, WithoutColumn(cols, cols[k].id))
    BY <1>4 DEF DeleteColumn, Range
  <2> DEFINE id == cols[k].id
             list == WithoutColumn(cols, id)
  <2>2. /\ at[q] = "idle"
        /\ change' = [change EXCEPT ![q] = m("delete", id, list)]
        /\ at' = [at EXCEPT ![q] = "sent"]
        /\ form' = form
        /\ UNCHANGED <<config, opening, reply, cache, told, contested, crowded, bounds>>
    BY <1>4, <2>1 DEF DeleteColumn, Mutate
  <2>3. Proper(list) /\ Named(list) = {n \in Named(cols) : n.id # id}
    BY <1>1, WithoutColumnIs
  <2> HIDE DEF list
  <2>4. m("delete", id, list) \in Mutation
    BY <1>1, <1>2, <2>3 DEF Mutation, Proper
  <2>5. AsksFor(m("delete", id, list), q)
    BY <1>1, <2>3 DEF AsksFor
  <2> QED BY <2>2, <2>3, <2>4, <2>5 DEF Requested, Proper, Given
<1>5. CASE RenameColumn(b, q)
  <2>1. PICK k \in DOMAIN cols : Mutate(q, b, "rename", cols[k].id, Renamed(cols, cols[k].id, q))
    BY <1>5 DEF RenameColumn, Range
  <2> DEFINE id == cols[k].id
             list == Renamed(cols, id, q)
             others == {n \in Named(cols) : n.id # id}
  <2>2. /\ at[q] = "idle"
        /\ change' = [change EXCEPT ![q] = m("rename", id, list)]
        /\ at' = [at EXCEPT ![q] = "sent"]
        /\ form' = form
        /\ UNCHANGED <<config, opening, reply, cache, told, contested, crowded, bounds>>
    BY <1>5, <2>1 DEF RenameColumn, Mutate
  <2>3. Proper(list) /\ Named(list) = others \cup {[id |-> id, name |-> {q}]}
    BY <1>1, RenamedIs
  <2>4. others # Named(cols)
    <3>1. NameOf(cols[k]).id = id
      BY DEF NameOf
    <3> QED BY <1>2, <3>1
  <2> HIDE DEF list
  <2>5. m("rename", id, list) \in Mutation
    BY <1>1, <1>2, <2>3 DEF Mutation, Proper
  <2>6. AsksFor(m("rename", id, list), q)
    BY <1>1, <2>3, <2>4 DEF AsksFor
  <2> QED BY <2>2, <2>3, <2>5, <2>6 DEF Requested, Proper, Given
<1> QED BY <1>3, <1>4, <1>5

\* The requests that are out are those that were, with what they ask for.
Unasked == \A q \in Change : at'[q] # "idle" => at[q] # "idle" /\ change'[q] = change[q]

\* No crowd leaves, and no request goes back.
Onwards == (crowded => crowded') /\ \A q \in Change : at[q] # "idle" => at'[q] # "idle"

\* Lists stay proper when they only move.
LEMMA ListsStay ==
    ASSUME ListsFit, Onwards, OneOf(config)', Unasked,
           \A b \in Browser :
               /\ cache'[b].data = cache[b].data \/ cache'[b].data = cache[b].answer
               /\ \/ cache'[b].answer = {} \/ cache'[b].answer = cache[b].answer
                  \/ cache'[b].answer = config'
    PROVE  ListsFit'
<1>1. \A cols : Proper(cols) => Proper(cols)'
  BY ProperStays DEF Onwards
<1>2. \A some : OneOf(some) => OneOf(some)'
  BY <1>1 DEF OneOf
<1>3. OneOf({})'
  BY DEF OneOf
<1>4. ASSUME NEW b \in Browser
      PROVE  OneOf(cache[b].data)' /\ OneOf(cache[b].answer)'
  <2>1. OneOf(cache[b].data) /\ OneOf(cache[b].answer)
    BY DEF ListsFit
  <2> QED BY <1>2, <1>3, <2>1 DEF OneOf
<1>5. ASSUME NEW q \in Change, at'[q] # "idle"
      PROVE  Proper(change[q].list)'
  <2>1. Proper(change[q].list) /\ change'[q] = change[q]
    BY <1>5 DEF ListsFit, Unasked
  <2> QED BY <1>1, <2>1 DEF Proper, Apart, Given
<1> QED BY <1>4, <1>5 DEF ListsFit

\* The row keeps its list.
LEMMA RowStays ==
    ASSUME ListsFit, Onwards, config' = config
    PROVE  OneOf(config)'
<1>1. \A cols : Proper(cols) => Proper(cols)'
  BY ProperStays DEF Onwards
<1> QED BY <1>1 DEF ListsFit, OneOf

LEMMA FormStays ==
    ASSUME FormFits, Onwards,
           \A b \in Browser : cache'[b].data = cache[b].data /\ form'[b] \subseteq form[b]
    PROVE  FormFits'
  BY DEF FormFits, Onwards

LEMMA AskingStays ==
    ASSUME Asking, Unasked
    PROVE  Asking'
  BY DEF Asking, Unasked

LEMMA ColumnsCoreStep == ColumnsCore /\ [ColumnsNext]_columnVars => ColumnsCore'
<1> SUFFICES ASSUME ColumnsCore, [ColumnsNext]_columnVars PROVE ColumnsCore'
  OBVIOUS
<1>0. /\ ColumnsTypeOK /\ ListsFit /\ FormFits /\ Asking
      /\ cache \in [Browser -> Cached(Seq(Column), Change)]
  BY DEF ColumnsCore, ColumnsTypeOK
\* a query changes, and neither a request nor the row
<1>1. ASSUME NEW b \in Browser, NEW d \in Cached(Seq(Column), Change),
             cache' = [cache EXCEPT ![b] = d],
             d.data = cache[b].data, d.answer \in {{}, cache[b].answer, config},
             UNCHANGED <<config, at, change, reply, form, told, contested, crowded>>,
             opening' \in [Browser -> {"no", "lookup", "create"}],
             fetches' \in 0..MaxFetches, faults' \in 0..MaxFaults
      PROVE  ColumnsCore'
  <2>1. Onwards /\ Unasked /\ OneOf(config)'
    BY <1>0, <1>1, RowStays DEF Onwards, Unasked
  <2>2. \A p \in Browser :
          /\ cache'[p].data = cache[p].data /\ form'[p] \subseteq form[p]
          /\ cache'[p].answer \in {{}, cache[p].answer, config'}
    BY <1>0, <1>1
  <2>3. ListsFit' /\ FormFits' /\ Asking'
    BY <1>0, <2>1, <2>2, ListsStay, FormStays, AskingStays
  <2>4. ColumnsTypeOK'
    BY <1>0, <1>1 DEF ColumnsTypeOK
  <2> QED BY <2>3, <2>4 DEF ColumnsCore
\* nothing but a request's place, what is told, or an open read
<1>2. ASSUME Unasked, Onwards, ColumnsTypeOK',
             UNCHANGED <<config, cache, crowded>>,
             \A b \in Browser : form'[b] \subseteq form[b]
      PROVE  ColumnsCore'
  <2>1. OneOf(config)'
    BY <1>0, <1>2, RowStays
  <2>2. ListsFit' /\ FormFits' /\ Asking'
    BY <1>0, <1>2, <2>1, ListsStay, FormStays, AskingStays
  <2> QED BY <1>2, <2>2 DEF ColumnsCore
<1>3. /\ UNCHANGED bounds => fetches' \in 0..MaxFetches /\ faults' \in 0..MaxFaults
      /\ Fault => fetches' \in 0..MaxFetches /\ faults' \in 0..MaxFaults
      /\ fetches < MaxFetches /\ fetches' = fetches + 1 /\ UNCHANGED faults =>
            fetches' \in 0..MaxFetches /\ faults' \in 0..MaxFaults
  BY <1>0 DEF ColumnsTypeOK, Fault, bounds
<1>4. ASSUME NEW b \in Browser, Refetch(b)
      PROVE  ColumnsCore'
  <2>1. Sent(cache[b]) \in Cached(Seq(Column), Change)
        /\ Sent(cache[b]).data = cache[b].data /\ Sent(cache[b]).answer = {}
    BY <1>0 DEF Sent, Idle, Cached
  <2>2. opening' \in [Browser -> {"no", "lookup", "create"}]
    BY <1>0, <1>4 DEF Refetch, ColumnsTypeOK
  <2> QED BY <1>1, <1>3, <1>4, <2>1, <2>2 DEF Refetch
<1>5. ASSUME NEW b \in Browser, Read(b)
      PROVE  ColumnsCore'
  <2>1. opening' \in [Browser -> {"no", "lookup", "create"}]
    BY <1>0, <1>5 DEF Read, ColumnsTypeOK
  <2>2. CASE \E cols \in config : cache' = [cache EXCEPT ![b] = Answered(@, cols)]
    <3>1. PICK cols \in config : cache' = [cache EXCEPT ![b] = Answered(@, cols)]
      BY <2>2
    <3>2. cols \in Seq(Column) /\ config = {cols}
      BY <1>0 DEF ColumnsTypeOK
    <3>3. LET d == Answered(cache[b], cols) IN
          d \in Cached(Seq(Column), Change) /\ d.data = cache[b].data /\ d.answer = config
      BY <1>0, <3>2 DEF Answered, Cached
    <3>4. cache' = [cache EXCEPT ![b] = Answered(cache[b], cols)]
      BY <3>1
    <3> QED BY <1>1, <1>3, <1>5, <2>1, <3>3, <3>4 DEF Read
  <2>3. CASE UNCHANGED cache
    <3>1. cache' = [cache EXCEPT ![b] = cache[b]]
      BY <1>0, <2>3
    <3> QED BY <1>0, <1>1, <1>3, <1>5, <2>1, <3>1 DEF Read
  <2> QED BY <1>5, <2>2, <2>3 DEF Read
<1>6. ASSUME NEW b \in Browser, Lookup(b)
      PROVE  ColumnsCore'
  <2>1. opening' \in [Browser -> {"no", "lookup", "create"}]
    BY <1>0, <1>6 DEF Lookup, ColumnsTypeOK
  <2>2. cache' = [cache EXCEPT ![b] = cache[b]]
    BY <1>0, <1>6 DEF Lookup
  <2> QED BY <1>0, <1>1, <1>3, <1>6, <2>1, <2>2 DEF Lookup
<1>7. ASSUME NEW b \in Browser, FetchFails(b)
      PROVE  ColumnsCore'
  <2>1. LET d == Failed(cache[b]) IN
        d \in Cached(Seq(Column), Change) /\ d.data = cache[b].data /\ d.answer = {}
    BY <1>0 DEF Failed, Idle, Cached
  <2>2. opening' \in [Browser -> {"no", "lookup", "create"}]
    BY <1>0, <1>7 DEF FetchFails, ColumnsTypeOK
  <2> QED BY <1>1, <1>3, <1>7, <2>1, <2>2 DEF FetchFails
<1>8. ASSUME NEW b \in Browser, Create(b)
      PROVE  ColumnsCore'
  <2>0. opening' \in [Browser -> {"no", "lookup", "create"}]
    BY <1>0, <1>8 DEF Create, ColumnsTypeOK
  <2>1. CASE config # {}
    <3>1. cache' = [cache EXCEPT ![b] = cache[b]] /\ UNCHANGED <<config, told>>
      BY <1>0, <1>8, <2>1 DEF Create
    <3> QED BY <1>0, <1>1, <1>3, <1>8, <2>0, <3>1 DEF Create
  <2>2. CASE config' = {DefaultColumns} /\ told' = Named(DefaultColumns)
    <3>1. Onwards /\ Unasked
      BY <1>8 DEF Create, Onwards, Unasked
    <3>2. DefaultColumns \in Seq(Column) /\ Proper(DefaultColumns)'
      BY <3>1, DefaultIsProper, ProperStays DEF Onwards, Proper
    <3>3. OneOf(config)'
      BY <2>2, <3>2 DEF OneOf
    <3>4. LET d == Answered(cache[b], DefaultColumns) IN
          /\ d \in Cached(Seq(Column), Change)
          /\ d.data = cache[b].data /\ d.answer = {DefaultColumns}
      BY <1>0, <3>2 DEF Answered, Cached
    <3>5. /\ cache' \in [Browser -> Cached(Seq(Column), Change)]
          /\ \A p \in Browser : /\ cache'[p].data = cache[p].data
                                /\ cache'[p].answer \in {cache[p].answer, config'}
      BY <1>0, <1>8, <2>2, <3>4 DEF Create
    <3>6. form' = form
      BY <1>8 DEF Create
    <3>7. ListsFit' /\ FormFits' /\ Asking'
      BY <1>0, <3>1, <3>3, <3>5, <3>6, ListsStay, FormStays, AskingStays
    <3>8. told' \subseteq [id : Id, name : SUBSET Change]
      <4>1. \A i \in DOMAIN DefaultColumns : DefaultColumns[i] \in Column
        BY <3>2
      <4>2. \A i \in DOMAIN DefaultColumns : NameOf(DefaultColumns[i]) \in [id : Id, name : SUBSET Change]
        BY <4>1 DEF NameOf, Column
      <4> QED BY <2>2, <4>2, NamedIs
    <3>9. config' \in SUBSET Seq(Column) /\ \A c, d \in config' : c = d
      BY <2>2, <3>2
    <3>10. ColumnsTypeOK'
      BY <1>0, <1>3, <1>8, <2>0, <3>5, <3>6, <3>8, <3>9 DEF ColumnsTypeOK, Create
    <3> QED BY <3>7, <3>10 DEF ColumnsCore
  <2> QED BY <1>8, <2>1, <2>2 DEF Create
<1>9. ASSUME NEW b \in Browser, Arrive(b)
      PROVE  ColumnsCore'
  <2> DEFINE d == Arrived(cache[b])
  <2>1. d \in Cached(Seq(Column), Change) /\ d.data = cache[b].answer /\ d.answer = {}
    BY <1>0 DEF Arrived, Idle, Cached
  <2>2. /\ crowded' = (crowded \/ \E cols \in cache[b].answer : form[b] \cap Used(cols) # {})
        /\ cache' = [cache EXCEPT ![b] = d]
        /\ UNCHANGED <<config, opening, at, change, reply, form, told, contested, bounds>>
    BY <1>9 DEF Arrive
  <2> HIDE DEF d
  <2>3. Onwards /\ Unasked /\ OneOf(config)'
    BY <1>0, <2>2, RowStays DEF Onwards, Unasked
  <2>4. ListsFit' /\ Asking'
    BY <1>0, <2>1, <2>2, <2>3, ListsStay, AskingStays
  <2>5. FormFits'
    <3> SUFFICES ASSUME ~crowded', NEW p \in Browser, NEW cols \in cache'[p].data
                 PROVE  form'[p] \cap Used(cols) = {}
      BY DEF FormFits
    <3>1. CASE p = b
      BY <1>0, <2>1, <2>2, <3>1
    <3>2. CASE p # b
      BY <1>0, <2>2, <3>2 DEF FormFits
    <3> QED BY <3>1, <3>2
  <2>6. crowded' \in BOOLEAN
    BY <1>0, <2>2 DEF ColumnsTypeOK
  <2>7. ColumnsTypeOK'
    BY <1>0, <1>3, <2>1, <2>2, <2>6 DEF ColumnsTypeOK
  <2> QED BY <2>4, <2>5, <2>7 DEF ColumnsCore
<1>10. ASSUME NEW b \in Browser, NEW s \in ColumnStatus, ToggleNewColStatus(b, s)
       PROVE  ColumnsCore'
  <2>1. /\ s \notin Used(Shown(b))
        /\ form' = [form EXCEPT ![b] = IF s \in @ THEN @ \ {s} ELSE @ \cup {s}]
        /\ UNCHANGED <<config, opening, at, change, reply, cache, told, contested, crowded, bounds>>
    BY <1>10 DEF ToggleNewColStatus, Available
  <2>2. form \in [Browser -> SUBSET ColumnStatus] /\ form' \in [Browser -> SUBSET ColumnStatus]
    BY <1>0, <2>1 DEF ColumnsTypeOK
  <2>3. ColumnsTypeOK'
    BY <1>0, <1>3, <2>1, <2>2 DEF ColumnsTypeOK
  <2>4. Onwards /\ Unasked /\ OneOf(config)'
    BY <1>0, <2>1, RowStays DEF Onwards, Unasked
  <2>5. ListsFit' /\ Asking'
    BY <1>0, <2>1, <2>4, ListsStay, AskingStays
  <2>6. FormFits'
    <3> SUFFICES ASSUME ~crowded, NEW p \in Browser, NEW cols \in cache[p].data
                 PROVE  form'[p] \cap Used(cols) = {}
      BY <2>1 DEF FormFits
    <3>1. form[p] \cap Used(cols) = {}
      BY <1>0 DEF FormFits
    <3>2. p = b => cols = Shown(b)
      BY <1>0, ShownIs DEF ListsFit, OneOf, Shown
    <3>3. form'[p] = IF p = b THEN (IF s \in form[p] THEN form[p] \ {s} ELSE form[p] \cup {s})
                     ELSE form[p]
      BY <2>1, <2>2
    <3> QED BY <2>1, <3>1, <3>2, <3>3
  <2> QED BY <2>3, <2>5, <2>6 DEF ColumnsCore
<1>11. ASSUME NEW b \in Browser, NEW q \in Change, NEW m \in Mutation, Requested(q, b, m)
       PROVE  ColumnsCore'
  <2>1. /\ at \in [Change -> {"idle", "sent", "replied", "done"}]
        /\ change \in [Change -> Mutation \cup {NoMutation}]
        /\ form \in [Browser -> SUBSET ColumnStatus]
    BY <1>0 DEF ColumnsTypeOK
  <2>2. /\ at'[q] = "sent" /\ change'[q] = m
        /\ \A p \in Change \ {q} : at'[p] = at[p] /\ change'[p] = change[p]
        /\ \A p \in Browser : form'[p] \subseteq form[p]
        /\ form' \in [Browser -> SUBSET ColumnStatus]
        /\ at' \in [Change -> {"idle", "sent", "replied", "done"}]
        /\ change' \in [Change -> Mutation \cup {NoMutation}]
    BY <1>11, <2>1 DEF Requested
  <2>3. ColumnsTypeOK'
    BY <1>0, <1>3, <1>11, <2>2 DEF ColumnsTypeOK, Requested
  <2>4. Onwards
    BY <1>11, <2>2 DEF Onwards, Requested
  <2>5. \A cols : Proper(cols) => Proper(cols)'
    BY <2>4, ProperStays DEF Onwards
  <2>6. Proper(m.list)'
    BY <1>11, <2>2 DEF Requested, Proper, Apart, Given
  <2>7. OneOf(config)'
    BY <1>0, <1>11, <2>4, RowStays DEF Requested
  <2>8. ListsFit'
    <3>1. ASSUME NEW p \in Change, at'[p] # "idle"
          PROVE  Proper(change[p].list)'
      <4>1. CASE p = q
        BY <2>2, <2>6, <4>1 DEF Proper, Apart, Given
      <4>2. CASE p # q
        <5>1. Proper(change[p].list) /\ change'[p] = change[p]
          BY <1>0, <2>2, <3>1, <4>2 DEF ListsFit
        <5> QED BY <2>5, <5>1 DEF Proper, Apart, Given
      <4> QED BY <4>1, <4>2
    <3>2. ASSUME NEW p \in Browser
          PROVE  OneOf(cache[p].data)' /\ OneOf(cache[p].answer)'
      <4>1. OneOf(cache[p].data) /\ OneOf(cache[p].answer) /\ cache' = cache
        BY <1>0, <1>11 DEF ListsFit, Requested
      <4>2. \A some : OneOf(some) => OneOf(some)'
        BY <2>5 DEF OneOf
      <4> QED BY <4>1, <4>2 DEF OneOf
    <3> QED BY <2>7, <3>1, <3>2 DEF ListsFit
  <2>9. FormFits'
    BY <1>0, <1>11, <2>2, <2>4, FormStays DEF Requested
  <2>10. Asking'
    BY <1>0, <1>11, <2>2 DEF Asking, Requested
  <2> QED BY <2>3, <2>8, <2>9, <2>10 DEF ColumnsCore
<1>12. ASSUME NEW q \in Change, SaveConfig(q)
       PROVE  ColumnsCore'
  <2>1. /\ at[q] = "sent" /\ at' = [at EXCEPT ![q] = "replied"]
        /\ config' = {change[q].list}
        /\ cache' = [b \in Browser |-> Missing(cache[b], q)]
        /\ told' = ToldColumns(q)
        /\ UNCHANGED <<opening, change, form, crowded>>
    BY <1>12 DEF SaveConfig
  <2>2. /\ at \in [Change -> {"idle", "sent", "replied", "done"}]
        /\ at' \in [Change -> {"idle", "sent", "replied", "done"}]
    BY <1>0, <2>1 DEF ColumnsTypeOK
  <2>3. Onwards /\ Unasked
    BY <2>1, <2>2 DEF Onwards, Unasked
  <2>4. change[q] \in Mutation /\ Proper(change[q].list) /\ change[q].list \in Seq(Column)
    BY <1>0, <2>1 DEF Asking, ListsFit, Proper
  <2>5. Proper(change[q].list)'
    <3>1. \A cols : Proper(cols) => Proper(cols)'
      BY <2>3, ProperStays DEF Onwards
    <3> QED BY <2>1, <2>4, <3>1 DEF Proper, Apart, Given
  <2>6. OneOf(config)'
    BY <2>1, <2>5 DEF OneOf
  <2>7. /\ cache' \in [Browser -> Cached(Seq(Column), Change)]
        /\ \A b \in Browser : cache'[b].data = cache[b].data /\ cache'[b].answer = cache[b].answer
    <3>1. \A b \in Browser :
            LET d == Missing(cache[b], q) IN
            /\ d \in Cached(Seq(Column), Change)
            /\ d.data = cache[b].data /\ d.answer = cache[b].answer
      BY <1>0 DEF Missing, Cached
    <3> QED BY <2>1, <3>1
  <2>8. ListsFit' /\ FormFits' /\ Asking'
    BY <1>0, <2>1, <2>3, <2>6, <2>7, ListsStay, FormStays, AskingStays
  <2>9. told' \subseteq [id : Id, name : SUBSET Change]
    <3>1. change[q].id \in Id /\ change[q].kind \in {"add", "delete", "rename"}
      BY <2>4 DEF Mutation
    <3>2. told \subseteq [id : Id, name : SUBSET Change]
      BY <1>0 DEF ColumnsTypeOK
    <3> DEFINE others == {n \in told : n.id # change[q].id}
    <3>3. CASE change[q].kind = "add"
      <4>1. ToldColumns(q) = told \cup {[id |-> q, name |-> {q}]}
        BY <3>3 DEF ToldColumns
      <4> QED BY <2>1, <3>2, <4>1 DEF Id
    <3>4. CASE change[q].kind = "delete"
      <4>1. ToldColumns(q) = others
        BY <3>4 DEF ToldColumns
      <4> QED BY <2>1, <3>2, <4>1
    <3>5. CASE change[q].kind = "rename"
      <4>1. ToldColumns(q) = IF others = told THEN told
                             ELSE others \cup {[id |-> change[q].id, name |-> {q}]}
        BY <3>5 DEF ToldColumns
      <4> QED BY <2>1, <3>1, <3>2, <4>1
    <3> QED BY <3>1, <3>3, <3>4, <3>5
  <2>10. contested' \subseteq Id
    <3> DEFINE was == NamedIn(config)
               seen == NamedIn(change[q].shown)
    <3>1. contested' = contested \cup {n.id : n \in (was \ seen) \cup (seen \ was)}
      BY <1>12 DEF SaveConfig
    <3>2. ASSUME NEW some \in SUBSET Seq(Column)
          PROVE  \A n \in NamedIn(some) : n.id \in Id
      <4> SUFFICES ASSUME NEW cols \in some, NEW n \in Named(cols)
                   PROVE  n.id \in Id
        BY DEF NamedIn
      <4>1. PICK i \in DOMAIN cols : n = NameOf(cols[i])
        BY NamedIs
      <4>2. cols[i] \in Column
        OBVIOUS
      <4> QED BY <4>1, <4>2 DEF NameOf, Column
    <3>3. config \in SUBSET Seq(Column) /\ change[q].shown \in SUBSET Seq(Column)
      BY <1>0, <2>4 DEF ColumnsTypeOK, Mutation
    <3>4. (\A n \in was : n.id \in Id) /\ (\A n \in seen : n.id \in Id)
      BY <3>2, <3>3
    <3> HIDE DEF was, seen
    <3> QED BY <1>0, <3>1, <3>4 DEF ColumnsTypeOK
  <2>11. /\ reply' \in [Change -> {"none", "ok", "error"}]
         /\ fetches' \in 0..MaxFetches /\ faults' \in 0..MaxFaults
    BY <1>0, <1>3, <1>12 DEF SaveConfig, ColumnsTypeOK
  <2>12. config' \in SUBSET Seq(Column) /\ \A c, d \in config' : c = d
    BY <2>1, <2>4
  <2>13. ColumnsTypeOK'
    BY <1>0, <2>1, <2>2, <2>7, <2>9, <2>10, <2>11, <2>12 DEF ColumnsTypeOK
  <2> QED BY <2>8, <2>13 DEF ColumnsCore
<1>13. ASSUME NEW q \in Change, Refuse(q)
       PROVE  ColumnsCore'
  <2>1. ColumnsTypeOK'
    BY <1>0, <1>3, <1>13 DEF Refuse, ColumnsTypeOK
  <2>2. Unasked /\ Onwards
    BY <1>0, <1>13 DEF Refuse, Unasked, Onwards, ColumnsTypeOK
  <2> QED BY <1>2, <1>13, <2>1, <2>2 DEF Refuse
<1>14. ASSUME NEW q \in Change, Settle(q)
       PROVE  ColumnsCore'
  <2>1. /\ at[q] = "replied" /\ at' = [at EXCEPT ![q] = "done"]
        /\ cache' = IF reply[q] # "ok" THEN cache
                    ELSE [cache EXCEPT ![change[q].by] = Invalidated(@, q)]
        /\ UNCHANGED <<config, opening, change, reply, form, told, contested, crowded, bounds>>
    BY <1>14 DEF Settle, OnSuccess
  <2>2. /\ at \in [Change -> {"idle", "sent", "replied", "done"}]
        /\ at' \in [Change -> {"idle", "sent", "replied", "done"}]
    BY <1>0, <2>1 DEF ColumnsTypeOK
  <2>3. Onwards /\ Unasked /\ OneOf(config)'
    <3>1. Onwards /\ Unasked
      BY <2>1, <2>2 DEF Onwards, Unasked
    <3> QED BY <1>0, <2>1, <3>1, RowStays
  <2>4. /\ cache' \in [Browser -> Cached(Seq(Column), Change)]
        /\ \A b \in Browser : /\ cache'[b].data = cache[b].data
                              /\ cache'[b].answer \in {{}, cache[b].answer}
    <3>1. \A b \in Browser :
            LET d == Invalidated(cache[b], q) IN
            /\ d \in Cached(Seq(Column), Change)
            /\ d.data = cache[b].data /\ d.answer \in {{}, cache[b].answer}
      BY <1>0 DEF Invalidated, Sent, Idle, Cached
    <3> QED BY <1>0, <2>1, <3>1
  <2>5. ListsFit' /\ FormFits' /\ Asking'
    BY <1>0, <2>1, <2>3, <2>4, ListsStay, FormStays, AskingStays
  <2>6. ColumnsTypeOK'
    BY <1>0, <1>3, <2>1, <2>2, <2>4 DEF ColumnsTypeOK
  <2> QED BY <2>5, <2>6 DEF ColumnsCore
<1>15. CASE UNCHANGED columnVars
  <2>1. ColumnsTypeOK' /\ Unasked /\ Onwards
    BY <1>0, <1>15 DEF ColumnsTypeOK, columnVars, bounds, Unasked, Onwards
  <2> QED BY <1>2, <1>15, <2>1 DEF columnVars
<1> QED BY <1>4, <1>5, <1>6, <1>7, <1>8, <1>9, <1>10, <1>11, <1>12, <1>13, <1>14, <1>15,
           RequestedIs DEF ColumnsNext

THEOREM ColumnsTypeCorrect == ColumnsSpec => []ColumnsTypeOK
<1>1. ColumnsCore => ColumnsTypeOK
  BY DEF ColumnsCore
<1> QED BY <1>1, ColumnsCoreInit, ColumnsCoreStep, PTL DEF ColumnsSpec

\* A task is shown in one column.
THEOREM TasksAreShownOnce == ColumnsSpec => []OneColumnPerStatus
<1>1. ColumnsCore => OneColumnPerStatus
  <2> SUFFICES ASSUME ColumnsCore, NEW cols \in config \cup UNION {cache[b].data : b \in Browser}
               PROVE  Apart(cols)
    BY DEF OneColumnPerStatus, Apart
  <2> QED BY DEF ColumnsCore, ListsFit, OneOf, Proper
<1> QED BY <1>1, ColumnsCoreInit, ColumnsCoreStep, PTL DEF ColumnsSpec

-----------------------------------------------------------------------------
(* The table's columns are those that are asked for.                       *)

\* the columns that are in one of two sets only
Odd(some, other) == (some \ other) \cup (other \ some)

\* what a list was made from is what is asked for, but for what is contested
LEMMA SaveKeeps ==
    ASSUME ColumnsCore, ColumnsAreKept, NEW q \in Change, SaveConfig(q)
    PROVE  ColumnsAreKept'
<1> DEFINE m == change[q]
           list == Named(m.list)
           was == NamedIn(config)
           seen == NamedIn(m.shown)
           new == [id |-> m.id, name |-> {q}]
           others == {n \in told : n.id # m.id}
           rest == {n \in seen : n.id # m.id}
<1>1. /\ NamedIn(config') = list /\ told' = ToldColumns(q)
      /\ contested' = contested \cup {n.id : n \in Odd(was, seen)}
  BY NamedInIs DEF SaveConfig, Odd
<1>2. AsksFor(m, q)
  BY DEF SaveConfig, ColumnsCore, Asking
<1>3. \A n \in Odd(was, told) : n.id \in contested
  BY DEF ColumnsAreKept, Odd
<1>4. \A n \in Odd(seen, told) : n.id \in contested'
  <2> HIDE DEF was, seen
  <2> QED BY <1>1, <1>3 DEF Odd
<1>5. \A n \in Odd(list, told') : n.id \in contested'
  <2>1. CASE m.kind = "add"
    <3>1. told' = told \cup {new} /\ list = seen \cup {new}
      BY <1>1, <1>2, <2>1 DEF ToldColumns, AsksFor
    <3> HIDE DEF list, seen, new
    <3> QED BY <1>4, <3>1 DEF Odd
  <2>2. CASE m.kind = "delete"
    <3>1. told' = others /\ list = rest
      BY <1>1, <1>2, <2>2 DEF ToldColumns, AsksFor
    <3> HIDE DEF list, seen, m
    <3> QED BY <1>4, <3>1 DEF Odd
  <2>3. CASE m.kind = "rename"
    <3>1. /\ told' = IF others = told THEN told ELSE others \cup {new}
          /\ list = rest \cup {new} /\ rest # seen
      BY <1>1, <1>2, <2>3 DEF ToldColumns, AsksFor
    <3>2. new.id = m.id
      OBVIOUS
    <3> HIDE DEF list, seen, new, m
    <3>3. CASE others = told
      <4>1. PICK k \in seen : k.id = m.id
        BY <3>1
      <4>2. m.id \in contested'
        BY <1>4, <3>3, <4>1 DEF Odd
      <4> QED BY <1>4, <3>1, <3>2, <3>3, <4>2 DEF Odd
    <3>4. CASE others # told
      BY <1>4, <3>1, <3>4 DEF Odd
    <3> QED BY <3>3, <3>4
  <2> QED BY <1>2, <2>1, <2>2, <2>3 DEF AsksFor
<1> HIDE DEF list
<1> QED BY <1>1, <1>5 DEF ColumnsAreKept, Odd

\* No column is lost, or comes back, but through a list made from old columns.
THEOREM ColumnsSurvive == ColumnsSpec => []ColumnsAreKept
<1>1. ColumnsInit => ColumnsAreKept
  BY NamedInIs DEF ColumnsInit, ColumnsAreKept
<1>2. ColumnsCore /\ ColumnsAreKept /\ [ColumnsNext]_columnVars => ColumnsAreKept'
  <2> SUFFICES ASSUME ColumnsCore, ColumnsAreKept, [ColumnsNext]_columnVars
               PROVE  ColumnsAreKept'
    OBVIOUS
  <2>1. CASE UNCHANGED <<config, told, contested>>
    BY <2>1 DEF ColumnsAreKept, NamedIn
  <2>2. ASSUME NEW b \in Browser, Create(b)
        PROVE  ColumnsAreKept'
    <3>1. CASE config' = {DefaultColumns} /\ told' = Named(DefaultColumns)
      BY <3>1, NamedInIs DEF ColumnsAreKept
    <3> QED BY <2>1, <2>2, <3>1 DEF Create
  <2>3. ASSUME NEW b \in Browser,
               \/ Refetch(b) \/ Read(b) \/ Lookup(b) \/ Arrive(b) \/ FetchFails(b)
               \/ \E s \in ColumnStatus : ToggleNewColStatus(b, s)
        PROVE  ColumnsAreKept'
    BY <2>1, <2>3 DEF Refetch, Read, Lookup, Arrive, FetchFails, ToggleNewColStatus
  <2>4. ASSUME NEW b \in Browser, NEW q \in Change,
               AddColumn(b, q) \/ DeleteColumn(b, q) \/ RenameColumn(b, q)
        PROVE  ColumnsAreKept'
    BY <2>1, <2>4 DEF AddColumn, DeleteColumn, RenameColumn, Mutate
  <2>5. ASSUME NEW q \in Change, Refuse(q) \/ Settle(q)
        PROVE  ColumnsAreKept'
    BY <2>1, <2>5 DEF Refuse, Settle
  <2>6. CASE UNCHANGED columnVars
    BY <2>1, <2>6 DEF columnVars
  <2> QED BY <2>2, <2>3, <2>4, <2>5, <2>6, SaveKeeps DEF ColumnsNext
<1> QED BY <1>1, <1>2, ColumnsCoreInit, ColumnsCoreStep, PTL DEF ColumnsSpec

-----------------------------------------------------------------------------
(* A board at rest is behind for a reason.                                 *)

\* a board that shows what it has fetched
Settled(b) == cache[b].data # {} /\ cache[b].fetch = "idle" /\ ~cache[b].failed

\* why b need not know of r
Excused(b, r) ==
    change[r].by # b \/ at[r] # "done" \/ reply[r] = "error" \/ r \in cache[b].deaf

\* What a board shows, and what an answer brings, is the row but for what was
\* saved since; of its own requests a browser misses those that it has a
\* reason to, and those that are not over.
FreshAt(b) ==
    LET c == cache[b] IN
    /\ Settled(b) =>
          /\ c.missing = {} => c.data = config
          /\ \A r \in c.missing : Excused(b, r)
    /\ c.fetch = "answered" =>
          /\ c.answer # {}
          /\ c.late = {} => c.answer = config
          /\ \A r \in c.late : Excused(b, r)
    /\ c.fetch # "answered" => c.late = {} /\ c.answer = {}
    /\ config = {} => c.data = {} /\ c.answer = {}
    /\ \A r \in c.missing \cup c.late : r \in Change /\ at[r] \in {"replied", "done"}

Fresh == \A b \in Browser : FreshAt(b)

\* A step that does not touch the query of b and saves nothing, and settles only
\* what is of another browser or was answered with an error.  The row may be made
\* as long as b has not read any.
Still(b) ==
    /\ cache'[b] = cache[b]
    /\ config' = config \/ (cache[b].data = {} /\ cache[b].answer = {} /\ config' # {})
    /\ \A r \in Change : at[r] \in {"replied", "done"} =>
           /\ change'[r] = change[r] /\ reply'[r] = reply[r]
           /\ \/ at'[r] = at[r]
              \/ at'[r] = "done" /\ (change[r].by # b \/ reply[r] = "error")

\* who is replied to is told an outcome
Answers == \A q \in Change : at[q] \in {"replied", "done"} => reply[q] # "none"

LEMMA AnswersStep == ColumnsCore /\ Answers /\ [ColumnsNext]_columnVars => Answers'
<1> SUFFICES ASSUME ColumnsCore, Answers, [ColumnsNext]_columnVars PROVE Answers'
  OBVIOUS
<1>0. /\ at \in [Change -> {"idle", "sent", "replied", "done"}]
      /\ reply \in [Change -> {"none", "ok", "error"}]
  BY DEF ColumnsCore, ColumnsTypeOK
<1>1. CASE UNCHANGED <<at, reply>>
  BY <1>1 DEF Answers
<1>2. ASSUME NEW b \in Browser,
             \/ Refetch(b) \/ Read(b) \/ Lookup(b) \/ Create(b) \/ Arrive(b) \/ FetchFails(b)
             \/ \E s \in ColumnStatus : ToggleNewColStatus(b, s)
      PROVE  Answers'
  BY <1>1, <1>2 DEF Refetch, Read, Lookup, Create, Arrive, FetchFails, ToggleNewColStatus
<1>3. ASSUME NEW b \in Browser, NEW q \in Change,
             AddColumn(b, q) \/ DeleteColumn(b, q) \/ RenameColumn(b, q)
      PROVE  Answers'
  BY <1>0, <1>3 DEF AddColumn, DeleteColumn, RenameColumn, Mutate, Answers
<1>4. ASSUME NEW q \in Change, SaveConfig(q) \/ Refuse(q) \/ Settle(q)
      PROVE  Answers'
  BY <1>0, <1>4 DEF SaveConfig, Refuse, Settle, Answers
<1>5. CASE UNCHANGED columnVars
  BY <1>1, <1>5 DEF columnVars
<1> QED BY <1>2, <1>3, <1>4, <1>5 DEF ColumnsNext

LEMMA FreshStep ==
    ColumnsCore /\ Answers /\ Fresh /\ [ColumnsNext]_columnVars => Fresh'
<1> SUFFICES ASSUME ColumnsCore, Answers, Fresh, [ColumnsNext]_columnVars, NEW b \in Browser
             PROVE  FreshAt(b)'
  BY DEF Fresh
<1> DEFINE c == cache[b]
<1>0. /\ FreshAt(b)
      /\ cache \in [Browser -> Cached(Seq(Column), Change)] /\ c \in Cached(Seq(Column), Change)
      /\ at \in [Change -> {"idle", "sent", "replied", "done"}]
      /\ \A r \in c.missing \cup c.late : r \in Change /\ at[r] \in {"replied", "done"}
  BY DEF Fresh, FreshAt, ColumnsCore, ColumnsTypeOK
<1>1. ASSUME Still(b) PROVE FreshAt(b)'
  <2>1. \A r \in c.missing \cup c.late :
          /\ r \in Change /\ at'[r] \in {"replied", "done"}
          /\ Excused(b, r) => Excused(b, r)'
    BY <1>0, <1>1 DEF Excused, Still
  <2> QED BY <1>0, <1>1, <2>1 DEF FreshAt, Settled, Still
<1>2. ASSUME NEW b0 \in Browser,
             \/ \E s \in ColumnStatus : ToggleNewColStatus(b0, s)
             \/ Lookup(b0)
      PROVE  FreshAt(b)'
  BY <1>1, <1>2 DEF ToggleNewColStatus, Lookup, Still
<1>3. ASSUME NEW b0 \in Browser, NEW q \in Change,
             AddColumn(b0, q) \/ DeleteColumn(b0, q) \/ RenameColumn(b0, q)
      PROVE  FreshAt(b)'
  <2>1. PICK m \in Mutation : Requested(q, b0, m)
    BY <1>3, RequestedIs
  <2>2. Still(b)
    BY <1>0, <2>1 DEF Requested, Still, ColumnsCore, ColumnsTypeOK
  <2> QED BY <1>1, <2>2
<1>4. ASSUME NEW b0 \in Browser, Refetch(b0)
      PROVE  FreshAt(b)'
  <2>1. CASE b0 # b
    BY <1>0, <1>1, <1>4, <2>1 DEF Refetch, Still
  <2>2. CASE b0 = b
    <3>1. LET d == Sent(c) IN d.fetch = "sent" /\ d.late = {} /\ d.answer = {} /\ d.data = c.data
                              /\ d.missing = c.missing
      BY <1>0 DEF Sent, Idle, Cached
    <3>2. cache'[b] = Sent(c) /\ UNCHANGED <<config, at>>
      BY <1>0, <1>4, <2>2 DEF Refetch
    <3> QED BY <1>0, <3>1, <3>2 DEF FreshAt, Settled
  <2> QED BY <2>1, <2>2
<1>5. ASSUME NEW b0 \in Browser, FetchFails(b0)
      PROVE  FreshAt(b)'
  <2>1. CASE b0 # b
    BY <1>0, <1>1, <1>5, <2>1 DEF FetchFails, Still
  <2>2. CASE b0 = b
    <3>1. LET d == Failed(c) IN d.failed /\ d.fetch = "idle" /\ d.late = {} /\ d.answer = {}
                                /\ d.data = c.data /\ d.missing = c.missing
      BY <1>0 DEF Failed, Idle, Cached
    <3>2. cache'[b] = Failed(c) /\ UNCHANGED <<config, at>>
      BY <1>0, <1>5, <2>2 DEF FetchFails
    <3> QED BY <1>0, <3>1, <3>2 DEF FreshAt, Settled
  <2> QED BY <2>1, <2>2
<1>6. ASSUME NEW b0 \in Browser, Arrive(b0)
      PROVE  FreshAt(b)'
  <2>1. CASE b0 # b
    BY <1>0, <1>1, <1>6, <2>1 DEF Arrive, Still
  <2>2. CASE b0 = b
    <3>1. LET d == Arrived(c) IN
          /\ d.data = c.answer /\ d.missing = c.late /\ d.fetch = "idle"
          /\ d.late = {} /\ d.answer = {} /\ d.deaf = c.deaf
      BY <1>0 DEF Arrived, Idle, Cached
    <3>2. cache'[b] = Arrived(c) /\ c.fetch = "answered" /\ UNCHANGED <<config, at, change, reply>>
      BY <1>0, <1>6, <2>2 DEF Arrive
    <3>3. \A r \in c.late : Excused(b, r)'
      BY <1>0, <3>1, <3>2 DEF FreshAt, Excused
    <3> QED BY <1>0, <3>1, <3>2, <3>3 DEF FreshAt
  <2> QED BY <2>1, <2>2
\* the row, new or not, is in the answer
<1>7. ASSUME NEW cols, c.fetch = "sent", cache'[b] = Answered(c, cols), config' = {cols},
             config' = config \/ config = {}, UNCHANGED <<at, change, reply>>
      PROVE  FreshAt(b)'
  <2>1. LET d == Answered(c, cols) IN
        /\ d.fetch = "answered" /\ d.missing = c.missing /\ d.late = c.late /\ c.late = {}
        /\ d.answer = {cols} /\ d.data = c.data
    BY <1>0, <1>7 DEF Answered, Cached, FreshAt
  <2> QED BY <1>0, <1>7, <2>1 DEF FreshAt, Settled
<1>8. ASSUME NEW b0 \in Browser, Read(b0)
      PROVE  FreshAt(b)'
  <2>1. CASE b0 # b \/ UNCHANGED cache
    <3>1. cache'[b] = c
      BY <1>0, <1>8, <2>1 DEF Read
    <3> QED BY <1>0, <1>1, <1>8, <3>1 DEF Read, Still
  <2>2. CASE b0 = b /\ \E cols \in config : cache' = [cache EXCEPT ![b] = Answered(@, cols)]
    <3>1. PICK cols \in config : cache' = [cache EXCEPT ![b] = Answered(@, cols)]
      BY <2>2
    <3>2. cache'[b] = Answered(c, cols) /\ c.fetch = "sent" /\ UNCHANGED <<config, at, change, reply>>
      BY <1>0, <1>8, <2>2, <3>1 DEF Read
    <3>3. config = {cols}
      BY DEF ColumnsCore, ColumnsTypeOK
    <3> QED BY <1>7, <3>2, <3>3
  <2> QED BY <1>8, <2>1, <2>2 DEF Read
<1>9. ASSUME NEW b0 \in Browser, Create(b0)
      PROVE  FreshAt(b)'
  <2>0. UNCHANGED <<at, change, reply>>
    BY <1>9 DEF Create
  <2>1. CASE UNCHANGED <<config, cache>>
    BY <1>1, <2>0, <2>1 DEF Still
  <2>2. CASE /\ config = {} /\ config' = {DefaultColumns}
             /\ cache' = IF cache[b0].fetch = "sent"
                         THEN [cache EXCEPT ![b0] = Answered(@, DefaultColumns)] ELSE cache
    <3>1. CASE b0 = b /\ c.fetch = "sent"
      <4>1. cache'[b] = Answered(c, DefaultColumns)
        BY <1>0, <2>2, <3>1
      <4> QED BY <1>7, <2>0, <2>2, <3>1, <4>1
    <3>2. CASE ~(b0 = b /\ c.fetch = "sent")
      <4>1. cache'[b] = c
        BY <1>0, <2>2, <3>2
      <4>2. c.data = {} /\ c.answer = {}
        BY <1>0, <2>2 DEF FreshAt
      <4> QED BY <1>1, <2>0, <2>2, <4>1, <4>2 DEF Still
    <3> QED BY <3>1, <3>2
  <2> QED BY <1>9, <2>1, <2>2 DEF Create
<1>10. ASSUME NEW q \in Change, SaveConfig(q)
       PROVE  FreshAt(b)'
  <2> DEFINE d == Missing(c, q)
  <2>1. /\ at[q] = "sent" /\ at' = [at EXCEPT ![q] = "replied"] /\ change' = change
        /\ \A r \in Change \ {q} : reply'[r] = reply[r]
        /\ cache'[b] = d /\ config' # {}
    BY <1>10 DEF SaveConfig, ColumnsCore, ColumnsTypeOK
  <2>2. /\ d.data = c.data /\ d.fetch = c.fetch /\ d.failed = c.failed
        /\ d.answer = c.answer /\ d.deaf = c.deaf
        /\ c.data # {} => d.missing = c.missing \cup {q}
        /\ d.missing \subseteq c.missing \cup {q}
        /\ d.late = IF c.fetch = "answered" THEN c.late \cup {q} ELSE c.late
    BY <1>0 DEF Missing, Cached
  <2>3. \A r \in c.missing \cup c.late \cup {q} :
           r \in Change /\ at'[r] \in {"replied", "done"}
    BY <1>0, <2>1
  <2>4. \A r \in c.missing \cup c.late : Excused(b, r) => Excused(b, r)'
    BY <1>0, <2>1, <2>2 DEF Excused
  <2>5. Excused(b, q)'
    BY <1>0, <2>1 DEF Excused
  <2> HIDE DEF d
  <2>6. Settled(b)' => Settled(b) /\ c.data # {}
    BY <2>1, <2>2 DEF Settled
  <2> QED BY <1>0, <2>1, <2>2, <2>3, <2>4, <2>5, <2>6 DEF FreshAt
<1>11. ASSUME NEW q \in Change, Refuse(q)
       PROVE  FreshAt(b)'
  <2>1. Still(b)
    BY <1>0, <1>11 DEF Refuse, Still, ColumnsCore, ColumnsTypeOK
  <2> QED BY <1>1, <2>1
<1>12. ASSUME NEW q \in Change, Settle(q)
       PROVE  FreshAt(b)'
  <2>1. /\ at[q] = "replied" /\ at' = [at EXCEPT ![q] = "done"]
        /\ UNCHANGED <<config, change, reply>>
        /\ reply[q] \in {"none", "ok", "error"}
    BY <1>12 DEF Settle, ColumnsCore, ColumnsTypeOK
  <2>2. cache'[b] = IF reply[q] = "ok" /\ b = change[q].by THEN Invalidated(c, q) ELSE c
    BY <1>0, <1>12 DEF Settle, OnSuccess
  <2>3. CASE b # change[q].by \/ reply[q] = "error"
    <3>1. Still(b)
      BY <1>0, <2>1, <2>2, <2>3 DEF Still
    <3> QED BY <1>1, <3>1
  <2>4. CASE reply[q] = "ok" /\ b = change[q].by
    <3>2. \A r \in c.missing \cup c.late : r \in Change /\ at'[r] \in {"replied", "done"}
      BY <1>0, <2>1
    <3>3. CASE cache'[b] = Sent(c)
      <4>1. LET d == Sent(c) IN d.fetch = "sent" /\ d.late = {} /\ d.answer = {}
                                /\ d.missing = c.missing /\ d.data = c.data
        BY <1>0 DEF Sent, Idle, Cached
      <4> QED BY <1>0, <2>1, <3>2, <3>3, <4>1 DEF FreshAt, Settled
    <3>4. CASE c.data = {} /\ cache'[b] = [c EXCEPT !.deaf = @ \cup {q}]
      <4> DEFINE d == [c EXCEPT !.deaf = c.deaf \cup {q}]
      <4>1. /\ d.data = {} /\ d.fetch = c.fetch /\ d.late = c.late /\ d.answer = c.answer
            /\ d.missing = c.missing /\ d.deaf = c.deaf \cup {q} /\ cache'[b] = d
        BY <1>0, <3>4 DEF Cached
      <4> HIDE DEF d
      <4>2. \A r \in c.late : Excused(b, r) => Excused(b, r)'
        BY <1>0, <2>1, <4>1 DEF Excused
      <4> QED BY <1>0, <2>1, <3>2, <4>1, <4>2 DEF FreshAt, Settled
    <3> QED BY <2>2, <2>4, <3>3, <3>4 DEF Invalidated
  <2>5. reply[q] # "none"
    BY <2>1 DEF Answers
  <2> QED BY <2>1, <2>3, <2>4, <2>5
<1>13. CASE UNCHANGED columnVars
  <2>1. Still(b)
    BY <1>13 DEF columnVars, Still
  <2> QED BY <1>1, <2>1
<1> QED BY <1>2, <1>3, <1>4, <1>5, <1>6, <1>8, <1>9, <1>10, <1>11, <1>12, <1>13 DEF ColumnsNext

\* When its own requests and its fetch are over, a board shows the row, but for
\* what it could not know of.
THEOREM BoardsCatchUp == ColumnsSpec => []ColumnsCatchUp
<1>1. ColumnsInit => Answers /\ Fresh
  <2>1. LET d == Sent(NoData) IN
        d.data = {} /\ d.missing = {} /\ d.late = {} /\ d.answer = {} /\ d.fetch = "sent"
    BY DEF NoData, Sent, Idle
  <2> QED BY <2>1 DEF ColumnsInit, Answers, Fresh, FreshAt, Settled
<1>2. ColumnsCore /\ Fresh => ColumnsCatchUp
  <2> SUFFICES ASSUME ColumnsCore, Fresh, NEW b \in Browser,
                      \A q \in Change : change[q].by = b => at[q] \in {"idle", "done"},
                      Settled(b)
               PROVE  /\ cache[b].missing = {} => cache[b].data = config
                      /\ \A r \in cache[b].missing :
                            change[r].by # b \/ reply[r] = "error" \/ r \in cache[b].deaf
    BY DEF ColumnsCatchUp, Settled
  <2>1. FreshAt(b)
    BY DEF Fresh
  <2>2. \A r \in cache[b].missing :
          r \in Change /\ at[r] \in {"replied", "done"} /\ Excused(b, r)
    BY <2>1 DEF FreshAt
  <2> QED BY <2>1, <2>2 DEF FreshAt, Excused
<1> QED BY <1>1, <1>2, ColumnsCoreInit, ColumnsCoreStep, AnswersStep, FreshStep, PTL
        DEF ColumnsSpec

=============================================================================
