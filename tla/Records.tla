------------------------------ MODULE Records ------------------------------
(***************************************************************************)
(* The records of a workspace that commands create and change: approval    *)
(* requests with their steps, documents with their versions, forms with    *)
(* their submissions, tasks (as far as the counters see them), comments,   *)
(* and meetings, organizations and files, which are only ever created.     *)
(* A handler loads a record, a method changes the copy, save writes the    *)
(* copy and one outbox row in a transaction; nothing compares versions.    *)
(* Approval steps are written back from the copy, versions and submissions *)
(* are only inserted.  An action ends at an await.                         *)
(*                                                                         *)
(* The analytics projection counts the events: Deliver hands an event of a *)
(* committed row to it, maybe again, maybe never, as OutboxContract has it.*)
(*                                                                         *)
(* A Request stands for what it writes (a version, a submission, a text,   *)
(* an outbox row).                                                         *)
(***************************************************************************)
EXTENDS Integers, Sequences, FiniteSetsExt

CONSTANTS
    User, Approval, Document, Form, Task, Comment, Meeting, Organization, File,
    Panel,           \* the lists of reviewers that requests name
    Request,
    MaxDeliveries    \* bound: how often the bus hands out one event

ASSUME PanelAssumption == Panel \subseteq Seq(User)
ASSUME DeliveriesAssumption == MaxDeliveries \in Nat

IdSets == <<Approval, Document, Form, Task, Comment, Meeting, Organization, File>>
ASSUME IdAssumption ==
    \A i, j \in DOMAIN IdSets : i # j => IdSets[i] \cap IdSets[j] = {}

Object == UNION {IdSets[i] : i \in DOMAIN IdSets}

NoRow == [kind |-> "none"]

\* The rows, each with the rows that hang on it.
Step == [reviewer : User, status : {"PENDING", "APPROVED", "REJECTED"}]
ApprovalRow ==
    [kind : {"approval"}, status : {"PENDING", "APPROVED", "REJECTED"}, steps : Seq(Step)]
Version == [by : Request, number : Nat]
\* name and visibility: the request that has set it last, if one has
DocumentRow ==
    [kind : {"document"}, name : SUBSET Request, visibility : SUBSET Request,
     version : Nat, versions : SUBSET Version]
\* a submission is the request that made it
FormRow == [kind : {"form"}, submissions : SUBSET Request]
TaskRow == [kind : {"task"}, deleted : BOOLEAN]
CommentRow == [kind : {"comment"}, task : Task]
Participant == [user : User, status : {"ACCEPTED"}]
MeetingRow == [kind : {"meeting"}, organizer : User, participants : SUBSET Participant]
Member == [user : User, role : {"ADMIN"}]
OrganizationRow == [kind : {"organization"}, owner : User, members : SUBSET Member]
FileRow == [kind : {"file"}, uploadedBy : User]

AnyRow ==
    {NoRow} \cup ApprovalRow \cup DocumentRow \cup FormRow \cup TaskRow \cup CommentRow
            \cup MeetingRow \cup OrganizationRow \cup FileRow

\* The commands that the controllers make of the requests.
CreateApprovalCommand == [kind : {"createApproval"}, on : Approval, panel : Panel]
ProcessApprovalCommand == [kind : {"approve", "reject"}, on : Approval, by : User]
CreateDocumentCommand == [kind : {"createDocument"}, on : Document]
UpdateDocumentCommand ==
    [kind : {"update"}, on : Document, sets : SUBSET {"name", "visibility"}]
PublishDocumentVersionCommand == [kind : {"publish"}, on : Document]
CreateFormCommand == [kind : {"createForm"}, on : Form]
SubmitFormCommand == [kind : {"submit"}, on : Form]
CreateTaskCommand == [kind : {"createTask"}, on : Task]
DeleteTaskCommand == [kind : {"deleteTask"}, on : Task]
AddCommentCommand == [kind : {"comment"}, on : Comment, task : Task]
CreateMeetingCommand == [kind : {"createMeeting"}, on : Meeting, by : User]
CreateOrganizationCommand == [kind : {"createOrganization"}, on : Organization, by : User]
ConfirmUploadCommand == [kind : {"confirmUpload"}, on : File, by : User]

\* those whose handler makes a record at once, and those that look for one first
MakingCommand ==
    CreateApprovalCommand \cup CreateDocumentCommand \cup CreateFormCommand
        \cup CreateTaskCommand \cup CreateMeetingCommand \cup CreateOrganizationCommand
        \cup ConfirmUploadCommand
AskingCommand ==
    ProcessApprovalCommand \cup UpdateDocumentCommand \cup PublishDocumentVersionCommand
        \cup SubmitFormCommand \cup DeleteTaskCommand \cup AddCommentCommand

Command == MakingCommand \cup AskingCommand

NoCommand == [kind |-> "none"]

\* the counters that follow these records
Counter == {"totalApprovals", "totalDocuments", "totalForms", "totalComments", "totalTasks"}

VARIABLES
    table,      \* the row of each object
    pc,         \* the await a request stands at
    op,         \* its command
    loaded,     \* the record it found or made
    outbox,     \* requests whose transaction has committed an event
    raised,     \* the type of that event
    handled,    \* how often the projection has counted it
    delivered,  \* how often the bus has handed it out
    analytics,  \* the row of the projection: {} or {counters}
    met         \* pairs of requests that were in flight at the same time

records == <<table, pc, op, loaded, outbox, raised, met>>
projection == <<handled, delivered, analytics>>
vars == <<records, projection>>

Init ==
    /\ table = [o \in Object |-> NoRow]
    /\ pc = [q \in Request |-> "idle"]
    /\ op = [q \in Request |-> NoCommand]
    /\ loaded = [q \in Request |-> NoRow]
    /\ outbox = {}
    /\ raised = [q \in Request |-> "none"]
    /\ handled = [q \in Request |-> 0]
    /\ delivered = [q \in Request |-> 0]
    /\ analytics = {}
    /\ met = {}

-----------------------------------------------------------------------------
(* The aggregates: what a method makes of a copy w.  The set is empty when *)
(* the method returns Result.fail.                                         *)

\* Mutant of PendingSteps: a step that is decided counts as well.
MutPendingSteps(w, u) == {i \in DOMAIN w.steps : w.steps[i].reviewer = u}

PendingSteps(w, u) ==
    {i \in DOMAIN w.steps : w.steps[i].reviewer = u /\ w.steps[i].status = "PENDING"}

\* steps.find: the first pending step of the reviewer
StepOf(w, u) == Min(PendingSteps(w, u))

\* Mutant of AllApproved: one approval is enough.
MutAllApproved(steps) == \E i \in DOMAIN steps : steps[i].status = "APPROVED"

AllApproved(steps) == \A i \in DOMAIN steps : steps[i].status = "APPROVED"

\* a reviewer without a pending step changes nothing, and the copy is saved
ApproveStep(w, u) ==
    IF w.status # "PENDING" THEN {}
    ELSE IF PendingSteps(w, u) = {} THEN {w}
    ELSE LET steps == [w.steps EXCEPT ![StepOf(w, u)].status = "APPROVED"]
         IN {[w EXCEPT !.steps = steps,
                       !.status = IF AllApproved(steps) THEN "APPROVED" ELSE @]}

RejectStep(w, u) ==
    IF w.status # "PENDING" THEN {}
    ELSE IF PendingSteps(w, u) = {} THEN {w}
    ELSE {[w EXCEPT !.steps[StepOf(w, u)].status = "REJECTED", !.status = "REJECTED"]}

Rename(w, q) == [w EXCEPT !.name = {q}]
ChangeVisibility(w, q) == [w EXCEPT !.visibility = {q}]

AddVersion(w, q) ==
    [w EXCEPT !.versions = @ \cup {[by |-> q, number |-> w.version + 1]}]

\* the check of isActive is left out: nothing deactivates a form
Submit(w, q) == [w EXCEPT !.submissions = @ \cup {q}]

SoftDelete(w) == [w EXCEPT !.deleted = TRUE]

\* the new records of the creating commands
NewApproval(c) ==
    [kind |-> "approval", status |-> "PENDING",
     steps |-> [i \in DOMAIN c.panel |-> [reviewer |-> c.panel[i], status |-> "PENDING"]]]
NewDocument ==
    [kind |-> "document", name |-> {}, visibility |-> {}, version |-> 0, versions |-> {}]
NewForm == [kind |-> "form", submissions |-> {}]
NewTask == [kind |-> "task", deleted |-> FALSE]
NewComment(c) == [kind |-> "comment", task |-> c.task]
NewMeeting(c) ==
    [kind |-> "meeting", organizer |-> c.by,
     participants |-> {[user |-> c.by, status |-> "ACCEPTED"]}]
NewOrganization(c) ==
    [kind |-> "organization", owner |-> c.by, members |-> {[user |-> c.by, role |-> "ADMIN"]}]
NewFile(c) == [kind |-> "file", uploadedBy |-> c.by]

Creates(c) == c \in MakingCommand \cup AddCommentCommand

-----------------------------------------------------------------------------
(* The handlers: what they make of the record w they have found.           *)

ProcessApproval(c, w) ==
    IF c.kind = "approve" THEN ApproveStep(w, c.by) ELSE RejectStep(w, c.by)

UpdateDocument(c, q, w) ==
    LET renamed == IF "name" \in c.sets THEN Rename(w, q) ELSE w
    IN {IF "visibility" \in c.sets THEN ChangeVisibility(renamed, q) ELSE renamed}

PublishDocumentVersion(q, w) == {AddVersion(w, q)}

SubmitForm(q, w) == {Submit(w, q)}

DeleteTask(w) == {SoftDelete(w)}

AddComment(c) == {NewComment(c)}

Execute(c, q, w) ==
    CASE c.kind \in {"approve", "reject"} -> ProcessApproval(c, w)
      [] c.kind = "update"     -> UpdateDocument(c, q, w)
      [] c.kind = "publish"    -> PublishDocumentVersion(q, w)
      [] c.kind = "submit"     -> SubmitForm(q, w)
      [] c.kind = "deleteTask" -> DeleteTask(w)
      [] c.kind = "comment"    -> AddComment(c)

InFlight == {q \in Request : pc[q] \notin {"idle", "done"}}

\* a request comes with command c; the identifier of a new record is new
Arrives(q, c) ==
    /\ pc[q] = "idle"
    /\ Creates(c) =>
           table[c.on] = NoRow /\ ~\E r \in Request : Creates(op[r]) /\ op[r].on = c.on
    /\ op' = [op EXCEPT ![q] = c]
    /\ met' = met \cup {{q, r} : r \in InFlight}
    /\ UNCHANGED <<table, outbox, raised, projection>>

\* a handler that has made a record saves it next
Makes(q, c, w) ==
    /\ Arrives(q, c)
    /\ loaded' = [loaded EXCEPT ![q] = w]
    /\ pc' = [pc EXCEPT ![q] = "save"]

CreateApproval(q) == \E c \in CreateApprovalCommand : Makes(q, c, NewApproval(c))
CreateDocument(q) == \E c \in CreateDocumentCommand : Makes(q, c, NewDocument)
CreateForm(q) == \E c \in CreateFormCommand : Makes(q, c, NewForm)
CreateTask(q) == \E c \in CreateTaskCommand : Makes(q, c, NewTask)
CreateMeeting(q) == \E c \in CreateMeetingCommand : Makes(q, c, NewMeeting(c))
CreateOrganization(q) == \E c \in CreateOrganizationCommand : Makes(q, c, NewOrganization(c))
ConfirmUpload(q) == \E c \in ConfirmUploadCommand : Makes(q, c, NewFile(c))

\* the other handlers ask for a record first: a comment asks for its task
Receive(q) ==
    \E c \in AskingCommand :
        /\ Arrives(q, c)
        /\ pc' = [pc EXCEPT ![q] = "find"]
        /\ UNCHANGED loaded

\* the request is answered, well or not
End(q) ==
    /\ pc' = [pc EXCEPT ![q] = "done"]
    /\ op' = [op EXCEPT ![q] = NoCommand]
    /\ loaded' = [loaded EXCEPT ![q] = NoRow]

-----------------------------------------------------------------------------
(* The repositories.  A find gives no record or one.                       *)

FindApproval(a) == {table[a]} \cap ApprovalRow
FindDocument(d) == {table[d]} \cap DocumentRow
FindForm(f) == {table[f]} \cap FormRow
FindTask(t) == {w \in {table[t]} \cap TaskRow : ~w.deleted}
\* AddCommentHandler asks the table itself, and finds deleted tasks as well
FindTaskOfComment(t) == {table[t]} \cap TaskRow

Found(c) ==
    CASE c.on \in Approval -> FindApproval(c.on)
      [] c.on \in Document -> FindDocument(c.on)
      [] c.on \in Form     -> FindForm(c.on)
      [] c.on \in Task     -> FindTask(c.on)
      [] c.on \in Comment  -> FindTaskOfComment(c.task)

\* the answer of the find, and the method, which may refuse
Find(q) ==
    LET goesOn == {w \in Found(op[q]) : Execute(op[q], q, w) # {}} IN
    /\ pc[q] = "find"
    /\ \/ \E w \in goesOn :
              /\ loaded' = [loaded EXCEPT ![q] = w]
              /\ pc' = [pc EXCEPT ![q] = "save"]
              /\ UNCHANGED op
       \/ goesOn = {} /\ End(q)
    /\ UNCHANGED <<table, outbox, raised, met, projection>>

\* the status and every step are written from the copy
SavedApproval(row, w) == [row EXCEPT !.status = w.status, !.steps = w.steps]

\* Mutant of SavedDocument: versions are deleted and written again from the copy.
MutSavedDocument(row, w) == [w EXCEPT !.version = row.version + 1]

\* Mutant of SavedDocument: version is written from the copy.
MutSavedVersion(row, w) == [w EXCEPT !.versions = row.versions \cup @]

\* version is incremented in the table, and versions that the table has not
\* are inserted; name and visibility are written from the copy
SavedDocument(row, w) ==
    [w EXCEPT !.version = row.version + 1, !.versions = row.versions \cup @]

\* submissions that the table has not are inserted
SavedForm(row, w) == [row EXCEPT !.submissions = @ \cup w.submissions]

SavedTask(row, w) == [row EXCEPT !.deleted = w.deleted]

\* an upsert creates the row or changes it
Saved(row, w) ==
    CASE row.kind = "none"     -> w
      [] row.kind = "approval" -> SavedApproval(row, w)
      [] row.kind = "document" -> SavedDocument(row, w)
      [] row.kind = "form"     -> SavedForm(row, w)
      [] row.kind = "task"     -> SavedTask(row, w)

\* the name of the class of the event that save stores, which is its eventType
EventOf(c) ==
    CASE c.kind = "createApproval" -> "ApprovalCreatedEvent"
      [] c.kind = "createDocument" -> "DocumentCreatedEvent"
      [] c.kind = "createForm"     -> "FormCreatedEvent"
      [] c.kind = "createTask"     -> "TaskCreatedEvent"
      [] c.kind = "deleteTask"     -> "TaskDeletedEvent"
      [] c.kind = "comment"        -> "CommentCreatedEvent"
      [] OTHER                     -> "none"

\* the transaction of save, with the outbox row
Commit(q) ==
    LET c == op[q]
        copies == IF c \in AskingCommand THEN Execute(c, q, loaded[q]) ELSE {loaded[q]}
    IN
    /\ \E w \in copies : table' = [table EXCEPT ![c.on] = Saved(@, w)]
    /\ IF EventOf(c) = "none" THEN UNCHANGED <<outbox, raised>>
       ELSE /\ outbox' = outbox \cup {q}
            /\ raised' = [raised EXCEPT ![q] = EventOf(c)]

Save(q) ==
    /\ pc[q] = "save"
    /\ Commit(q)
    /\ End(q)
    /\ UNCHANGED <<met, projection>>

\* A statement throws or the process dies, the save being applied or not; or a
\* record is refused before it is saved (a name without text, times out of order).
Throws(q) ==
    /\ q \in InFlight
    /\ \/ pc[q] = "save" /\ Commit(q)
       \/ UNCHANGED <<table, outbox, raised>>
    /\ End(q)
    /\ UNCHANGED <<met, projection>>

-----------------------------------------------------------------------------
(* The projection.                                                         *)

\* the eventTypes that the registry turns into a class; task.contract.ts
\* registers TaskCreatedDomainEvent, which is not what save stores
Registered ==
    {"ApprovalCreatedEvent", "DocumentCreatedEvent", "FormCreatedEvent",
     "CommentCreatedEvent", "TaskDeletedEvent"}

\* Mutant of Delta: forms are matched by the name of the integration event.
MutDelta(type, k) ==
    CASE type = "ApprovalCreatedEvent" /\ k = "totalApprovals" -> 1
      [] type = "DocumentCreatedEvent" /\ k = "totalDocuments" -> 1
      [] type = "FormCreatedIntegrationEvent" /\ k = "totalForms" -> 1
      [] type = "CommentCreatedEvent"  /\ k = "totalComments"  -> 1
      [] type = "TaskDeletedEvent"     /\ k = "totalTasks"     -> -1
      [] OTHER -> 0

\* what an event adds to a counter
Delta(type, k) ==
    CASE type = "ApprovalCreatedEvent" /\ k = "totalApprovals" -> 1
      [] type = "DocumentCreatedEvent" /\ k = "totalDocuments" -> 1
      [] type = "FormCreatedEvent"     /\ k = "totalForms"     -> 1
      [] type = "CommentCreatedEvent"  /\ k = "totalComments"  -> 1
      [] type = "TaskDeletedEvent"     /\ k = "totalTasks"     -> -1
      [] OTHER -> 0

\* the upsert: a first row starts with the delta when that is positive
Counted(type) ==
    IF analytics = {}
    THEN {[k \in Counter |-> IF Delta(type, k) > 0 THEN Delta(type, k) ELSE 0]}
    ELSE {[k \in Counter |-> row[k] + Delta(type, k)] : row \in analytics}

\* The bus hands out an event.  Without a class no handler is called; the
\* handler may fail, or die, before its upsert, and swallows the error.
Deliver(q) ==
    /\ q \in outbox /\ delivered[q] < MaxDeliveries
    /\ delivered' = [delivered EXCEPT ![q] = @ + 1]
    /\ \/ /\ raised[q] \in Registered
          /\ analytics' = Counted(raised[q])
          /\ handled' = [handled EXCEPT ![q] = @ + 1]
       \/ UNCHANGED <<analytics, handled>>
    /\ UNCHANGED records

Next ==
    \E q \in Request :
        \/ CreateApproval(q) \/ CreateDocument(q) \/ CreateForm(q) \/ CreateTask(q)
        \/ CreateMeeting(q) \/ CreateOrganization(q) \/ ConfirmUpload(q)
        \/ Receive(q)
        \/ Find(q) \/ Save(q) \/ Throws(q)
        \/ Deliver(q)

Spec == Init /\ [][Next]_vars

-----------------------------------------------------------------------------

TypeOK ==
    /\ table \in [Object -> AnyRow]
    /\ pc \in [Request -> {"idle", "find", "save", "done"}]
    /\ op \in [Request -> Command \cup {NoCommand}]
    /\ loaded \in [Request -> AnyRow]
    /\ outbox \subseteq Request
    /\ raised \in [Request -> Registered \cup {"none", "TaskCreatedEvent"}]
    /\ handled \in [Request -> Nat] /\ delivered \in [Request -> 0..MaxDeliveries]
    /\ analytics \subseteq [Counter -> Int] /\ Cardinality(analytics) <= 1
    /\ met \subseteq SUBSET Request

Is(row, kind) == row.kind = kind

\* A request is APPROVED exactly when it has steps and all of them are, and
\* REJECTED exactly when one of them is: so it stays when reviewers act at the
\* same time and each writes the status and all steps from its copy, and a
\* request without reviewers is never decided.
StatusFollowsSteps ==
    \A a \in Approval : Is(table[a], "approval") =>
        LET row == table[a] IN
        /\ row.status = "APPROVED" <=>
               row.steps # <<>> /\ \A i \in DOMAIN row.steps : row.steps[i].status = "APPROVED"
        /\ row.status = "REJECTED" <=>
               \E i \in DOMAIN row.steps : row.steps[i].status = "REJECTED"

\* request q is saving a copy that the table has left behind
SavesStale(q, a) ==
    pc[q] = "save" /\ pc'[q] = "done" /\ ~Creates(op[q]) /\ op[q].on = a /\ loaded[q] # table[a]

\* A decision, of a step or of the request, is changed only by saving a copy
\* that was read before it was taken.
DecisionsAreFinal ==
    [][\A a \in Approval :
          Is(table[a], "approval") /\ ~(\E q \in Request : SavesStale(q, a)) =>
              /\ table[a].status # "PENDING" => table'[a].status = table[a].status
              /\ \A i \in DOMAIN table[a].steps :
                     table[a].steps[i].status # "PENDING" =>
                         table'[a].steps[i] = table[a].steps[i]]_vars

\* A new version of a document has a higher number than all that it has, those
\* excepted whose requests were in flight at the same time: so the version with
\* the highest number, which the page of the document shows, is the last one.
NewestIsHighest ==
    [][\A d \in Document : Is(table[d], "document") =>
          \A new \in table'[d].versions \ table[d].versions : \A old \in table[d].versions :
              {new.by, old.by} \in met \/ old.number < new.number]_vars

\* A published version and a submission are never lost, whatever copies are
\* saved later; an object stays what it is.
NothingPublishedIsLost ==
    [][\A o \in Object :
          /\ Is(table[o], "none") \/ table'[o].kind = table[o].kind
          /\ Is(table[o], "document") => table[o].versions \subseteq table'[o].versions
          /\ Is(table[o], "form") => table[o].submissions \subseteq table'[o].submissions]_vars

\* the counter of the records of a kind
CounterOf == [approval |-> "totalApprovals", document |-> "totalDocuments",
              form |-> "totalForms", comment |-> "totalComments"]

EventsOf(kind) == {q \in outbox : Delta(raised[q], CounterOf[kind]) = 1}
Deletions == {q \in outbox : raised[q] = "TaskDeletedEvent"}

\* each time that the projection has counted an event of Q
Handlings(Q) == UNION {{q} \X (1..handled[q]) : q \in Q}

\* A counter of the projection is off by the events it has missed and the
\* events it has counted again, and by nothing else.  The counter of tasks
\* only ever goes down: creations are not counted, and a deletion is, except
\* that the event that makes the row is not.
CountersAreExplained ==
    \A row \in analytics :
        /\ \A kind \in DOMAIN CounterOf :
               row[CounterOf[kind]] =
                   Cardinality({o \in Object : Is(table[o], kind)})
                   - Cardinality(EventsOf(kind)) + Cardinality(Handlings(EventsOf(kind)))
        /\ LET counted == Cardinality(Handlings(Deletions))
           IN  row["totalTasks"] \in {0 - counted, 1 - counted}
=============================================================================
