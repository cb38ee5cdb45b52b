--------------------------- MODULE RecordsProofs ---------------------------
(***************************************************************************)
(* Records keeps its types; the status of an approval follows its steps    *)
(* and a decision stands, new versions of a document have the highest      *)
(* number, and nothing published is lost, but for requests that overlap;   *)
(* the counters of the projection are off by the events that it missed or  *)
(* counted again: for any number of users, objects, requests, deliveries.  *)
(***************************************************************************)
EXTENDS Records, FiniteSetTheorems, WellFoundedInduction, TLAPS

USE PanelAssumption, DeliveriesAssumption

-----------------------------------------------------------------------------
(* Objects and their rows.                                                 *)

\* the rows of the objects of each kind
RowOf(o) ==
    IF o \in Approval THEN ApprovalRow
    ELSE IF o \in Document THEN DocumentRow
    ELSE IF o \in Form THEN FormRow
    ELSE IF o \in Task THEN TaskRow
    ELSE IF o \in Comment THEN CommentRow
    ELSE IF o \in Meeting THEN MeetingRow
    ELSE IF o \in Organization THEN OrganizationRow
    ELSE FileRow

\* The objects are those of the eight tables.
LEMMA Objects ==
    Object = Approval \cup Document \cup Form \cup Task \cup Comment \cup Meeting
                \cup Organization \cup File
<1>1. DOMAIN IdSets = 1..8
  BY DEF IdSets
<1>2. \A i \in 1..8 : i = 1 \/ i = 2 \/ i = 3 \/ i = 4 \/ i = 5 \/ i = 6 \/ i = 7 \/ i = 8
  OBVIOUS
<1>3. /\ IdSets[1] = Approval /\ IdSets[2] = Document /\ IdSets[3] = Form /\ IdSets[4] = Task
      /\ IdSets[5] = Comment /\ IdSets[6] = Meeting /\ IdSets[7] = Organization
      /\ IdSets[8] = File
  BY DEF IdSets
<1>4. ASSUME NEW o \in Object
      PROVE o \in Approval \cup Document \cup Form \cup Task \cup Comment \cup Meeting
                    \cup Organization \cup File
  <2>1. PICK i \in 1..8 : o \in IdSets[i]
    BY <1>1 DEF Object
  <2> QED BY <1>2, <1>3, <2>1
<1>5. \A i \in 1..8 : IdSets[i] \subseteq Object
  BY <1>1 DEF Object
<1>6. /\ 1 \in 1..8 /\ 2 \in 1..8 /\ 3 \in 1..8 /\ 4 \in 1..8 /\ 5 \in 1..8 /\ 6 \in 1..8
      /\ 7 \in 1..8 /\ 8 \in 1..8
  OBVIOUS
<1>7. /\ Approval \subseteq Object /\ Document \subseteq Object /\ Form \subseteq Object
      /\ Task \subseteq Object /\ Comment \subseteq Object /\ Meeting \subseteq Object
      /\ Organization \subseteq Object /\ File \subseteq Object
  BY <1>3, <1>5, <1>6
<1> QED BY <1>4, <1>7

\* An object belongs to one table only.
LEMMA Apart ==
    /\ Approval \cap Document = {}
    /\ (Approval \cup Document) \cap Form = {}
    /\ (Approval \cup Document \cup Form) \cap Task = {}
    /\ (Approval \cup Document \cup Form \cup Task) \cap Comment = {}
    /\ (Approval \cup Document \cup Form \cup Task \cup Comment) \cap Meeting = {}
    /\ (Approval \cup Document \cup Form \cup Task \cup Comment \cup Meeting)
            \cap Organization = {}
    /\ (Approval \cup Document \cup Form \cup Task \cup Comment \cup Meeting \cup Organization)
            \cap File = {}
<1>1. DOMAIN IdSets = 1..8
  BY DEF IdSets
<1>2. /\ IdSets[1] = Approval /\ IdSets[2] = Document /\ IdSets[3] = Form /\ IdSets[4] = Task
      /\ IdSets[5] = Comment /\ IdSets[6] = Meeting /\ IdSets[7] = Organization
      /\ IdSets[8] = File
  BY DEF IdSets
<1>3. \A i, j \in 1..8 : i # j => IdSets[i] \cap IdSets[j] = {}
  BY <1>1, IdAssumption
<1>4. /\ 1 \in 1..8 /\ 2 \in 1..8 /\ 3 \in 1..8 /\ 4 \in 1..8 /\ 5 \in 1..8 /\ 6 \in 1..8
      /\ 7 \in 1..8 /\ 8 \in 1..8
  OBVIOUS
<1>5. /\ Approval \cap Document = {}
      /\ (Approval \cup Document) \cap Form = {}
      /\ (Approval \cup Document \cup Form) \cap Task = {}
  BY <1>2, <1>3, <1>4
<1>6. (Approval \cup Document \cup Form \cup Task) \cap Comment = {}
  BY <1>2, <1>3, <1>4
<1>7. (Approval \cup Document \cup Form \cup Task \cup Comment) \cap Meeting = {}
  BY <1>2, <1>3, <1>4
<1>8. (Approval \cup Document \cup Form \cup Task \cup Comment \cup Meeting) \cap Organization = {}
  BY <1>2, <1>3, <1>4
<1>9. (Approval \cup Document \cup Form \cup Task \cup Comment \cup Meeting \cup Organization)
            \cap File = {}
  BY <1>2, <1>3, <1>4
<1> QED BY <1>5, <1>6, <1>7, <1>8, <1>9

\* The rows of the objects of each table.
LEMMA RowsOf ==
    /\ \A o \in Approval : RowOf(o) = ApprovalRow
    /\ \A o \in Document : RowOf(o) = DocumentRow
    /\ \A o \in Form : RowOf(o) = FormRow
    /\ \A o \in Task : RowOf(o) = TaskRow
    /\ \A o \in Comment : RowOf(o) = CommentRow
    /\ \A o \in Meeting : RowOf(o) = MeetingRow
    /\ \A o \in Organization : RowOf(o) = OrganizationRow
    /\ \A o \in File : RowOf(o) = FileRow
BY Apart DEF RowOf

\* Every row has the kind of its table, and so is none but its own.
LEMMA KindsOfRows ==
    /\ \A w \in ApprovalRow : w.kind = "approval"
    /\ \A w \in DocumentRow : w.kind = "document"
    /\ \A w \in FormRow : w.kind = "form"
    /\ \A w \in TaskRow : w.kind = "task"
    /\ \A w \in CommentRow : w.kind = "comment"
    /\ \A w \in MeetingRow : w.kind = "meeting"
    /\ \A w \in OrganizationRow : w.kind = "organization"
    /\ \A w \in FileRow : w.kind = "file"
    /\ NoRow.kind = "none"
BY DEF ApprovalRow, DocumentRow, FormRow, TaskRow, CommentRow, MeetingRow, OrganizationRow,
       FileRow, NoRow

\* The row of an object is a row.
LEMMA RowsAreRows == \A o \in Object : RowOf(o) \subseteq AnyRow /\ NoRow \notin RowOf(o)
<1>1. \A o : \/ RowOf(o) = ApprovalRow \/ RowOf(o) = DocumentRow \/ RowOf(o) = FormRow
             \/ RowOf(o) = TaskRow \/ RowOf(o) = CommentRow \/ RowOf(o) = MeetingRow
             \/ RowOf(o) = OrganizationRow \/ RowOf(o) = FileRow
  BY DEF RowOf
<1> QED BY <1>1, KindsOfRows DEF AnyRow

\* A nonempty set of naturals has a least element.
LEMMA LeastOf == ASSUME NEW S \in SUBSET Nat, S # {} PROVE Min(S) \in S
<1> DEFINE Less == {ss \in Nat \X Nat : ss[1] < ss[2]}
<1>1. IsWellFoundedOn(Less, Nat)
  <2>1. Less = OpToRel(<, Nat)
    BY Zenon DEF OpToRel
  <2> QED BY <2>1, NatLessThanWellFounded, Zenon
<1>2. \A x, y \in Nat : y < x => <<y, x>> \in Less
  OBVIOUS
<1> HIDE DEF Less
<1>3. PICK x \in S : \A y \in S : <<y, x>> \notin Less
  BY <1>1, WFMin
<1>4. ASSUME NEW y \in S PROVE x <= y
  <2>1. x \in Nat /\ y \in Nat /\ ~(y < x)
    BY <1>2, <1>3, <1>4
  <2> QED BY <2>1
<1> QED BY <1>3, <1>4 DEF Min

-----------------------------------------------------------------------------
(* The methods of an approval.                                             *)

\* the status of an approval and its steps agree
Agrees(w) ==
    /\ w.status = "APPROVED" <=>
           w.steps # <<>> /\ \A i \in DOMAIN w.steps : w.steps[i].status = "APPROVED"
    /\ w.status = "REJECTED" <=> \E i \in DOMAIN w.steps : w.steps[i].status = "REJECTED"

\* The first pending step of a reviewer is one of the steps, and pending.
LEMMA StepIsPending ==
    ASSUME NEW w \in ApprovalRow, NEW u \in User, PendingSteps(w, u) # {}
    PROVE StepOf(w, u) \in DOMAIN w.steps /\ w.steps[StepOf(w, u)].status = "PENDING"
<1>1. PendingSteps(w, u) \in SUBSET Nat
  BY DEF ApprovalRow, PendingSteps
<1>2. StepOf(w, u) \in PendingSteps(w, u)
  BY <1>1, LeastOf DEF StepOf
<1> QED BY <1>2 DEF PendingSteps

\* the steps after one of them got a status
Written(steps, k, s) == [steps EXCEPT ![k].status = s]

\* Writing the status of one step that is pending.
LEMMA StepWritten ==
    ASSUME NEW steps \in Seq(Step), NEW k \in DOMAIN steps, NEW s \in {"APPROVED", "REJECTED"}
    PROVE /\ Written(steps, k, s) \in Seq(Step)
          /\ DOMAIN Written(steps, k, s) = DOMAIN steps
          /\ Written(steps, k, s) # <<>>
          /\ Written(steps, k, s)[k].status = s
          /\ \A i \in DOMAIN steps : i # k => Written(steps, k, s)[i] = steps[i]
<1> DEFINE x == [steps[k] EXCEPT !.status = s]
           new == Written(steps, k, s)
<1>1. steps[k] \in Step
  OBVIOUS
<1>2. x \in Step /\ x.status = s
  BY <1>1 DEF Step
<1>3. new = [steps EXCEPT ![k] = x]
  BY DEF Written
<1> HIDE DEF x, new
<1>4. DOMAIN new = DOMAIN steps /\ new[k] = x /\ \A i \in DOMAIN steps : i # k => new[i] = steps[i]
  BY <1>3
<1>5. new \in Seq(Step)
  BY <1>2, <1>3
<1>6. new # <<>>
  <2>1. DOMAIN new # {}
    BY <1>4
  <2> QED BY <2>1
<1> QED BY <1>2, <1>4, <1>5, <1>6 DEF new

\* What a reviewer makes of a copy whose status and steps agree: they agree
\* again, and decided steps stay; a decided request is refused.
LEMMA Reviewed ==
    ASSUME NEW c \in ProcessApprovalCommand, NEW w \in ApprovalRow, Agrees(w),
           NEW v \in ProcessApproval(c, w)
    PROVE /\ v \in ApprovalRow
          /\ Agrees(v)
          /\ w.status = "PENDING"
          /\ \A i \in DOMAIN w.steps :
                i \in DOMAIN v.steps /\ (w.steps[i].status # "PENDING" => v.steps[i] = w.steps[i])
<1>1. c.by \in User /\ c.kind \in {"approve", "reject"}
  BY DEF ProcessApprovalCommand
<1>2. w.status = "PENDING" /\ w.steps \in Seq(Step)
  BY DEF ProcessApproval, ApproveStep, RejectStep, ApprovalRow
<1>3. CASE PendingSteps(w, c.by) = {}
  BY <1>2, <1>3 DEF ProcessApproval, ApproveStep, RejectStep
<1>4. CASE PendingSteps(w, c.by) # {} /\ c.kind = "approve"
  <2> DEFINE k == StepOf(w, c.by)
             steps == Written(w.steps, k, "APPROVED")
  <2>1. k \in DOMAIN w.steps /\ w.steps[k].status = "PENDING"
    BY <1>1, <1>4, StepIsPending
  <2>2. steps = Written(w.steps, k, "APPROVED")
    OBVIOUS
  <2> HIDE DEF k, steps
  <2>3. /\ steps \in Seq(Step) /\ DOMAIN steps = DOMAIN w.steps /\ steps # <<>>
        /\ steps[k].status = "APPROVED"
        /\ \A i \in DOMAIN w.steps : i # k => steps[i] = w.steps[i]
    BY <1>2, <2>1, <2>2, StepWritten
  <2>4. v = [w EXCEPT !.steps = steps,
                      !.status = IF AllApproved(steps) THEN "APPROVED" ELSE w.status]
    BY <1>2, <1>4 DEF ProcessApproval, ApproveStep, Written, k, steps
  <2>5. /\ v \in ApprovalRow /\ v.steps = steps
        /\ v.status = IF AllApproved(steps) THEN "APPROVED" ELSE "PENDING"
    BY <1>2, <2>3, <2>4 DEF ApprovalRow
  <2>6. \A i \in DOMAIN steps : steps[i].status # "REJECTED"
    BY <1>2, <2>3 DEF Agrees
  <2>7. Agrees(v)
    <3>1. v.status = "APPROVED" <=> steps # <<>> /\ \A i \in DOMAIN steps : steps[i].status = "APPROVED"
      BY <2>3, <2>5 DEF AllApproved
    <3>2. v.status = "REJECTED" <=> \E i \in DOMAIN steps : steps[i].status = "REJECTED"
      BY <2>5, <2>6
    <3> QED BY <2>5, <3>1, <3>2 DEF Agrees
  <2> QED BY <1>2, <2>1, <2>3, <2>5, <2>7
<1>5. CASE PendingSteps(w, c.by) # {} /\ c.kind = "reject"
  <2> DEFINE k == StepOf(w, c.by)
             steps == Written(w.steps, k, "REJECTED")
  <2>1. k \in DOMAIN w.steps /\ w.steps[k].status = "PENDING"
    BY <1>1, <1>5, StepIsPending
  <2>2. steps = Written(w.steps, k, "REJECTED")
    OBVIOUS
  <2> HIDE DEF k, steps
  <2>3. /\ steps \in Seq(Step) /\ DOMAIN steps = DOMAIN w.steps /\ steps # <<>>
        /\ steps[k].status = "REJECTED"
        /\ \A i \in DOMAIN w.steps : i # k => steps[i] = w.steps[i]
    BY <1>2, <2>1, <2>2, StepWritten
  <2>4. v = [w EXCEPT !.steps = steps, !.status = "REJECTED"]
    BY <1>2, <1>5 DEF ProcessApproval, RejectStep, Written, k, steps
  <2>5. v \in ApprovalRow /\ v.steps = steps /\ v.status = "REJECTED"
    BY <2>3, <2>4 DEF ApprovalRow
  <2>6. Agrees(v)
    BY <2>1, <2>3, <2>5 DEF Agrees
  <2> QED BY <1>2, <2>1, <2>3, <2>5, <2>6
<1> QED BY <1>1, <1>3, <1>4, <1>5

\* A new approval has pending steps only, and its status is PENDING.
LEMMA NewAgrees ==
    ASSUME NEW c \in CreateApprovalCommand
    PROVE NewApproval(c) \in ApprovalRow /\ Agrees(NewApproval(c))
<1> DEFINE steps == [i \in DOMAIN c.panel |-> [reviewer |-> c.panel[i], status |-> "PENDING"]]
<1>1. c.panel \in Seq(User)
  BY DEF CreateApprovalCommand
<1>2. steps \in Seq(Step)
  <2>1. \A i \in DOMAIN c.panel : [reviewer |-> c.panel[i], status |-> "PENDING"] \in Step
    BY <1>1 DEF Step
  <2>2. Len(c.panel) \in Nat /\ DOMAIN c.panel = 1..Len(c.panel)
    BY <1>1
  <2>3. steps \in [1..Len(c.panel) -> Step]
    BY <2>1, <2>2
  <2> QED BY <2>2, <2>3
<1>3. \A i \in DOMAIN steps : steps[i].status = "PENDING"
  OBVIOUS
<1>4. steps # <<>> => \E i \in DOMAIN steps : TRUE
  BY <1>2
<1> HIDE DEF steps
<1>5. NewApproval(c) = [kind |-> "approval", status |-> "PENDING", steps |-> steps]
  BY DEF NewApproval, steps
<1>6. NewApproval(c) \in ApprovalRow
  BY <1>2, <1>5 DEF ApprovalRow
<1> QED BY <1>3, <1>4, <1>5, <1>6 DEF Agrees

-----------------------------------------------------------------------------
(* The commands and what they make.                                        *)

\* the commands of a handler that changes what it finds
ChangingCommand ==
    ProcessApprovalCommand \cup UpdateDocumentCommand \cup PublishDocumentVersionCommand
        \cup SubmitFormCommand \cup DeleteTaskCommand

\* The kind of a command tells its handler.
LEMMA KindsOfCommands ==
    /\ \A c \in MakingCommand :
        c.kind \in {"createApproval", "createDocument", "createForm", "createTask",
                    "createMeeting", "createOrganization", "confirmUpload"}
    /\ \A c \in ChangingCommand :
        c.kind \in {"approve", "reject", "update", "publish", "submit", "deleteTask"}
    /\ \A c \in AddCommentCommand : c.kind = "comment"
<1>1. \A c \in MakingCommand :
        c.kind \in {"createApproval", "createDocument", "createForm", "createTask",
                    "createMeeting", "createOrganization", "confirmUpload"}
  BY DEF MakingCommand, CreateApprovalCommand, CreateDocumentCommand, CreateFormCommand,
         CreateTaskCommand, CreateMeetingCommand, CreateOrganizationCommand, ConfirmUploadCommand
<1>2. \A c \in ChangingCommand :
        c.kind \in {"approve", "reject", "update", "publish", "submit", "deleteTask"}
  BY DEF ChangingCommand, ProcessApprovalCommand, UpdateDocumentCommand,
         PublishDocumentVersionCommand, SubmitFormCommand, DeleteTaskCommand
<1>3. \A c \in AddCommentCommand : c.kind = "comment"
  BY DEF AddCommentCommand
<1> QED BY <1>1, <1>2, <1>3

\* A command makes a record, adds a comment or changes what it finds, and
\* nothing else of the three.
LEMMA Commands ==
    /\ AskingCommand = ChangingCommand \cup AddCommentCommand
    /\ \A c \in MakingCommand : Creates(c) /\ c \notin AskingCommand
    /\ \A c \in AddCommentCommand : Creates(c) /\ c \in AskingCommand
    /\ \A c \in ChangingCommand : ~Creates(c) /\ c \in AskingCommand
    /\ ~Creates(NoCommand) /\ NoCommand \notin Command
<1>1. AskingCommand = ChangingCommand \cup AddCommentCommand
  BY DEF AskingCommand, ChangingCommand
<1>2. NoCommand.kind = "none"
  BY DEF NoCommand
<1> QED BY <1>1, <1>2, KindsOfCommands DEF Creates, Command

\* A command names an object; a command that changes names one of its table.
LEMMA CommandsOn ==
    /\ \A c \in Command : c.on \in Object
    /\ \A c \in ProcessApprovalCommand : RowOf(c.on) = ApprovalRow
    /\ \A c \in UpdateDocumentCommand \cup PublishDocumentVersionCommand : RowOf(c.on) = DocumentRow
    /\ \A c \in SubmitFormCommand : RowOf(c.on) = FormRow
    /\ \A c \in DeleteTaskCommand : RowOf(c.on) = TaskRow
    /\ \A c \in AddCommentCommand : RowOf(c.on) = CommentRow
<1>1. \A c \in MakingCommand : c.on \in Object
  BY Objects DEF MakingCommand, CreateApprovalCommand, CreateDocumentCommand, CreateFormCommand,
         CreateTaskCommand, CreateMeetingCommand, CreateOrganizationCommand, ConfirmUploadCommand
<1>2. \A c \in ProcessApprovalCommand : c.on \in Object /\ RowOf(c.on) = ApprovalRow
  BY Objects, RowsOf DEF ProcessApprovalCommand
<1>3. \A c \in UpdateDocumentCommand : c.on \in Object /\ RowOf(c.on) = DocumentRow
  BY Objects, RowsOf DEF UpdateDocumentCommand
<1>4. \A c \in PublishDocumentVersionCommand : c.on \in Object /\ RowOf(c.on) = DocumentRow
  BY Objects, RowsOf DEF PublishDocumentVersionCommand
<1>5. \A c \in SubmitFormCommand : c.on \in Object /\ RowOf(c.on) = FormRow
  BY Objects, RowsOf DEF SubmitFormCommand
<1>6. \A c \in DeleteTaskCommand : c.on \in Object /\ RowOf(c.on) = TaskRow
  BY Objects, RowsOf DEF DeleteTaskCommand
<1>7. \A c \in AddCommentCommand : c.on \in Object /\ RowOf(c.on) = CommentRow
  BY Objects, RowsOf DEF AddCommentCommand
<1> QED BY <1>1, <1>2, <1>3, <1>4, <1>5, <1>6, <1>7 DEF Command, AskingCommand

\* what is known of a record that a request has made or found
Sound(w) ==
    /\ w.kind = "approval" => Agrees(w)
    /\ w.kind = "document" => \A x \in w.versions : x.number <= w.version

\* a new record with its command: a document starts without versions
MadeBy(c, w) ==
    /\ c \in MakingCommand
    /\ w \in RowOf(c.on) /\ Sound(w)

\* The records that the creating commands make.
LEMMA NewRecords ==
    ASSUME NEW c
    PROVE /\ c \in CreateApprovalCommand => MadeBy(c, NewApproval(c))
          /\ c \in CreateDocumentCommand => MadeBy(c, NewDocument)
          /\ c \in CreateFormCommand => MadeBy(c, NewForm)
          /\ c \in CreateTaskCommand => MadeBy(c, NewTask)
          /\ c \in CreateMeetingCommand => MadeBy(c, NewMeeting(c))
          /\ c \in CreateOrganizationCommand => MadeBy(c, NewOrganization(c))
          /\ c \in ConfirmUploadCommand => MadeBy(c, NewFile(c))
<1>1. ASSUME c \in CreateApprovalCommand PROVE MadeBy(c, NewApproval(c))
  <2>1. NewApproval(c) \in ApprovalRow /\ Agrees(NewApproval(c))
    BY <1>1, NewAgrees
  <2>2. c \in MakingCommand /\ RowOf(c.on) = ApprovalRow
    BY <1>1, RowsOf DEF MakingCommand, CreateApprovalCommand
  <2> QED BY <2>1, <2>2, KindsOfRows DEF MadeBy, Sound
<1>2. ASSUME c \in CreateDocumentCommand PROVE MadeBy(c, NewDocument)
  <2>1. c \in MakingCommand /\ RowOf(c.on) = DocumentRow
    BY <1>2, RowsOf DEF MakingCommand, CreateDocumentCommand
  <2>2. NewDocument \in DocumentRow /\ NewDocument.kind = "document" /\ NewDocument.versions = {}
    BY DEF NewDocument, DocumentRow
  <2> QED BY <2>1, <2>2 DEF MadeBy, Sound
<1>3. ASSUME c \in CreateFormCommand PROVE MadeBy(c, NewForm)
  <2>1. c \in MakingCommand /\ RowOf(c.on) = FormRow
    BY <1>3, RowsOf DEF MakingCommand, CreateFormCommand
  <2> QED BY <2>1 DEF MadeBy, Sound, NewForm, FormRow
<1>4. ASSUME c \in CreateTaskCommand PROVE MadeBy(c, NewTask)
  <2>1. c \in MakingCommand /\ RowOf(c.on) = TaskRow
    BY <1>4, RowsOf DEF MakingCommand, CreateTaskCommand
  <2> QED BY <2>1 DEF MadeBy, Sound, NewTask, TaskRow
<1>5. ASSUME c \in CreateMeetingCommand PROVE MadeBy(c, NewMeeting(c))
  <2>1. c \in MakingCommand /\ RowOf(c.on) = MeetingRow /\ c.by \in User
    BY <1>5, RowsOf DEF MakingCommand, CreateMeetingCommand
  <2>2. {[user |-> c.by, status |-> "ACCEPTED"]} \subseteq Participant
    BY <2>1 DEF Participant
  <2> QED BY <2>1, <2>2 DEF MadeBy, Sound, NewMeeting, MeetingRow
<1>6. ASSUME c \in CreateOrganizationCommand PROVE MadeBy(c, NewOrganization(c))
  <2>1. c \in MakingCommand /\ RowOf(c.on) = OrganizationRow /\ c.by \in User
    BY <1>6, RowsOf DEF MakingCommand, CreateOrganizationCommand
  <2>2. {[user |-> c.by, role |-> "ADMIN"]} \subseteq Member
    BY <2>1 DEF Member
  <2> QED BY <2>1, <2>2 DEF MadeBy, Sound, NewOrganization, OrganizationRow
<1>7. ASSUME c \in ConfirmUploadCommand PROVE MadeBy(c, NewFile(c))
  <2>1. c \in MakingCommand /\ RowOf(c.on) = FileRow /\ c.by \in User
    BY <1>7, RowsOf DEF MakingCommand, ConfirmUploadCommand
  <2> QED BY <2>1 DEF MadeBy, Sound, NewFile, FileRow
<1> QED BY <1>1, <1>2, <1>3, <1>4, <1>5, <1>6, <1>7

-----------------------------------------------------------------------------
(* What a save of a changing command leaves.                               *)

\* the document w was read before the row became what it is
Behind(w, row) ==
    w.kind = "document" => w.versions \subseteq row.versions /\ w.version <= row.version

\* A reviewed approval is written with status and steps of the copy.
LEMMA SavedReview ==
    ASSUME NEW c \in ProcessApprovalCommand, NEW q, NEW w \in ApprovalRow, Agrees(w),
           NEW row \in ApprovalRow, NEW v \in Execute(c, q, w)
    PROVE /\ Saved(row, v) \in ApprovalRow /\ Agrees(Saved(row, v))
          /\ Saved(row, v).status = v.status /\ Saved(row, v).steps = v.steps
          /\ v \in ProcessApproval(c, w)
<1>1. c.kind \in {"approve", "reject"}
  BY DEF ProcessApprovalCommand
<1>2. v \in ProcessApproval(c, w)
  BY <1>1 DEF Execute
<1>3. v \in ApprovalRow /\ Agrees(v)
  BY <1>2, Reviewed
<1>4. Saved(row, v) = [row EXCEPT !.status = v.status, !.steps = v.steps]
  BY KindsOfRows DEF Saved, SavedApproval
<1>5. Saved(row, v) \in ApprovalRow /\ Saved(row, v).status = v.status /\ Saved(row, v).steps = v.steps
  BY <1>3, <1>4 DEF ApprovalRow
<1> QED BY <1>2, <1>3, <1>5 DEF Agrees

\* A document that was changed from a copy keeps all versions of the row, and
\* gets at most one, numbered one higher than the copy was.
LEMMA SavedChange ==
    ASSUME NEW c \in UpdateDocumentCommand \cup PublishDocumentVersionCommand, NEW q \in Request,
           NEW w \in DocumentRow, NEW row \in DocumentRow, Behind(w, row), NEW v \in Execute(c, q, w)
    PROVE /\ Saved(row, v) \in DocumentRow
          /\ Saved(row, v).version = row.version + 1
          /\ row.versions \subseteq Saved(row, v).versions
          /\ \A x \in Saved(row, v).versions :
                x \in row.versions \/ (x.by = q /\ x.number = w.version + 1)
<1>1. w.kind = "document" /\ row.kind = "document"
  BY KindsOfRows
<1>2. /\ v \in DocumentRow
      /\ \A x \in v.versions : x \in w.versions \/ (x.by = q /\ x.number = w.version + 1)
  <2>1. CASE c \in UpdateDocumentCommand
    <3>1. c.kind = "update"
      BY <2>1 DEF UpdateDocumentCommand
    <3> DEFINE renamed == IF "name" \in c.sets THEN Rename(w, q) ELSE w
    <3>2. renamed \in DocumentRow /\ renamed.versions = w.versions
      BY DEF Rename, DocumentRow
    <3>3. v = IF "visibility" \in c.sets THEN ChangeVisibility(renamed, q) ELSE renamed
      BY <3>1 DEF Execute, UpdateDocument
    <3> HIDE DEF renamed
    <3>4. v \in DocumentRow /\ v.versions = renamed.versions
      BY <3>2, <3>3 DEF ChangeVisibility, DocumentRow
    <3> QED BY <3>2, <3>4
  <2>2. CASE c \in PublishDocumentVersionCommand
    <3> DEFINE new == [by |-> q, number |-> w.version + 1]
    <3>1. c.kind = "publish"
      BY <2>2 DEF PublishDocumentVersionCommand
    <3>2. v = [w EXCEPT !.versions = w.versions \cup {new}]
      BY <3>1 DEF Execute, PublishDocumentVersion, AddVersion
    <3>3. new \in Version /\ new.by = q /\ new.number = w.version + 1
      BY DEF Version, DocumentRow
    <3> HIDE DEF new
    <3> QED BY <3>2, <3>3 DEF DocumentRow
  <2> QED BY <2>1, <2>2
<1>3. Saved(row, v) = [v EXCEPT !.version = row.version + 1, !.versions = row.versions \cup v.versions]
  BY <1>1 DEF Saved, SavedDocument
<1>4. /\ Saved(row, v) \in DocumentRow
      /\ Saved(row, v).version = row.version + 1
      /\ Saved(row, v).versions = row.versions \cup v.versions
  <2>1. row.version + 1 \in Nat /\ row.versions \cup v.versions \subseteq Version
    BY <1>2 DEF DocumentRow
  <2> QED BY <1>2, <1>3, <2>1 DEF DocumentRow
<1>5. w.versions \subseteq row.versions
  BY <1>1 DEF Behind
<1> QED BY <1>2, <1>4, <1>5

\* A form keeps its submissions.
LEMMA SavedSubmission ==
    ASSUME NEW c \in SubmitFormCommand, NEW q \in Request, NEW w \in FormRow, NEW row \in FormRow,
           NEW v \in Execute(c, q, w)
    PROVE Saved(row, v) \in FormRow /\ row.submissions \subseteq Saved(row, v).submissions
<1>1. c.kind = "submit" /\ row.kind = "form"
  BY KindsOfRows DEF SubmitFormCommand
<1>2. v = [w EXCEPT !.submissions = w.submissions \cup {q}]
  BY <1>1 DEF Execute, SubmitForm, Submit
<1>3. v.submissions \subseteq Request
  BY <1>2 DEF FormRow
<1>4. Saved(row, v) = [row EXCEPT !.submissions = row.submissions \cup v.submissions]
  BY <1>1 DEF Saved, SavedForm
<1> QED BY <1>3, <1>4 DEF FormRow

\* A task is deleted.
LEMMA SavedDeletion ==
    ASSUME NEW c \in DeleteTaskCommand, NEW q \in Request, NEW w \in TaskRow, NEW row \in TaskRow,
           NEW v \in Execute(c, q, w)
    PROVE Saved(row, v) \in TaskRow
<1>1. c.kind = "deleteTask" /\ row.kind = "task"
  BY KindsOfRows DEF DeleteTaskCommand
<1>2. v.deleted = TRUE
  BY <1>1 DEF Execute, DeleteTask, SoftDelete, TaskRow
<1>3. Saved(row, v) = [row EXCEPT !.deleted = v.deleted]
  BY <1>1 DEF Saved, SavedTask
<1> QED BY <1>2, <1>3 DEF TaskRow

\* what a save may do to a row: it stays sound and what it was, and loses
\* neither versions nor submissions
Follows(row, new) ==
    /\ new.kind = row.kind
    /\ Sound(new)
    /\ row.kind = "document" =>
           row.versions \subseteq new.versions /\ row.version <= new.version
    /\ row.kind = "form" => row.submissions \subseteq new.submissions

\* A changing command follows the row.
LEMMA ChangeFollows ==
    ASSUME NEW c \in ChangingCommand, NEW q \in Request, NEW w \in RowOf(c.on), Sound(w),
           NEW row \in RowOf(c.on), Sound(row), Behind(w, row), NEW v \in Execute(c, q, w)
    PROVE Saved(row, v) \in RowOf(c.on) /\ Follows(row, Saved(row, v))
<1>1. CASE c \in ProcessApprovalCommand
  <2>1. RowOf(c.on) = ApprovalRow /\ Agrees(w)
    BY <1>1, CommandsOn, KindsOfRows DEF Sound
  <2>2. Saved(row, v) \in ApprovalRow /\ Agrees(Saved(row, v))
    BY <1>1, <2>1, SavedReview
  <2> QED BY <2>1, <2>2, KindsOfRows DEF Follows, Sound
<1>2. CASE c \in UpdateDocumentCommand \cup PublishDocumentVersionCommand
  <2>1. RowOf(c.on) = DocumentRow
    BY <1>2, CommandsOn
  <2>2. /\ Saved(row, v) \in DocumentRow
        /\ Saved(row, v).version = row.version + 1
        /\ row.versions \subseteq Saved(row, v).versions
        /\ \A x \in Saved(row, v).versions :
                x \in row.versions \/ (x.by = q /\ x.number = w.version + 1)
    BY <1>2, <2>1, SavedChange
  <2>3. row.kind = "document" /\ Saved(row, v).kind = "document" /\ w.kind = "document"
        /\ row.version \in Nat /\ w.version \in Nat /\ w.version <= row.version
    BY <2>1, <2>2, KindsOfRows DEF DocumentRow, Behind
  <2>4. \A x \in Saved(row, v).versions : x.number <= row.version + 1
    <3>1. \A x \in row.versions : x.number \in Nat /\ x.number <= row.version
      BY <2>1, <2>3 DEF Sound, DocumentRow, Version
    <3> QED BY <2>2, <2>3, <3>1
  <2> QED BY <2>1, <2>2, <2>3, <2>4 DEF Follows, Sound
<1>3. CASE c \in SubmitFormCommand
  <2>1. RowOf(c.on) = FormRow
    BY <1>3, CommandsOn
  <2>2. Saved(row, v) \in FormRow /\ row.submissions \subseteq Saved(row, v).submissions
    BY <1>3, <2>1, SavedSubmission
  <2> QED BY <2>1, <2>2, KindsOfRows DEF Follows, Sound
<1>4. CASE c \in DeleteTaskCommand
  <2>1. RowOf(c.on) = TaskRow
    BY <1>4, CommandsOn
  <2>2. Saved(row, v) \in TaskRow
    BY <1>4, <2>1, SavedDeletion
  <2> QED BY <2>1, <2>2, KindsOfRows DEF Follows, Sound
<1> QED BY <1>1, <1>2, <1>3, <1>4 DEF ChangingCommand

-----------------------------------------------------------------------------
(* The inductive invariant.                                                *)

\* the parts of the type invariant that the requests rest on
Domains ==
    /\ table \in [Object -> AnyRow]
    /\ pc \in [Request -> {"idle", "find", "save", "done"}]
    /\ op \in [Request -> Command \cup {NoCommand}]
    /\ loaded \in [Request -> AnyRow]

\* Every row fits its table and is sound.
Fits == \A o \in Object : table[o] = NoRow \/ (table[o] \in RowOf(o) /\ Sound(table[o]))

\* What a request holds at each await: a record that it made, or one that it
\* found, whose row has moved on at most.
Holds(q) ==
    /\ pc[q] \in {"idle", "done"} => op[q] = NoCommand
    /\ pc[q] = "find" => op[q] \in AskingCommand
    /\ pc[q] = "save" => op[q] \in Command
    /\ pc[q] = "save" /\ op[q] \in MakingCommand => loaded[q] \in RowOf(op[q].on) /\ Sound(loaded[q])
    /\ pc[q] = "save" /\ op[q] \in ChangingCommand =>
           /\ loaded[q] \in RowOf(op[q].on) /\ Sound(loaded[q])
           /\ table[op[q].on] # NoRow
           /\ Behind(loaded[q], table[op[q].on])

\* A new identifier has no row yet and is that of one request.
IdsAreNew ==
    \A q \in Request : Creates(op[q]) =>
        /\ table[op[q].on] = NoRow
        /\ \A r \in Request : r # q /\ Creates(op[r]) => op[r].on # op[q].on

RecordsInv == Domains /\ Fits /\ (\A q \in Request : Holds(q)) /\ IdsAreNew

-----------------------------------------------------------------------------
(* The kinds of steps.                                                     *)

\* a request makes a record and is about to save it
Starts(q) == \E c, w : MadeBy(c, w) /\ Makes(q, c, w)

\* a request has found the record w that it works on
Takes(q, w) ==
    /\ pc[q] = "find" /\ w \in Found(op[q])
    /\ loaded' = [loaded EXCEPT ![q] = w]
    /\ pc' = [pc EXCEPT ![q] = "save"]
    /\ UNCHANGED <<op, table, outbox, raised, met, projection>>

\* a request ends, without a commit or with one
Quits(q) == End(q) /\ UNCHANGED <<table, outbox, raised, met, projection>>
Commits(q) == pc[q] = "save" /\ Commit(q) /\ End(q) /\ UNCHANGED <<met, projection>>

\* Every step is one of these.
LEMMA StepKinds ==
    ASSUME [Next]_vars
    PROVE \/ UNCHANGED records
          \/ \E q \in Request :
                \/ Starts(q) \/ Receive(q) \/ Quits(q) \/ Commits(q)
                \/ \E w : Takes(q, w)
<1>1. CASE UNCHANGED vars
  BY <1>1 DEF vars
<1>2. ASSUME NEW q \in Request, CreateApproval(q) PROVE Starts(q)
  BY <1>2, NewRecords DEF CreateApproval, Starts
<1>3. ASSUME NEW q \in Request, CreateDocument(q) PROVE Starts(q)
  BY <1>3, NewRecords DEF CreateDocument, Starts
<1>4. ASSUME NEW q \in Request, CreateForm(q) PROVE Starts(q)
  BY <1>4, NewRecords DEF CreateForm, Starts
<1>5. ASSUME NEW q \in Request, CreateTask(q) PROVE Starts(q)
  BY <1>5, NewRecords DEF CreateTask, Starts
<1>6. ASSUME NEW q \in Request, CreateMeeting(q) PROVE Starts(q)
  BY <1>6, NewRecords DEF CreateMeeting, Starts
<1>7. ASSUME NEW q \in Request, CreateOrganization(q) PROVE Starts(q)
  BY <1>7, NewRecords DEF CreateOrganization, Starts
<1>8. ASSUME NEW q \in Request, ConfirmUpload(q) PROVE Starts(q)
  BY <1>8, NewRecords DEF ConfirmUpload, Starts
<1>9. ASSUME NEW q \in Request, Find(q) PROVE Quits(q) \/ \E w : Takes(q, w)
  BY <1>9 DEF Find, Quits, Takes
<1>10. ASSUME NEW q \in Request, Save(q) PROVE Commits(q)
  BY <1>10 DEF Save, Commits
<1>11. ASSUME NEW q \in Request, Throws(q) PROVE Quits(q) \/ Commits(q)
  BY <1>11 DEF Throws, Quits, Commits
<1>12. ASSUME NEW q \in Request, Deliver(q) PROVE UNCHANGED records
  BY <1>12 DEF Deliver
<1> QED BY <1>1, <1>2, <1>3, <1>4, <1>5, <1>6, <1>7, <1>8, <1>9, <1>10, <1>11, <1>12 DEF Next

\* What a request finds is a row that fits; a changing command finds its own.
LEMMA FoundRows ==
    ASSUME RecordsInv, NEW c \in AskingCommand, NEW w \in Found(c)
    PROVE /\ w \in AnyRow
          /\ c \in ChangingCommand =>
                w = table[c.on] /\ w \in RowOf(c.on) /\ w # NoRow /\ Sound(w)
<1>1. ASSUME w = table[c.on], c.on \in Object, w \in RowOf(c.on)
      PROVE w \in AnyRow /\ w # NoRow /\ Sound(w)
  BY <1>1, RowsAreRows DEF RecordsInv, Fits
<1>2. CASE c \in ProcessApprovalCommand
  <2>1. c.on \in Approval /\ c.on \in Object
    BY <1>2, Objects DEF ProcessApprovalCommand
  <2>2. c.on \notin Document \cup Form \cup Task \cup Comment
    BY <2>1, Apart
  <2>3. w = table[c.on] /\ w \in ApprovalRow
    BY <2>1, <2>2 DEF Found, FindApproval
  <2>4. w \in RowOf(c.on)
    BY <2>1, <2>3, RowsOf
  <2> QED BY <2>1, <2>3, <2>4, <1>1
<1>3. CASE c \in UpdateDocumentCommand \cup PublishDocumentVersionCommand
  <2>1. c.on \in Document /\ c.on \in Object
    BY <1>3, Objects DEF UpdateDocumentCommand, PublishDocumentVersionCommand
  <2>2. c.on \notin Approval \cup Form \cup Task \cup Comment
    BY <2>1, Apart
  <2>3. w = table[c.on] /\ w \in DocumentRow
    BY <2>1, <2>2 DEF Found, FindDocument
  <2>4. w \in RowOf(c.on)
    BY <2>1, <2>3, RowsOf
  <2> QED BY <2>1, <2>3, <2>4, <1>1
<1>4. CASE c \in SubmitFormCommand
  <2>1. c.on \in Form /\ c.on \in Object
    BY <1>4, Objects DEF SubmitFormCommand
  <2>2. c.on \notin Approval \cup Document \cup Task \cup Comment
    BY <2>1, Apart
  <2>3. w = table[c.on] /\ w \in FormRow
    BY <2>1, <2>2 DEF Found, FindForm
  <2>4. w \in RowOf(c.on)
    BY <2>1, <2>3, RowsOf
  <2> QED BY <2>1, <2>3, <2>4, <1>1
<1>5. CASE c \in DeleteTaskCommand
  <2>1. c.on \in Task /\ c.on \in Object
    BY <1>5, Objects DEF DeleteTaskCommand
  <2>2. c.on \notin Approval \cup Document \cup Form \cup Comment
    BY <2>1, Apart
  <2>3. w = table[c.on] /\ w \in TaskRow
    BY <2>1, <2>2 DEF Found, FindTask
  <2>4. w \in RowOf(c.on)
    BY <2>1, <2>3, RowsOf
  <2> QED BY <2>1, <2>3, <2>4, <1>1
<1>6. CASE c \in AddCommentCommand
  <2>1. c.on \in Comment
    BY <1>6 DEF AddCommentCommand
  <2>2. /\ c.on \notin Approval /\ c.on \notin Document /\ c.on \notin Form
        /\ c.on \notin Task
    BY <2>1, Apart
  <2>3. w \in TaskRow
    BY <2>1, <2>2 DEF Found, FindTaskOfComment
  <2>4. c \notin ChangingCommand
    BY <1>6, KindsOfCommands
  <2> QED BY <2>3, <2>4 DEF AnyRow
<1> QED BY <1>2, <1>3, <1>4, <1>5, <1>6 DEF AskingCommand

\* A commit inserts a sound row, or leaves one that follows the row before.
LEMMA CommitRow ==
    ASSUME RecordsInv, NEW q \in Request, pc[q] = "save", Commit(q)
    PROVE \E v \in RowOf(op[q].on) :
            /\ table' = [table EXCEPT ![op[q].on] = v]
            /\ Sound(v)
            /\ table[op[q].on] # NoRow => Follows(table[op[q].on], v)
<1> DEFINE c == op[q]
<1>1. Holds(q) /\ c \in Command /\ c.on \in Object
  BY CommandsOn DEF RecordsInv, Holds
<1>2. CASE c \in MakingCommand
  <2>1. table[c.on] = NoRow /\ c \notin AskingCommand
    BY <1>2, Commands DEF RecordsInv, IdsAreNew
  <2>2. table' = [table EXCEPT ![c.on] = Saved(table[c.on], loaded[q])]
    BY <2>1 DEF Commit
  <2>3. Saved(table[c.on], loaded[q]) = loaded[q]
    BY <2>1, KindsOfRows DEF Saved
  <2> QED BY <1>1, <1>2, <2>1, <2>2, <2>3 DEF Holds
<1>3. CASE c \in AddCommentCommand
  <2>1. table[c.on] = NoRow /\ c \in AskingCommand /\ c.kind = "comment"
    BY <1>3, Commands, KindsOfCommands DEF RecordsInv, IdsAreNew
  <2>2. table' = [table EXCEPT ![c.on] = Saved(table[c.on], NewComment(c))]
    BY <2>1 DEF Commit, Execute, AddComment
  <2>3. Saved(table[c.on], NewComment(c)) = NewComment(c)
    BY <2>1, KindsOfRows DEF Saved
  <2>4. NewComment(c) \in CommentRow
    BY <1>3 DEF NewComment, CommentRow, AddCommentCommand
  <2>5. RowOf(c.on) = CommentRow
    BY <1>3, CommandsOn
  <2> QED BY <2>1, <2>2, <2>3, <2>4, <2>5, KindsOfRows DEF Sound
<1>4. CASE c \in ChangingCommand
  <2>1. c \in AskingCommand
    BY <1>4, Commands
  <2>2. PICK v \in Execute(c, q, loaded[q]) : table' = [table EXCEPT ![c.on] = Saved(table[c.on], v)]
    BY <2>1 DEF Commit
  <2>3. /\ loaded[q] \in RowOf(c.on) /\ Sound(loaded[q])
        /\ table[c.on] # NoRow /\ Behind(loaded[q], table[c.on])
        /\ table[c.on] \in RowOf(c.on) /\ Sound(table[c.on])
    BY <1>1, <1>4 DEF Holds, RecordsInv, Fits
  <2>4. Saved(table[c.on], v) \in RowOf(c.on) /\ Follows(table[c.on], Saved(table[c.on], v))
    BY <1>4, <2>2, <2>3, ChangeFollows
  <2> QED BY <2>2, <2>4 DEF Follows
<1> QED BY <1>1, <1>2, <1>3, <1>4, Commands DEF Command

-----------------------------------------------------------------------------
(* The invariant is kept.                                                  *)

\* The end of a request.
LEMMA EndOf ==
    ASSUME Domains, NEW q \in Request, End(q)
    PROVE /\ pc' \in [Request -> {"idle", "find", "save", "done"}]
          /\ op' \in [Request -> Command \cup {NoCommand}]
          /\ loaded' \in [Request -> AnyRow]
          /\ pc'[q] = "done" /\ op'[q] = NoCommand
          /\ \A r \in Request : r # q => pc'[r] = pc[r] /\ op'[r] = op[r] /\ loaded'[r] = loaded[r]
<1>1. NoRow \in AnyRow
  BY DEF AnyRow
<1> QED BY <1>1 DEF Domains, End

\* A request that keeps its place holds what it held, when rows only follow
\* the rows before.
LEMMA StillHolds ==
    ASSUME Domains, NEW q \in Request, Holds(q), pc'[q] = pc[q], op'[q] = op[q], loaded'[q] = loaded[q],
           \A o \in Object : table[o] # NoRow =>
                table'[o] = table[o] \/ (table'[o] \in RowOf(o) /\ Follows(table[o], table'[o])),
           \A o \in Object : table[o] # NoRow => table[o] \in RowOf(o)
    PROVE Holds(q)'
<1> SUFFICES ASSUME pc[q] = "save", op[q] \in ChangingCommand
             PROVE table'[op[q].on] # NoRow /\ Behind(loaded[q], table'[op[q].on])
  BY DEF Holds, Behind
<1> DEFINE o == op[q].on
<1>1. /\ o \in Object /\ loaded[q] \in RowOf(o) /\ table[o] \in RowOf(o)
      /\ table[o] # NoRow /\ Behind(loaded[q], table[o])
  BY CommandsOn DEF Holds
<1>2. CASE table'[o] = table[o]
  BY <1>1, <1>2
<1>3. CASE table'[o] \in RowOf(o) /\ Follows(table[o], table'[o])
  <2>1. ASSUME loaded[q].kind = "document"
        PROVE loaded[q].versions \subseteq table'[o].versions /\ loaded[q].version <= table'[o].version
    <3>1. op[q] \in UpdateDocumentCommand \cup PublishDocumentVersionCommand
      <4>1. ASSUME op[q] \in ProcessApprovalCommand \cup SubmitFormCommand \cup DeleteTaskCommand
            PROVE loaded[q].kind # "document"
        BY <1>1, <4>1, CommandsOn, KindsOfRows
      <4> QED BY <2>1, <4>1 DEF ChangingCommand
    <3>2. loaded[q] \in DocumentRow /\ table[o] \in DocumentRow
      BY <1>1, <3>1, CommandsOn
    <3>3. /\ loaded[q].versions \subseteq table[o].versions
          /\ loaded[q].version <= table[o].version /\ loaded[q].version \in Nat
          /\ table[o].version \in Nat /\ table[o].kind = "document"
      BY <1>1, <2>1, <3>2, KindsOfRows DEF Behind, DocumentRow
    <3>4. table[o].versions \subseteq table'[o].versions /\ table[o].version <= table'[o].version
      BY <1>3, <3>3 DEF Follows
    <3>5. table'[o].version \in Nat
      <4>1. table'[o] \in DocumentRow
        BY <1>3, <3>1, CommandsOn
      <4> QED BY <4>1 DEF DocumentRow
    <3> QED BY <3>3, <3>4, <3>5
  <2> QED BY <1>1, <1>3, <2>1, RowsAreRows DEF Behind
<1> QED BY <1>1, <1>2, <1>3

\* Steps that leave the table alone.
LEMMA QuietKeeps ==
    ASSUME RecordsInv, UNCHANGED table, NEW q \in Request,
           \A r \in Request : r # q => pc'[r] = pc[r] /\ op'[r] = op[r] /\ loaded'[r] = loaded[r]
    PROVE /\ Fits'
          /\ \A r \in Request : r # q => Holds(r)'
<1>1. Fits'
  BY DEF RecordsInv, Fits
<1>2. ASSUME NEW r \in Request, r # q PROVE Holds(r)'
  <2>1. \A o \in Object : table[o] # NoRow => table[o] \in RowOf(o)
    BY DEF RecordsInv, Fits
  <2> QED BY <1>2, <2>1, StillHolds DEF RecordsInv
<1> QED BY <1>1, <1>2

\* An arriving request: a new identifier is new.
LEMMA ArrivalKeeps ==
    ASSUME RecordsInv, NEW q \in Request, NEW c \in Command, Arrives(q, c)
    PROVE /\ op' \in [Request -> Command \cup {NoCommand}] /\ op'[q] = c
          /\ \A r \in Request : r # q => op'[r] = op[r]
          /\ UNCHANGED table
          /\ IdsAreNew'
<1>1. /\ op' \in [Request -> Command \cup {NoCommand}] /\ op'[q] = c
      /\ \A r \in Request : r # q => op'[r] = op[r]
      /\ UNCHANGED table
  BY DEF Arrives, RecordsInv, Domains
<1>2. ASSUME NEW x \in Request, Creates(op'[x]) PROVE table'[op'[x].on] = NoRow
  BY <1>1, <1>2 DEF Arrives, RecordsInv, IdsAreNew
<1>3. ASSUME NEW x \in Request, Creates(op'[x]), NEW r \in Request, r # x, Creates(op'[r])
      PROVE op'[r].on # op'[x].on
  <2>1. CASE x = q
    BY <1>1, <1>3, <2>1 DEF Arrives
  <2>2. CASE r = q
    BY <1>1, <1>3, <2>2 DEF Arrives
  <2>3. CASE x # q /\ r # q
    BY <1>1, <1>3, <2>3 DEF RecordsInv, IdsAreNew
  <2> QED BY <2>1, <2>2, <2>3
<1>4. IdsAreNew'
  BY <1>2, <1>3 DEF IdsAreNew, Creates
<1> QED BY <1>1, <1>4

\* Every reachable state has the invariant.
LEMMA RecordsInvHolds == Spec => []RecordsInv
<1>1. Init => RecordsInv
  <2> SUFFICES ASSUME Init PROVE RecordsInv
    OBVIOUS
  <2>1. Domains
    BY DEF Init, Domains, AnyRow
  <2>2. Fits
    BY DEF Init, Fits
  <2>3. \A q \in Request : Holds(q)
    BY DEF Init, Holds
  <2>4. IdsAreNew
    BY Commands DEF Init, IdsAreNew
  <2> QED BY <2>1, <2>2, <2>3, <2>4 DEF RecordsInv
<1>2. RecordsInv /\ [Next]_vars => RecordsInv'
  <2> SUFFICES ASSUME RecordsInv, [Next]_vars PROVE RecordsInv'
    OBVIOUS
  <2> USE DEF RecordsInv
  <2>1. CASE UNCHANGED records
    BY <2>1 DEF records, Domains, Fits, Holds, IdsAreNew, Creates
  <2>2. ASSUME NEW q \in Request, Starts(q) PROVE RecordsInv'
    <3>1. PICK c, w : MadeBy(c, w) /\ Makes(q, c, w)
      BY <2>2 DEF Starts
    <3>2. c \in MakingCommand /\ c \in Command /\ c.on \in Object /\ w \in RowOf(c.on) /\ Sound(w)
      BY <3>1, CommandsOn DEF MadeBy, Command
    <3>3. /\ op' \in [Request -> Command \cup {NoCommand}] /\ op'[q] = c
          /\ \A r \in Request : r # q => op'[r] = op[r]
          /\ UNCHANGED table /\ IdsAreNew'
      BY <3>1, <3>2, ArrivalKeeps DEF Makes
    <3>4. w \in AnyRow
      BY <3>2, RowsAreRows
    <3>5. /\ pc' \in [Request -> {"idle", "find", "save", "done"}] /\ loaded' \in [Request -> AnyRow]
          /\ pc'[q] = "save" /\ loaded'[q] = w
          /\ \A r \in Request : r # q => pc'[r] = pc[r] /\ loaded'[r] = loaded[r]
      BY <3>1, <3>4 DEF Makes, Domains
    <3>6. Fits' /\ \A r \in Request : r # q => Holds(r)'
      BY <3>3, <3>5, QuietKeeps
    <3>7. c \notin ChangingCommand
      BY <3>2, Commands
    <3>8. Holds(q)'
      BY <3>2, <3>3, <3>5, <3>7 DEF Holds
    <3>9. Domains'
      BY <3>3, <3>5 DEF Domains
    <3> QED BY <3>3, <3>6, <3>8, <3>9
  <2>3. ASSUME NEW q \in Request, Receive(q) PROVE RecordsInv'
    <3>1. PICK c \in AskingCommand : Arrives(q, c) /\ pc' = [pc EXCEPT ![q] = "find"] /\ UNCHANGED loaded
      BY <2>3 DEF Receive
    <3>2. c \in Command
      BY DEF Command
    <3>3. /\ op' \in [Request -> Command \cup {NoCommand}] /\ op'[q] = c
          /\ \A r \in Request : r # q => op'[r] = op[r]
          /\ UNCHANGED table /\ IdsAreNew'
      BY <3>1, <3>2, ArrivalKeeps
    <3>4. /\ pc' \in [Request -> {"idle", "find", "save", "done"}] /\ pc'[q] = "find"
          /\ \A r \in Request : r # q => pc'[r] = pc[r]
      BY <3>1 DEF Domains
    <3>5. Fits' /\ \A r \in Request : r # q => Holds(r)'
      BY <3>1, <3>3, <3>4, QuietKeeps
    <3>6. Holds(q)'
      BY <3>3, <3>4 DEF Holds
    <3>7. Domains'
      BY <3>1, <3>3, <3>4 DEF Domains
    <3> QED BY <3>3, <3>5, <3>6, <3>7
  <2>4. ASSUME NEW q \in Request, NEW w, Takes(q, w) PROVE RecordsInv'
    <3>1. Holds(q) /\ pc[q] = "find" /\ op[q] \in AskingCommand /\ w \in Found(op[q])
      BY <2>4 DEF Takes, Holds
    <3>2. /\ w \in AnyRow
          /\ op[q] \in ChangingCommand =>
                w = table[op[q].on] /\ w \in RowOf(op[q].on) /\ w # NoRow /\ Sound(w)
      BY <3>1, FoundRows
    <3>3. /\ pc' \in [Request -> {"idle", "find", "save", "done"}] /\ loaded' \in [Request -> AnyRow]
          /\ pc'[q] = "save" /\ loaded'[q] = w /\ UNCHANGED <<op, table>>
          /\ \A r \in Request : r # q => pc'[r] = pc[r] /\ loaded'[r] = loaded[r]
      BY <2>4, <3>2 DEF Takes, Domains
    <3>4. Fits' /\ \A r \in Request : r # q => Holds(r)'
      BY <3>3, QuietKeeps
    <3>5. op[q] \in ChangingCommand => Behind(w, w)
      <4> SUFFICES ASSUME op[q] \in ChangingCommand, w.kind = "document" PROVE w.version <= w.version
        BY DEF Behind
      <4>1. w.version \in Nat
        <5>1. w \in DocumentRow
          BY <3>2, KindsOfRows DEF AnyRow, NoRow
        <5> QED BY <5>1 DEF DocumentRow
      <4> QED BY <4>1
    <3>6. Holds(q)'
      <4>1. op[q] \in Command /\ op[q] \notin MakingCommand
        BY <3>1, Commands DEF Command
      <4> QED BY <3>2, <3>3, <3>5, <4>1 DEF Holds
    <3>7. Domains' /\ IdsAreNew'
      BY <3>3 DEF Domains, IdsAreNew, Creates
    <3> QED BY <3>4, <3>6, <3>7
  <2>5. ASSUME NEW q \in Request, Quits(q) PROVE RecordsInv'
    <3>1. /\ pc' \in [Request -> {"idle", "find", "save", "done"}]
          /\ op' \in [Request -> Command \cup {NoCommand}]
          /\ loaded' \in [Request -> AnyRow]
          /\ pc'[q] = "done" /\ op'[q] = NoCommand
          /\ \A r \in Request : r # q => pc'[r] = pc[r] /\ op'[r] = op[r] /\ loaded'[r] = loaded[r]
      BY <2>5, EndOf DEF Quits
    <3>2. UNCHANGED table
      BY <2>5 DEF Quits
    <3>3. Fits' /\ \A r \in Request : r # q => Holds(r)'
      BY <3>1, <3>2, QuietKeeps
    <3>4. Holds(q)'
      BY <3>1 DEF Holds
    <3>5. Domains'
      BY <3>1, <3>2 DEF Domains
    <3>6. IdsAreNew'
      BY <3>1, <3>2, Commands DEF IdsAreNew, Creates
    <3> QED BY <3>3, <3>4, <3>5, <3>6
  <2>6. ASSUME NEW q \in Request, Commits(q) PROVE RecordsInv'
    <3>1. /\ pc' \in [Request -> {"idle", "find", "save", "done"}]
          /\ op' \in [Request -> Command \cup {NoCommand}]
          /\ loaded' \in [Request -> AnyRow]
          /\ pc'[q] = "done" /\ op'[q] = NoCommand
          /\ \A r \in Request : r # q => pc'[r] = pc[r] /\ op'[r] = op[r] /\ loaded'[r] = loaded[r]
      BY <2>6, EndOf DEF Commits
    <3>2. op[q] \in Command /\ op[q].on \in Object
      BY <2>6, CommandsOn DEF Commits, Holds
    <3>3. PICK v \in RowOf(op[q].on) :
            /\ table' = [table EXCEPT ![op[q].on] = v]
            /\ Sound(v)
            /\ table[op[q].on] # NoRow => Follows(table[op[q].on], v)
      BY <2>6, CommitRow DEF Commits
    <3> DEFINE o == op[q].on
    <3>4. /\ v \in AnyRow /\ v # NoRow
          /\ table' \in [Object -> AnyRow]
          /\ table'[o] = v
          /\ \A x \in Object : x # o => table'[x] = table[x]
      BY <3>2, <3>3, RowsAreRows DEF Domains
    <3>5. Fits'
      BY <3>3, <3>4 DEF Fits
    <3>6. ASSUME NEW r \in Request, r # q PROVE Holds(r)'
      <4>1. \A x \in Object : table[x] # NoRow =>
                table'[x] = table[x] \/ (table'[x] \in RowOf(x) /\ Follows(table[x], table'[x]))
        BY <3>3, <3>4
      <4>2. \A x \in Object : table[x] # NoRow => table[x] \in RowOf(x)
        BY DEF Fits
      <4> QED BY <3>1, <3>6, <4>1, <4>2, StillHolds
    <3>7. Holds(q)'
      BY <3>1 DEF Holds
    <3>8. IdsAreNew'
      <4>1. ASSUME NEW r \in Request, r # q, Creates(op[r]) PROVE op[r].on # o /\ op[r].on \in Object
        <5>1. table[op[r].on] = NoRow /\ op[r] \in Command
          BY <4>1, Commands DEF IdsAreNew, Domains
        <5>2. CASE Creates(op[q])
          BY <4>1, <5>1, <5>2, CommandsOn DEF IdsAreNew
        <5>3. CASE ~Creates(op[q])
          <6>1. op[q] \in ChangingCommand
            BY <3>2, <5>3, Commands DEF Command
          <6>2. table[o] # NoRow
            BY <2>6, <6>1 DEF Commits, Holds
          <6> QED BY <5>1, <6>2, CommandsOn
        <5> QED BY <5>2, <5>3
      <4>2. \A r \in Request : Creates(op'[r]) => r # q /\ op'[r] = op[r]
        BY <3>1, Commands
      <4>3. \A r \in Request : Creates(op'[r]) =>
                /\ table'[op'[r].on] = NoRow
                /\ \A x \in Request : x # r /\ Creates(op'[x]) => op'[x].on # op'[r].on
        BY <3>4, <4>1, <4>2 DEF IdsAreNew
      <4> QED BY <4>3 DEF IdsAreNew, Creates
    <3>9. Domains'
      BY <3>1, <3>4 DEF Domains
    <3> QED BY <3>5, <3>6, <3>7, <3>8, <3>9
  <2> QED BY <2>1, <2>2, <2>3, <2>4, <2>5, <2>6, StepKinds
<1> QED BY <1>1, <1>2, PTL DEF Spec

-----------------------------------------------------------------------------
(* Types.                                                                  *)

\* the parts of the type invariant that the projection rests on
Counts ==
    /\ outbox \subseteq Request
    /\ raised \in [Request -> Registered \cup {"none", "TaskCreatedEvent"}]
    /\ handled \in [Request -> Nat] /\ delivered \in [Request -> 0..MaxDeliveries]
    /\ analytics = {} \/ \E row \in [Counter -> Int] : analytics = {row}
    /\ met \subseteq SUBSET Request

\* The row of the projection stays one row of integers.
LEMMA CountedOnce ==
    ASSUME NEW type, analytics = {} \/ \E row \in [Counter -> Int] : analytics = {row}
    PROVE \E row \in [Counter -> Int] : Counted(type) = {row}
<1>1. \A k : Delta(type, k) \in Int
  BY DEF Delta
<1>2. CASE analytics = {}
  <2> DEFINE row == [k \in Counter |-> IF Delta(type, k) > 0 THEN Delta(type, k) ELSE 0]
  <2>1. row \in [Counter -> Int]
    BY <1>1
  <2>2. Counted(type) = {row}
    BY <1>2 DEF Counted
  <2> QED BY <2>1, <2>2
<1>3. ASSUME NEW old \in [Counter -> Int], analytics = {old}
      PROVE \E row \in [Counter -> Int] : Counted(type) = {row}
  <2> DEFINE row == [k \in Counter |-> old[k] + Delta(type, k)]
  <2>1. row \in [Counter -> Int]
    BY <1>1
  <2>2. Counted(type) = {row}
    BY <1>3 DEF Counted
  <2> QED BY <2>1, <2>2
<1> QED BY <1>2, <1>3

\* A commit stores at most one event, of a type that save stores.
LEMMA CommitCounts ==
    ASSUME Counts, NEW q \in Request, Commit(q)
    PROVE /\ outbox' \subseteq Request
          /\ raised' \in [Request -> Registered \cup {"none", "TaskCreatedEvent"}]
<1>1. EventOf(op[q]) \in Registered \cup {"none", "TaskCreatedEvent"}
  BY DEF EventOf, Registered
<1> QED BY <1>1 DEF Commit, Counts

\* An arrival adds pairs of requests.
LEMMA ArrivalCounts ==
    ASSUME Counts, NEW q \in Request, NEW c, Arrives(q, c)
    PROVE Counts'
<1>1. met' \subseteq SUBSET Request
  BY DEF Arrives, Counts, InFlight
<1> QED BY <1>1 DEF Arrives, Counts, projection

LEMMA CountsHold == Spec => []Counts
<1>1. Init => Counts
  BY DEF Init, Counts
<1>2. Counts /\ [Next]_vars => Counts'
  <2> SUFFICES ASSUME Counts, [Next]_vars PROVE Counts'
    OBVIOUS
  <2>1. CASE UNCHANGED vars
    BY <2>1 DEF vars, records, projection, Counts
  <2>2. ASSUME NEW q \in Request, NEW c, Arrives(q, c) PROVE Counts'
    BY <2>2, ArrivalCounts
  <2>3. ASSUME NEW q \in Request, Receive(q) PROVE Counts'
    BY <2>2, <2>3 DEF Receive
  <2>4. ASSUME NEW q \in Request, Find(q) PROVE Counts'
    BY <2>4 DEF Find, Counts, projection
  <2>5. ASSUME NEW q \in Request, Save(q) PROVE Counts'
    BY <2>5, CommitCounts DEF Save, Counts, projection
  <2>6. ASSUME NEW q \in Request, Throws(q) PROVE Counts'
    BY <2>6, CommitCounts DEF Throws, Counts, projection
  <2>7. ASSUME NEW q \in Request, Deliver(q) PROVE Counts'
    <3>1. delivered' \in [Request -> 0..MaxDeliveries]
      BY <2>7 DEF Deliver, Counts
    <3>2. analytics' = {} \/ \E row \in [Counter -> Int] : analytics' = {row}
      BY <2>7, CountedOnce DEF Deliver, Counts
    <3>3. handled' \in [Request -> Nat]
      BY <2>7 DEF Deliver, Counts
    <3> QED BY <2>7, <3>1, <3>2, <3>3 DEF Deliver, Counts, records
  <2>8. ASSUME NEW q \in Request,
               \/ CreateApproval(q) \/ CreateDocument(q) \/ CreateForm(q) \/ CreateTask(q)
               \/ CreateMeeting(q) \/ CreateOrganization(q) \/ ConfirmUpload(q)
        PROVE Counts'
    <3>1. \E c : Arrives(q, c)
      BY <2>8 DEF CreateApproval, CreateDocument, CreateForm, CreateTask, CreateMeeting,
                  CreateOrganization, ConfirmUpload, Makes
    <3> QED BY <2>2, <3>1
  <2> QED BY <2>1, <2>3, <2>4, <2>5, <2>6, <2>7, <2>8 DEF Next
<1> QED BY <1>1, <1>2, PTL DEF Spec

\* Every state of every behaviour has the types that the model declares.
THEOREM TypeCorrect == Spec => []TypeOK
<1>1. Domains /\ Counts => TypeOK
  <2> SUFFICES ASSUME Counts PROVE analytics \subseteq [Counter -> Int] /\ Cardinality(analytics) <= 1
    BY DEF Domains, Counts, TypeOK
  <2>1. CASE analytics = {}
    BY <2>1, FS_EmptySet
  <2>2. ASSUME NEW row \in [Counter -> Int], analytics = {row}
        PROVE analytics \subseteq [Counter -> Int] /\ Cardinality(analytics) <= 1
    <3>1. Cardinality({row}) = 1
      BY FS_Singleton, Zenon
    <3>2. Cardinality(analytics) = 1
      BY <2>2, <3>1, Zenon
    <3> QED BY <2>2, <3>2
  <2> QED BY <2>1, <2>2 DEF Counts
<1> QED BY <1>1, RecordsInvHolds, CountsHold, PTL DEF RecordsInv

-----------------------------------------------------------------------------
(* Approvals.                                                              *)

\* The status of an approval always follows its steps, whoever reviews at the
\* same time: every save writes both from one copy that agreed.
THEOREM StatusFollows == Spec => []StatusFollowsSteps
<1>1. RecordsInv => StatusFollowsSteps
  <2> SUFFICES ASSUME RecordsInv, NEW a \in Approval, Is(table[a], "approval") PROVE Agrees(table[a])
    BY DEF StatusFollowsSteps, Agrees
  <2>1. a \in Object /\ table[a] # NoRow
    BY Objects, KindsOfRows DEF Is
  <2> QED BY <2>1 DEF RecordsInv, Fits, Sound, Is
<1> QED BY <1>1, RecordsInvHolds, PTL

\* A row is written by the commit of a request for its object only.
LEMMA OnlyCommitsWrite ==
    ASSUME RecordsInv, [Next]_vars, NEW o \in Object
    PROVE table'[o] = table[o] \/ \E q \in Request : Commits(q) /\ op[q].on = o
<1>1. CASE UNCHANGED records
  BY <1>1 DEF records
<1>2. ASSUME NEW q \in Request, Starts(q) \/ Receive(q) \/ Quits(q) \/ \E w : Takes(q, w)
      PROVE table'[o] = table[o]
  BY <1>2 DEF Starts, Makes, Receive, Arrives, Quits, Takes
<1>3. ASSUME NEW q \in Request, Commits(q), op[q].on # o PROVE table'[o] = table[o]
  <2>1. PICK v : table' = [table EXCEPT ![op[q].on] = v]
    BY <1>3, CommitRow DEF Commits
  <2> QED BY <1>3, <2>1 DEF RecordsInv, Domains
<1> QED BY <1>1, <1>2, <1>3, StepKinds

\* A decision stands unless a copy read before it is saved: a reviewer whose
\* copy is the row finds it undecided, and leaves the decided steps alone.
THEOREM DecisionsStand == Spec => DecisionsAreFinal
<1>1. RecordsInv /\ [Next]_vars =>
        \A a \in Approval :
          Is(table[a], "approval") /\ ~(\E q \in Request : SavesStale(q, a)) =>
              /\ table[a].status # "PENDING" => table'[a].status = table[a].status
              /\ \A i \in DOMAIN table[a].steps :
                     table[a].steps[i].status # "PENDING" =>
                         table'[a].steps[i] = table[a].steps[i]
  <2> SUFFICES ASSUME RecordsInv, [Next]_vars, NEW a \in Approval, Is(table[a], "approval"),
                      ~(\E q \in Request : SavesStale(q, a)), table'[a] # table[a]
               PROVE /\ table[a].status = "PENDING"
                     /\ \A i \in DOMAIN table[a].steps :
                            table[a].steps[i].status # "PENDING" =>
                                table'[a].steps[i] = table[a].steps[i]
    OBVIOUS
  <2>1. a \in Object /\ table[a] # NoRow /\ RowOf(a) = ApprovalRow
    BY Objects, KindsOfRows, RowsOf DEF Is
  <2>2. table[a] \in ApprovalRow /\ Agrees(table[a])
    BY <2>1 DEF RecordsInv, Fits, Sound, Is
  <2>3. PICK q \in Request : Commits(q) /\ op[q].on = a
    BY <2>1, OnlyCommitsWrite
  <2>4. pc[q] = "save" /\ pc'[q] = "done" /\ op[q] \in Command /\ Holds(q)
    BY <2>3, EndOf DEF Commits, RecordsInv, Holds
  <2>5. ~Creates(op[q])
    BY <2>1, <2>3 DEF RecordsInv, IdsAreNew
  <2>6. loaded[q] = table[a]
    BY <2>3, <2>4, <2>5 DEF SavesStale
  <2>7. op[q] \in ProcessApprovalCommand /\ op[q] \in AskingCommand
    <3>1. op[q] \in ChangingCommand
      BY <2>4, <2>5, Commands DEF Command
    <3>2. op[q] \notin UpdateDocumentCommand \cup PublishDocumentVersionCommand
      BY <2>1, <2>2, <2>3, CommandsOn, KindsOfRows
    <3>3. op[q] \notin SubmitFormCommand /\ op[q] \notin DeleteTaskCommand
      BY <2>1, <2>2, <2>3, CommandsOn, KindsOfRows
    <3> QED BY <3>1, <3>2, <3>3, Commands DEF ChangingCommand
  <2>8. PICK v \in Execute(op[q], q, table[a]) : table' = [table EXCEPT ![a] = Saved(table[a], v)]
    BY <2>3, <2>6, <2>7 DEF Commits, Commit
  <2>9. table'[a] = Saved(table[a], v)
    BY <2>1, <2>8 DEF RecordsInv, Domains
  <2>10. v \in ProcessApproval(op[q], table[a]) /\ Saved(table[a], v).steps = v.steps
    BY <2>2, <2>7, SavedReview
  <2> QED BY <2>2, <2>7, <2>9, <2>10, Reviewed
<1> QED BY <1>1, RecordsInvHolds, PTL DEF Spec, DecisionsAreFinal

-----------------------------------------------------------------------------
(* Documents and forms.                                                    *)

\* Versions and submissions are never lost, whatever copies are saved later,
\* and an object stays what it is.
THEOREM PublishedStays == Spec => NothingPublishedIsLost
<1>1. RecordsInv /\ [Next]_vars =>
        \A o \in Object :
          /\ Is(table[o], "none") \/ table'[o].kind = table[o].kind
          /\ Is(table[o], "document") => table[o].versions \subseteq table'[o].versions
          /\ Is(table[o], "form") => table[o].submissions \subseteq table'[o].submissions
  <2> SUFFICES ASSUME RecordsInv, [Next]_vars, NEW o \in Object, table'[o] # table[o]
               PROVE /\ Is(table[o], "none") \/ table'[o].kind = table[o].kind
                     /\ Is(table[o], "document") => table[o].versions \subseteq table'[o].versions
                     /\ Is(table[o], "form") => table[o].submissions \subseteq table'[o].submissions
    OBVIOUS
  <2>1. CASE table[o] = NoRow
    BY <2>1, KindsOfRows DEF Is
  <2>2. CASE table[o] # NoRow
    <3>1. PICK q \in Request : Commits(q) /\ op[q].on = o
      BY OnlyCommitsWrite
    <3>2. Follows(table[o], table'[o])
      BY <2>2, <3>1, CommitRow DEF Commits, RecordsInv, Domains
    <3> QED BY <3>2 DEF Follows, Is
  <2> QED BY <2>1, <2>2
<1> QED BY <1>1, RecordsInvHolds, PTL DEF Spec, NothingPublishedIsLost

\* requests that are in flight at the same time have met
InFlightMet == \A q, r \in InFlight : q # r => {q, r} \in met

\* A request that is about to change a document has met the requests whose
\* versions are numbered above the copy that it holds.
Numbered(q) ==
    pc[q] = "save" /\ op[q] \in ChangingCommand /\ loaded[q].kind = "document" =>
        \A x \in table[op[q].on].versions : x.number <= loaded[q].version \/ {q, x.by} \in met

\* What a commit adds to a document: versions of the request, numbered one
\* above its copy.
LEMMA CommitVersions ==
    ASSUME RecordsInv, NEW q \in Request, Commits(q), table[op[q].on].kind = "document"
    PROVE /\ op[q] \in ChangingCommand /\ loaded[q].kind = "document" /\ loaded[q].version \in Nat
          /\ \A x \in table'[op[q].on].versions \ table[op[q].on].versions :
                x.by = q /\ x.number = loaded[q].version + 1
<1> DEFINE o == op[q].on
<1>1. pc[q] = "save" /\ op[q] \in Command /\ o \in Object /\ Holds(q) /\ table[o] # NoRow
  BY CommandsOn, KindsOfRows DEF Commits, RecordsInv, Holds
<1>2. op[q] \in ChangingCommand /\ op[q] \in AskingCommand
  BY <1>1, Commands DEF RecordsInv, IdsAreNew, Command
<1>3. /\ loaded[q] \in RowOf(o) /\ table[o] \in RowOf(o) /\ Behind(loaded[q], table[o])
  BY <1>1, <1>2 DEF Holds, RecordsInv, Fits
<1>4. op[q] \in UpdateDocumentCommand \cup PublishDocumentVersionCommand
  <2>1. ASSUME op[q] \in ProcessApprovalCommand \cup SubmitFormCommand \cup DeleteTaskCommand
        PROVE table[o].kind # "document"
    BY <1>3, <2>1, CommandsOn, KindsOfRows
  <2> QED BY <1>2, <2>1 DEF ChangingCommand
<1>5. loaded[q] \in DocumentRow /\ table[o] \in DocumentRow
  BY <1>3, <1>4, CommandsOn
<1>6. PICK v \in Execute(op[q], q, loaded[q]) : table' = [table EXCEPT ![o] = Saved(table[o], v)]
  BY <1>2 DEF Commits, Commit
<1>7. table'[o] = Saved(table[o], v)
  BY <1>1, <1>6 DEF RecordsInv, Domains
<1>8. \A x \in Saved(table[o], v).versions :
        x \in table[o].versions \/ (x.by = q /\ x.number = loaded[q].version + 1)
  BY <1>3, <1>4, <1>5, <1>6, SavedChange
<1>9. loaded[q].kind = "document" /\ loaded[q].version \in Nat
  BY <1>5, KindsOfRows DEF DocumentRow
<1> QED BY <1>2, <1>7, <1>8, <1>9

\* What a step makes of the requests in flight: it adds none, or one that has
\* met them all.
LEMMA FlightOf ==
    ASSUME RecordsInv, [Next]_vars
    PROVE /\ met \subseteq met'
          /\ \/ InFlight' \subseteq InFlight
             \/ \E q \in Request : /\ InFlight' \subseteq InFlight \cup {q}
                                   /\ \A r \in InFlight : {q, r} \in met'
<1>1. CASE UNCHANGED records
  BY <1>1 DEF records, InFlight
<1>2. ASSUME NEW q \in Request, NEW c, Arrives(q, c), NEW stage, pc' = [pc EXCEPT ![q] = stage]
      PROVE /\ met \subseteq met'
            /\ InFlight' \subseteq InFlight \cup {q} /\ \A r \in InFlight : {q, r} \in met'
  BY <1>2 DEF Arrives, InFlight, RecordsInv, Domains
<1>3. ASSUME NEW q \in Request, Starts(q) \/ Receive(q)
      PROVE /\ met \subseteq met'
            /\ InFlight' \subseteq InFlight \cup {q} /\ \A r \in InFlight : {q, r} \in met'
  <2>1. \E c, stage : Arrives(q, c) /\ pc' = [pc EXCEPT ![q] = stage]
    BY <1>3 DEF Starts, Makes, Receive
  <2> QED BY <1>2, <2>1
<1>4. ASSUME NEW q \in Request, Quits(q) \/ Commits(q) \/ \E w : Takes(q, w)
      PROVE met \subseteq met' /\ InFlight' \subseteq InFlight
  BY <1>4 DEF Quits, Commits, End, Takes, InFlight, RecordsInv, Domains
<1> QED BY <1>1, <1>3, <1>4, StepKinds

\* A request that stays where it is, seen by a commit of another.
LEMMA StillNumbered ==
    ASSUME RecordsInv, InFlightMet, met \subseteq met', NEW q \in Request, Numbered(q),
           pc'[q] = pc[q], op'[q] = op[q], loaded'[q] = loaded[q],
           \/ UNCHANGED table
           \/ \E r \in Request : r # q /\ Commits(r)
    PROVE Numbered(q)'
<1> SUFFICES ASSUME pc[q] = "save", op[q] \in ChangingCommand, loaded[q].kind = "document",
                    NEW x \in table'[op[q].on].versions
             PROVE x.number <= loaded[q].version \/ {q, x.by} \in met'
  BY DEF Numbered
<1> DEFINE o == op[q].on
<1>1. CASE x \in table[o].versions
  BY <1>1 DEF Numbered
<1>2. CASE x \notin table[o].versions
  <2>1. PICK r \in Request : r # q /\ Commits(r)
    BY <1>2
  <2>2. PICK v : table' = [table EXCEPT ![op[r].on] = v]
    BY <2>1, CommitRow DEF Commits
  <2>3. o \in Object
    BY CommandsOn, Commands DEF Command
  <2>4. op[r].on = o
    BY <1>2, <2>2, <2>3 DEF RecordsInv, Domains
  <2>5. table[o].kind = "document"
    <3>1. loaded[q] \in RowOf(o) /\ table[o] \in RowOf(o)
      BY <2>3 DEF RecordsInv, Holds, Fits
    <3>2. op[q] \in UpdateDocumentCommand \cup PublishDocumentVersionCommand
      <4>1. ASSUME op[q] \in ProcessApprovalCommand \cup SubmitFormCommand \cup DeleteTaskCommand
            PROVE loaded[q].kind # "document"
        BY <3>1, <4>1, CommandsOn, KindsOfRows
      <4> QED BY <4>1 DEF ChangingCommand
    <3>3. table[o] \in DocumentRow
      BY <3>1, <3>2, CommandsOn
    <3> QED BY <3>3, KindsOfRows
  <2>6. x.by = r
    BY <1>2, <2>1, <2>4, <2>5, CommitVersions
  <2>7. q \in InFlight /\ r \in InFlight
    BY <2>1 DEF InFlight, Commits
  <2> QED BY <2>1, <2>6, <2>7 DEF InFlightMet
<1> QED BY <1>1, <1>2

\* the versions that a set of versions grows by are numbered above it
NumbersAbove(before, after) ==
    \A new \in after \ before : \A old \in before :
        {new.by, old.by} \in met \/ old.number < new.number

\* A new version has a higher number than all that the document has, those of
\* requests that were in flight at the same time excepted.
THEOREM NewestHighest == Spec => NewestIsHighest
<1> DEFINE Inv == InFlightMet /\ \A q \in Request : Numbered(q)
<1>1. Init => Inv
  BY DEF Init, InFlightMet, InFlight, Numbered
<1>2. RecordsInv /\ Inv /\ [Next]_vars => Inv'
  <2> SUFFICES ASSUME RecordsInv, Inv, [Next]_vars PROVE Inv'
    OBVIOUS
  <2>1. met \subseteq met'
    BY FlightOf
  <2>2. InFlightMet'
    <3> SUFFICES ASSUME NEW q \in InFlight', NEW r \in InFlight', q # r PROVE {q, r} \in met'
      BY DEF InFlightMet
    <3>1. {q, r} = {r, q}
      OBVIOUS
    <3> QED BY <2>1, <3>1, FlightOf DEF InFlightMet
  <2>3. CASE UNCHANGED records
    BY <2>2, <2>3 DEF records, Numbered
  <2>4. ASSUME NEW q \in Request, UNCHANGED table \/ Commits(q),
               \A r \in Request : r # q =>
                    pc'[r] = pc[r] /\ op'[r] = op[r] /\ loaded'[r] = loaded[r],
               Numbered(q)'
        PROVE \A r \in Request : Numbered(r)'
    <3> SUFFICES ASSUME NEW r \in Request, r # q PROVE Numbered(r)'
      BY <2>4
    <3> QED BY <2>1, <2>4, StillNumbered
  <2>5. ASSUME NEW q \in Request, Starts(q) PROVE \A r \in Request : Numbered(r)'
    <3>1. PICK c, w : MadeBy(c, w) /\ Makes(q, c, w)
      BY <2>5 DEF Starts
    <3>2. /\ op'[q] = c /\ c \notin ChangingCommand /\ UNCHANGED table
          /\ \A r \in Request : r # q => pc'[r] = pc[r] /\ op'[r] = op[r] /\ loaded'[r] = loaded[r]
      BY <3>1, Commands DEF MadeBy, Makes, Arrives, RecordsInv, Domains
    <3>3. Numbered(q)'
      BY <3>2 DEF Numbered
    <3> QED BY <2>4, <3>2, <3>3
  <2>6. ASSUME NEW q \in Request, Receive(q) PROVE \A r \in Request : Numbered(r)'
    <3>1. /\ pc'[q] = "find" /\ UNCHANGED table
          /\ \A r \in Request : r # q => pc'[r] = pc[r] /\ op'[r] = op[r] /\ loaded'[r] = loaded[r]
      BY <2>6 DEF Receive, Arrives, RecordsInv, Domains
    <3>2. Numbered(q)'
      BY <3>1 DEF Numbered
    <3> QED BY <2>4, <3>1, <3>2
  <2>7. ASSUME NEW q \in Request, NEW w, Takes(q, w) PROVE \A r \in Request : Numbered(r)'
    <3>1. /\ op'[q] = op[q] /\ loaded'[q] = w /\ UNCHANGED table
          /\ \A r \in Request : r # q => pc'[r] = pc[r] /\ op'[r] = op[r] /\ loaded'[r] = loaded[r]
      BY <2>7 DEF Takes, RecordsInv, Domains
    <3>2. op[q] \in AskingCommand
      BY <2>7 DEF Takes, RecordsInv, Holds
    <3>3. op[q] \in ChangingCommand => w = table[op[q].on] /\ Sound(w)
      BY <2>7, <3>2, FoundRows DEF Takes
    <3>4. Numbered(q)'
      BY <3>1, <3>3 DEF Numbered, Sound
    <3> QED BY <2>4, <3>1, <3>4
  <2>8. ASSUME NEW q \in Request, Quits(q) \/ Commits(q) PROVE \A r \in Request : Numbered(r)'
    <3>1. End(q) /\ (UNCHANGED table \/ Commits(q))
      BY <2>8 DEF Quits, Commits
    <3>2. /\ pc'[q] = "done"
          /\ \A r \in Request : r # q => pc'[r] = pc[r] /\ op'[r] = op[r] /\ loaded'[r] = loaded[r]
      BY <3>1, EndOf DEF RecordsInv
    <3>3. Numbered(q)'
      BY <3>2 DEF Numbered
    <3> QED BY <2>4, <3>1, <3>2, <3>3
  <2> QED BY <2>2, <2>3, <2>5, <2>6, <2>7, <2>8, StepKinds
<1>3. RecordsInv /\ Inv /\ [Next]_vars =>
        \A d \in Document : Is(table[d], "document") =>
            NumbersAbove(table[d].versions, table'[d].versions)
  <2> SUFFICES ASSUME RecordsInv, Inv, [Next]_vars, NEW d \in Document, Is(table[d], "document")
               PROVE NumbersAbove(table[d].versions, table'[d].versions)
    OBVIOUS
  <2> SUFFICES ASSUME NEW new \in table'[d].versions \ table[d].versions,
                      NEW old \in table[d].versions
               PROVE {new.by, old.by} \in met \/ old.number < new.number
    BY Zenon DEF NumbersAbove
  <2>0. table[d].kind = "document"
    BY DEF Is
  <2>1. d \in Object /\ table[d] # NoRow /\ RowOf(d) = DocumentRow
    BY <2>0, Objects, KindsOfRows, RowsOf
  <2>2. PICK q \in Request : Commits(q) /\ op[q].on = d
    BY <2>1, OnlyCommitsWrite
  <2>3. /\ pc[q] = "save" /\ op[q] \in ChangingCommand /\ loaded[q].kind = "document"
        /\ loaded[q].version \in Nat /\ new.by = q /\ new.number = loaded[q].version + 1
    BY <2>0, <2>2, CommitVersions DEF Commits
  <2>4. old.number <= loaded[q].version \/ {q, old.by} \in met
    BY <2>2, <2>3 DEF Numbered
  <2>5. old.number \in Nat
    <3>1. table[d] \in DocumentRow
      BY <2>1 DEF RecordsInv, Fits
    <3> QED BY <3>1 DEF DocumentRow, Version
  <2> QED BY <2>3, <2>4, <2>5
<1> QED BY <1>1, <1>2, <1>3, RecordsInvHolds, PTL DEF Spec, NewestIsHighest, NumbersAbove

-----------------------------------------------------------------------------
(* The counters of the projection.                                         *)

\* the event that tells of a record of a kind
Telling(kind) ==
    IF kind = "approval" THEN "ApprovalCreatedEvent"
    ELSE IF kind = "document" THEN "DocumentCreatedEvent"
    ELSE IF kind = "form" THEN "FormCreatedEvent" ELSE "CommentCreatedEvent"

Counted4 == {"approval", "document", "form", "comment"}

\* What an event adds to the counter of a kind.
LEMMA DeltaOf ==
    /\ DOMAIN CounterOf = Counted4
    /\ \A kind \in Counted4 :
          /\ CounterOf[kind] \in Counter /\ CounterOf[kind] # "totalTasks"
          /\ \A type : Delta(type, CounterOf[kind]) = IF type = Telling(kind) THEN 1 ELSE 0
    /\ \A type : Delta(type, "totalTasks") = IF type = "TaskDeletedEvent" THEN -1 ELSE 0
<1>1. DOMAIN CounterOf = Counted4
  BY DEF CounterOf, Counted4
<1>2. /\ CounterOf["approval"] = "totalApprovals" /\ CounterOf["document"] = "totalDocuments"
      /\ CounterOf["form"] = "totalForms" /\ CounterOf["comment"] = "totalComments"
  BY DEF CounterOf
<1>3. ASSUME NEW kind \in Counted4
      PROVE  /\ CounterOf[kind] \in Counter /\ CounterOf[kind] # "totalTasks"
             /\ \A type : Delta(type, CounterOf[kind]) = IF type = Telling(kind) THEN 1 ELSE 0
  BY <1>2 DEF Counted4, Counter, Delta, Telling
<1>4. \A type : Delta(type, "totalTasks") = IF type = "TaskDeletedEvent" THEN -1 ELSE 0
  BY DEF Delta
<1> QED BY <1>1, <1>3, <1>4

\* A command that creates a record of a kind tells of it, and no other does.
LEMMA CreationIsTold ==
    ASSUME NEW c \in Command, NEW v \in RowOf(c.on), NEW kind \in Counted4
    PROVE  EventOf(c) = Telling(kind) <=> Creates(c) /\ v.kind = kind
<1> USE DEF Counted4, Telling, EventOf
<1>1. CASE c \in ChangingCommand
  <2>1. ~Creates(c) /\ c.kind \in {"approve", "reject", "update", "publish", "submit", "deleteTask"}
    BY <1>1, Commands, KindsOfCommands
  <2> QED BY <2>1
<1>2. CASE c \in AddCommentCommand
  <2>1. Creates(c) /\ c.kind = "comment" /\ v.kind = "comment"
    BY <1>2, Commands, KindsOfCommands, CommandsOn, KindsOfRows
  <2> QED BY <2>1
<1>3. CASE c \in MakingCommand
  <2>1. Creates(c)
    BY <1>3, Commands
  <2>2. CASE c \in CreateApprovalCommand
    <3>1. c.kind = "createApproval" /\ v.kind = "approval"
      BY <2>2, RowsOf, KindsOfRows DEF CreateApprovalCommand
    <3> QED BY <2>1, <3>1
  <2>3. CASE c \in CreateDocumentCommand
    <3>1. c.kind = "createDocument" /\ v.kind = "document"
      BY <2>3, RowsOf, KindsOfRows DEF CreateDocumentCommand
    <3> QED BY <2>1, <3>1
  <2>4. CASE c \in CreateFormCommand
    <3>1. c.kind = "createForm" /\ v.kind = "form"
      BY <2>4, RowsOf, KindsOfRows DEF CreateFormCommand
    <3> QED BY <2>1, <3>1
  <2>5. CASE c \in CreateTaskCommand
    <3>1. c.kind = "createTask" /\ v.kind = "task"
      BY <2>5, RowsOf, KindsOfRows DEF CreateTaskCommand
    <3> QED BY <2>1, <3>1
  <2>6. CASE c \in CreateMeetingCommand
    <3>1. c.kind = "createMeeting" /\ v.kind = "meeting"
      BY <2>6, RowsOf, KindsOfRows DEF CreateMeetingCommand
    <3> QED BY <2>1, <3>1
  <2>7. CASE c \in CreateOrganizationCommand
    <3>1. c.kind = "createOrganization" /\ v.kind = "organization"
      BY <2>7, RowsOf, KindsOfRows DEF CreateOrganizationCommand
    <3> QED BY <2>1, <3>1
  <2>8. CASE c \in ConfirmUploadCommand
    <3>1. c.kind = "confirmUpload" /\ v.kind = "file"
      BY <2>8, RowsOf, KindsOfRows DEF ConfirmUploadCommand
    <3> QED BY <2>1, <3>1
  <2> QED BY <1>3, <2>2, <2>3, <2>4, <2>5, <2>6, <2>7, <2>8 DEF MakingCommand
<1> QED BY <1>1, <1>2, <1>3, Commands DEF Command

\* the records of a kind, and the events that tell of them
RecordsOf(kind) == {o \in Object : Is(table[o], kind)}
Told(kind) == {q \in outbox : raised[q] = Telling(kind)}

\* A commit makes a record of a kind and tells of it, or does neither.
LEMMA CommitTells ==
    ASSUME RecordsInv, Counts, NEW q \in Request, Commits(q), q \notin outbox, NEW kind \in Counted4
    PROVE  \/ RecordsOf(kind)' = RecordsOf(kind) /\ Told(kind)' = Told(kind)
           \/ \E o \in Object \ RecordsOf(kind) :
                /\ RecordsOf(kind)' = RecordsOf(kind) \cup {o}
                /\ Told(kind)' = Told(kind) \cup {q}
<1> DEFINE c == op[q]
<1>1. c \in Command /\ c.on \in Object /\ Holds(q)
  BY CommandsOn DEF Commits, RecordsInv, Holds
<1>2. PICK v \in RowOf(c.on) :
          /\ table' = [table EXCEPT ![c.on] = v]
          /\ table[c.on] # NoRow => Follows(table[c.on], v)
  BY CommitRow DEF Commits
<1>3. table'[c.on] = v /\ \A o \in Object : o # c.on => table'[o] = table[o]
  BY <1>1, <1>2 DEF RecordsInv, Domains
<1>4. Told(kind)' = IF EventOf(c) = Telling(kind) THEN Told(kind) \cup {q} ELSE Told(kind)
  <2>1. Telling(kind) # "none"
    BY DEF Telling
  <2> QED BY <2>1 DEF Commits, Commit, Told, Counts
<1>5. CASE Creates(c)
  <2>1. table[c.on].kind = "none" /\ kind # "none"
    BY <1>5, KindsOfRows DEF RecordsInv, IdsAreNew, Counted4
  <2>2. c.on \notin RecordsOf(kind)
    BY <2>1 DEF RecordsOf, Is
  <2>3. RecordsOf(kind)' = IF v.kind = kind THEN RecordsOf(kind) \cup {c.on} ELSE RecordsOf(kind)
    BY <1>1, <1>3, <2>2 DEF RecordsOf, Is
  <2> QED BY <1>1, <1>4, <1>5, <2>2, <2>3, CreationIsTold
<1>6. CASE ~Creates(c)
  <2>1. c \in ChangingCommand
    BY <1>1, <1>6, Commands DEF Command
  <2>2. v.kind = table[c.on].kind
    BY <1>1, <1>2, <2>1 DEF Commits, Holds, Follows
  <2>3. RecordsOf(kind)' = RecordsOf(kind)
    BY <1>1, <1>3, <2>2 DEF RecordsOf, Is
  <2> QED BY <1>1, <1>4, <1>6, <2>3, CreationIsTold
<1> QED BY <1>5, <1>6

-----------------------------------------------------------------------------

\* each time that an event of Q was counted, when they were so often
HandledBy(times, Q) == UNION {{q} \X (1..times[q]) : q \in Q}

\* One handling more.
LEMMA OneMoreHandling ==
    ASSUME NEW times \in [Request -> Nat], NEW Q \in SUBSET Request, NEW q \in Request,
           IsFiniteSet(HandledBy(times, Q))
    PROVE  LET more == HandledBy([times EXCEPT ![q] = @ + 1], Q) IN
           /\ IsFiniteSet(more)
           /\ Cardinality(more) = Cardinality(HandledBy(times, Q)) + (IF q \in Q THEN 1 ELSE 0)
<1> DEFINE again == [times EXCEPT ![q] = times[q] + 1]
           n == times[q] + 1
           more == HandledBy(again, Q)
<1>1. \A r, k : <<r, k>> \in HandledBy(times, Q) <=> r \in Q /\ k \in 1..times[r]
  BY DEF HandledBy
<1>2. \A r, k : <<r, k>> \in more <=> r \in Q /\ k \in 1..again[r]
  BY DEF HandledBy
<1>3. /\ \A x \in HandledBy(times, Q) : x = <<x[1], x[2]>>
      /\ \A x \in more : x = <<x[1], x[2]>>
  BY DEF HandledBy
<1>4. \A r \in Request : again[r] = IF r = q THEN n ELSE times[r]
  OBVIOUS
<1>5. \A k : k \in 1..n <=> k \in 1..times[q] \/ k = n
  OBVIOUS
<1> HIDE DEF more, again
<1>6. CASE q \notin Q
  <2>1. more = HandledBy(times, Q)
    <3>1. \A r \in Q : again[r] = times[r]
      BY <1>4, <1>6
    <3>2. \A r, k : <<r, k>> \in more <=> <<r, k>> \in HandledBy(times, Q)
      BY <1>1, <1>2, <3>1
    <3>3. \A x : x \in more <=> x \in HandledBy(times, Q)
      <4> SUFFICES ASSUME NEW x PROVE x \in more <=> x \in HandledBy(times, Q)
        OBVIOUS
      <4>1. ASSUME x \in more PROVE x \in HandledBy(times, Q)
        <5>1. PICK r, k : x = <<r, k>>
          BY <1>3, <4>1
        <5>2. <<r, k>> \in more
          BY <4>1, <5>1
        <5>3. <<r, k>> \in HandledBy(times, Q)
          BY <3>2, <5>2
        <5> QED BY <5>1, <5>3
      <4>2. ASSUME x \in HandledBy(times, Q) PROVE x \in more
        <5>1. PICK r, k : x = <<r, k>>
          BY <1>3, <4>2
        <5>2. <<r, k>> \in HandledBy(times, Q)
          BY <4>2, <5>1
        <5>3. <<r, k>> \in more
          BY <3>2, <5>2
        <5> QED BY <5>1, <5>3
      <4> QED BY <4>1, <4>2
    <3> QED BY <3>3
  <2> QED BY <1>6, <2>1, FS_CardinalityType DEF more, again
<1>7. CASE q \in Q
  <2>1. \A r, k : <<r, k>> \in more <=> <<r, k>> \in HandledBy(times, Q) \/ (r = q /\ k = n)
    BY <1>1, <1>2, <1>4, <1>5, <1>7
  <2>2. more = HandledBy(times, Q) \cup {<<q, n>>}
    BY <1>3, <2>1
  <2>3. <<q, n>> \notin HandledBy(times, Q)
    BY <1>1
  <2>4. IsFiniteSet(more) /\ Cardinality(more) = Cardinality(HandledBy(times, Q)) + 1
    BY <2>2, <2>3, FS_AddElement
  <2> QED BY <1>7, <2>4 DEF more, again
<1> QED BY <1>6, <1>7

\* Events that were counted never.
LEMMA NotHandledYet ==
    ASSUME NEW times \in [Request -> Nat], NEW Q \in SUBSET Request, NEW q \in Request,
           times[q] = 0
    PROVE  HandledBy(times, Q \cup {q}) = HandledBy(times, Q)
<1>1. \A S \in SUBSET Request : \A x :
          x \in HandledBy(times, S) <=> \E r \in S : x \in {r} \X (1..times[r])
  BY DEF HandledBy
<1>2. {q} \X (1..times[q]) = {}
  <2>1. 1..times[q] = {}
    OBVIOUS
  <2> QED BY <2>1
<1>3. Q \cup {q} \in SUBSET Request
  OBVIOUS
<1>4. ASSUME NEW x PROVE x \in HandledBy(times, Q \cup {q}) <=> x \in HandledBy(times, Q)
  <2>1. x \in HandledBy(times, Q) <=> \E r \in Q : x \in {r} \X (1..times[r])
    BY <1>1
  <2>2. x \in HandledBy(times, Q \cup {q})
            <=> \E r \in Q \cup {q} : x \in {r} \X (1..times[r])
    BY <1>1, <1>3
  <2> QED BY <1>2, <2>1, <2>2, Zenon
<1> QED BY <1>4

\* What the counters rest on: every record of a kind was told once, every event
\* counted was committed, and the row counts the handlings.
Tallies ==
    /\ Counts
    /\ IsFiniteSet(outbox) /\ IsFiniteSet(HandledBy(handled, outbox))
    /\ \A q \in outbox : pc[q] = "done"
    /\ \A q \in Request \ outbox : handled[q] = 0
    /\ \A kind \in Counted4 :
          IsFiniteSet(RecordsOf(kind)) /\ Cardinality(RecordsOf(kind)) = Cardinality(Told(kind))
    /\ analytics = {} => \A q \in Request : handled[q] = 0
    /\ \A row \in analytics :
          /\ \A kind \in Counted4 :
                row[CounterOf[kind]] = Cardinality(HandledBy(handled, Told(kind)))
          /\ LET counted == Cardinality(HandledBy(handled, Deletions))
             IN  row["totalTasks"] \in {0 - counted, 1 - counted}

\* The handlings of some events are finitely many.
LEMMA FewHandlings ==
    ASSUME Tallies, NEW Q \in SUBSET outbox
    PROVE  IsFiniteSet(HandledBy(handled, Q)) /\ Cardinality(HandledBy(handled, Q)) \in Nat
<1>1. HandledBy(handled, Q) \subseteq HandledBy(handled, outbox)
  BY DEF HandledBy
<1> QED BY <1>1, FS_Subset, FS_CardinalityType DEF Tallies

\* A delivery counts an event in the counter of its kind.
LEMMA DeliveryTallies ==
    ASSUME RecordsInv, Tallies, Counts', NEW q \in Request, Deliver(q)
    PROVE  Tallies'
<1>1. /\ UNCHANGED <<table, pc, outbox, raised>> /\ q \in outbox
      /\ outbox \subseteq Request /\ handled \in [Request -> Nat]
      /\ \A kind : Told(kind)' = Told(kind) /\ RecordsOf(kind)' = RecordsOf(kind)
      /\ Deletions' = Deletions
  BY DEF Deliver, records, Tallies, Counts, Told, RecordsOf, Deletions
<1>2. CASE UNCHANGED <<analytics, handled>>
  BY <1>1, <1>2 DEF Tallies
<1>3. CASE /\ raised[q] \in Registered
           /\ analytics' = Counted(raised[q])
           /\ handled' = [handled EXCEPT ![q] = @ + 1]
  <2> DEFINE plus(Q) == IF q \in Q THEN 1 ELSE 0
  <2>1. \A Q \in SUBSET outbox :
          /\ IsFiniteSet(HandledBy(handled', Q))
          /\ Cardinality(HandledBy(handled', Q)) = Cardinality(HandledBy(handled, Q)) + plus(Q)
          /\ Cardinality(HandledBy(handled, Q)) \in Nat
    BY <1>1, <1>3, FewHandlings, OneMoreHandling
  <2>2. /\ Deletions \in SUBSET outbox
        /\ \A kind : Told(kind) \in SUBSET outbox
        /\ q \in Deletions <=> raised[q] = "TaskDeletedEvent"
        /\ \A kind : q \in Told(kind) <=> raised[q] = Telling(kind)
    BY <1>1 DEF Deletions, Told
  <2>3. \A kind \in Counted4 : Delta(raised[q], CounterOf[kind]) = plus(Told(kind))
    BY <2>2, DeltaOf
  <2>4. Delta(raised[q], "totalTasks") = 0 - plus(Deletions)
    BY <2>2, DeltaOf
  <2>5. "totalTasks" \in Counter /\ \A kind \in Counted4 : CounterOf[kind] \in Counter
    BY DeltaOf DEF Counter
  <2> DEFINE n(kind) == Cardinality(HandledBy(handled, Told(kind)))
             m == Cardinality(HandledBy(handled, Deletions))
  <2>6. ASSUME NEW row \in analytics'
        PROVE  /\ \A kind \in Counted4 : row[CounterOf[kind]] = n(kind) + plus(Told(kind))
               /\ row["totalTasks"] \in {0 - (m + plus(Deletions)), 1 - (m + plus(Deletions))}
    <3>1. CASE analytics = {}
      <4>1. row = [k \in Counter |-> IF Delta(raised[q], k) > 0 THEN Delta(raised[q], k) ELSE 0]
        BY <1>3, <2>6, <3>1 DEF Counted
      <4>2. \A Q \in SUBSET outbox : Cardinality(HandledBy(handled, Q)) = 0
        <5>1. \A Q \in SUBSET outbox : HandledBy(handled, Q) = {}
          BY <1>1, <3>1 DEF Tallies, HandledBy
        <5> QED BY <5>1, FS_EmptySet
      <4>3. m = 0 /\ \A kind \in Counted4 : n(kind) = 0
        BY <2>2, <4>2
      <4>4. \A Q : plus(Q) \in {0, 1}
        OBVIOUS
      <4>5. ASSUME NEW kind \in Counted4 PROVE row[CounterOf[kind]] = plus(Told(kind))
        <5>1. row[CounterOf[kind]] = IF plus(Told(kind)) > 0 THEN plus(Told(kind)) ELSE 0
          BY <2>3, <2>5, <4>1
        <5> HIDE DEF plus
        <5>2. plus(Told(kind)) \in {0, 1}
          BY <4>4
        <5> QED BY <5>1, <5>2
      <4>6. row["totalTasks"] = 0
        <5>1. row["totalTasks"] = IF 0 - plus(Deletions) > 0 THEN 0 - plus(Deletions) ELSE 0
          BY <2>4, <2>5, <4>1
        <5> HIDE DEF plus
        <5>2. plus(Deletions) \in {0, 1}
          BY <4>4
        <5> QED BY <5>1, <5>2
      <4> HIDE DEF n, m, plus
      <4>7. \A kind \in Counted4 : row[CounterOf[kind]] = n(kind) + plus(Told(kind))
        BY <4>3, <4>4, <4>5
      <4>8. row["totalTasks"] \in {0 - (m + plus(Deletions)), 1 - (m + plus(Deletions))}
        <5>1. plus(Deletions) \in {0, 1}
          BY <4>4
        <5> QED BY <4>3, <4>6, <5>1
      <4> QED BY <4>7, <4>8
    <3>2. CASE analytics # {}
      <4>1. PICK old \in analytics : row = [k \in Counter |-> old[k] + Delta(raised[q], k)]
        BY <1>3, <2>6, <3>2 DEF Counted
      <4>2. \A kind \in Counted4 : old[CounterOf[kind]] = n(kind)
        BY DEF Tallies
      <4>3. old["totalTasks"] \in {0 - m, 1 - m}
        BY DEF Tallies
      <4>4. m \in Nat /\ \A kind \in Counted4 : n(kind) \in Nat
        BY <2>1, <2>2
      <4> HIDE DEF n, m
      <4> QED BY <2>3, <2>4, <2>5, <4>1, <4>2, <4>3, <4>4
    <3> QED BY <3>1, <3>2
  <2>7. \A row \in analytics' :
          /\ \A kind \in Counted4 :
                row[CounterOf[kind]] = Cardinality(HandledBy(handled', Told(kind)))
          /\ LET counted == Cardinality(HandledBy(handled', Deletions))
             IN  row["totalTasks"] \in {0 - counted, 1 - counted}
    <3>1. \A kind : Cardinality(HandledBy(handled', Told(kind))) = n(kind) + plus(Told(kind))
      BY <2>1, <2>2
    <3>2. Cardinality(HandledBy(handled', Deletions)) = m + plus(Deletions)
      BY <2>1, <2>2
    <3> HIDE DEF n, m, plus
    <3> QED BY <2>6, <3>1, <3>2
  <2>8. analytics' # {} /\ \A r \in Request \ outbox : handled'[r] = 0
    <3>1. analytics' # {}
      <4>1. Counts
        BY DEF Tallies
      <4>2. \E row \in [Counter -> Int] : Counted(raised[q]) = {row}
        BY <4>1, CountedOnce DEF Counts
      <4> QED BY <1>3, <4>2
    <3> QED BY <1>1, <1>3, <3>1 DEF Tallies
  <2>9. IsFiniteSet(HandledBy(handled', outbox))
    BY <2>1
  <2> QED BY <1>1, <2>7, <2>8, <2>9 DEF Tallies
<1> QED BY <1>2, <1>3 DEF Deliver

\* A commit tells of the record that it makes.
LEMMA CommitTallies ==
    ASSUME RecordsInv, Tallies, Counts', NEW q \in Request, Commits(q)
    PROVE  Tallies'
<1>1. /\ UNCHANGED <<handled, analytics>> /\ outbox' \in {outbox, outbox \cup {q}}
      /\ pc[q] = "save" /\ q \notin outbox /\ outbox \subseteq Request
      /\ handled \in [Request -> Nat] /\ handled[q] = 0
      /\ IsFiniteSet(outbox)
  BY DEF Commits, Commit, projection, Tallies, Counts
<1>2. \A r \in outbox' : pc'[r] = "done"
  BY <1>1, EndOf DEF Commits, RecordsInv, Tallies
<1>3. IsFiniteSet(outbox')
  BY <1>1, FS_AddElement
<1>4. \A Q \in SUBSET Request : HandledBy(handled, Q \cup {q}) = HandledBy(handled, Q)
  BY <1>1, NotHandledYet
<1>5. HandledBy(handled, outbox') = HandledBy(handled, outbox)
  BY <1>1, <1>4
<1>6. ASSUME NEW kind \in Counted4
      PROVE  /\ IsFiniteSet(RecordsOf(kind)') /\ Cardinality(RecordsOf(kind)') = Cardinality(Told(kind)')
             /\ HandledBy(handled, Told(kind)') = HandledBy(handled, Told(kind))
  <2>1. /\ IsFiniteSet(RecordsOf(kind)) /\ Cardinality(RecordsOf(kind)) = Cardinality(Told(kind))
        /\ Told(kind) \subseteq outbox /\ Counts
    BY DEF Tallies, Told
  <2>2. CASE RecordsOf(kind)' = RecordsOf(kind) /\ Told(kind)' = Told(kind)
    BY <2>1, <2>2
  <2>3. CASE \E o \in Object \ RecordsOf(kind) :
                /\ RecordsOf(kind)' = RecordsOf(kind) \cup {o}
                /\ Told(kind)' = Told(kind) \cup {q}
    <3>1. PICK o \in Object \ RecordsOf(kind) :
                /\ RecordsOf(kind)' = RecordsOf(kind) \cup {o}
                /\ Told(kind)' = Told(kind) \cup {q}
      BY <2>3
    <3>2. IsFiniteSet(Told(kind)) /\ q \notin Told(kind)
      BY <1>1, <2>1, FS_Subset
    <3>3. IsFiniteSet(RecordsOf(kind)') /\ Cardinality(RecordsOf(kind)') = Cardinality(RecordsOf(kind)) + 1
      BY <2>1, <3>1, FS_AddElement
    <3>4. Cardinality(Told(kind)') = Cardinality(Told(kind)) + 1
      BY <3>1, <3>2, FS_AddElement
    <3>5. HandledBy(handled, Told(kind)') = HandledBy(handled, Told(kind))
      BY <1>1, <1>4, <2>1, <3>1
    <3> QED BY <2>1, <3>3, <3>4, <3>5
  <2> QED BY <1>1, <2>1, <2>2, <2>3, CommitTells
<1>7. HandledBy(handled, Deletions') = HandledBy(handled, Deletions)
  <2>1. Deletions' = Deletions \/ Deletions' = Deletions \cup {q}
    BY <1>1 DEF Commits, Commit, Deletions, Tallies, Counts
  <2>2. Deletions \in SUBSET Request
    BY <1>1 DEF Deletions
  <2> QED BY <1>4, <2>1, <2>2
<1>8. \A r \in Request \ outbox' : handled'[r] = 0
  BY <1>1 DEF Tallies
<1> QED BY <1>1, <1>2, <1>3, <1>5, <1>6, <1>7, <1>8 DEF Tallies

\* A counter of the projection is off by what was missed and what was counted
\* again.
THEOREM CountersExplained == Spec => []CountersAreExplained
<1>1. Init => Tallies
  <2> SUFFICES ASSUME Init PROVE Tallies
    OBVIOUS
  <2>1. /\ outbox = {} /\ analytics = {}
        /\ \A q \in Request : handled[q] = 0
        /\ Counts
    <3>1. Counts
      BY DeliveriesAssumption DEF Init, Counts
    <3>2. \A q \in Request : handled[q] = 0
      BY DEF Init
    <3> QED BY <3>1, <3>2 DEF Init
  <2>2. \A kind \in Counted4 : RecordsOf(kind) = {} /\ Told(kind) = {}
    BY <2>1, KindsOfRows DEF Init, RecordsOf, Told, Is, Counted4
  <2>3. HandledBy(handled, {}) = {}
    BY DEF HandledBy
  <2> QED BY <2>1, <2>2, <2>3, FS_EmptySet DEF Tallies
<1>2. RecordsInv /\ Tallies /\ Counts' /\ [Next]_vars => Tallies'
  <2> SUFFICES ASSUME RecordsInv, Tallies, Counts', [Next]_vars PROVE Tallies'
    OBVIOUS
  <2>1. ASSUME UNCHANGED <<table, outbox, raised, projection>>, \A r \in outbox : pc'[r] = "done"
        PROVE  Tallies'
    BY <2>1 DEF Tallies, projection, RecordsOf, Told, Deletions
  <2>2. ASSUME NEW q \in Request, Deliver(q) PROVE Tallies'
    BY <2>2, DeliveryTallies
  <2>3. CASE UNCHANGED projection
    <3>1. CASE UNCHANGED records
      BY <2>1, <2>3, <3>1 DEF records, Tallies
    <3>2. ASSUME NEW q \in Request, Starts(q) \/ Receive(q) PROVE Tallies'
      <4>1. UNCHANGED <<table, outbox, raised>> /\ \A r \in Request : r # q => pc'[r] = pc[r]
        BY <3>2 DEF Starts, Makes, Receive, Arrives, RecordsInv, Domains
      <4>2. pc[q] = "idle"
        BY <3>2 DEF Starts, Makes, Receive, Arrives
      <4>3. \A r \in outbox : pc'[r] = "done"
        BY <4>1, <4>2 DEF Tallies, Counts
      <4> QED BY <2>1, <2>3, <4>1, <4>3
    <3>3. ASSUME NEW q \in Request, Quits(q) PROVE Tallies'
      <4>1. \A r \in outbox : pc'[r] = "done"
        BY <3>3, EndOf DEF Quits, RecordsInv, Tallies, Counts
      <4> QED BY <2>1, <2>3, <3>3, <4>1 DEF Quits
    <3>4. ASSUME NEW q \in Request, NEW w, Takes(q, w) PROVE Tallies'
      <4>1. \A r \in outbox : pc'[r] = "done"
        BY <3>4 DEF Takes, RecordsInv, Domains, Tallies, Counts
      <4> QED BY <2>1, <2>3, <3>4, <4>1 DEF Takes
    <3> QED BY <3>1, <3>2, <3>3, <3>4, CommitTallies, StepKinds
  <2>4. UNCHANGED projection \/ \E q \in Request : Deliver(q)
    BY DEF Next, vars, CreateApproval, CreateDocument, CreateForm, CreateTask, CreateMeeting,
           CreateOrganization, ConfirmUpload, Makes, Arrives, Receive, Find, Save, Throws
  <2> QED BY <2>2, <2>3, <2>4
<1>3. RecordsInv /\ Tallies => CountersAreExplained
  <2> SUFFICES ASSUME Tallies, NEW row \in analytics
               PROVE  /\ \A kind \in DOMAIN CounterOf :
                            row[CounterOf[kind]] = Cardinality(RecordsOf(kind))
                                - Cardinality(EventsOf(kind)) + Cardinality(Handlings(EventsOf(kind)))
                      /\ LET counted == Cardinality(Handlings(Deletions))
                         IN  row["totalTasks"] \in {0 - counted, 1 - counted}
    BY DEF CountersAreExplained, RecordsOf
  <2>1. \A Q : Handlings(Q) = HandledBy(handled, Q)
    BY DEF Handlings, HandledBy
  <2>2. ASSUME NEW kind \in Counted4
        PROVE  row[CounterOf[kind]] = Cardinality(RecordsOf(kind))
                    - Cardinality(EventsOf(kind)) + Cardinality(Handlings(EventsOf(kind)))
    <3>1. EventsOf(kind) = Told(kind) /\ Told(kind) \subseteq outbox
      BY DeltaOf DEF EventsOf, Told
    <3>2. /\ row[CounterOf[kind]] = Cardinality(HandledBy(handled, Told(kind)))
          /\ Cardinality(RecordsOf(kind)) = Cardinality(Told(kind))
      BY DEF Tallies
    <3>3. Cardinality(HandledBy(handled, Told(kind))) \in Nat
      BY <3>1, FewHandlings
    <3>4. Cardinality(Told(kind)) \in Nat
      <4>1. IsFiniteSet(Told(kind))
        BY <3>1, FS_Subset DEF Tallies
      <4> QED BY <4>1, FS_CardinalityType
    <3>5. Handlings(EventsOf(kind)) = HandledBy(handled, Told(kind))
      BY <2>1, <3>1
    <3> DEFINE n == Cardinality(HandledBy(handled, Told(kind)))
               m == Cardinality(Told(kind))
    <3>6. n = m - m + n
      <4> HIDE DEF n, m
      <4>1. n \in Nat /\ m \in Nat
        BY <3>3, <3>4 DEF n, m
      <4> QED BY <4>1
    <3> QED BY <3>1, <3>2, <3>5, <3>6
  <2>3. LET counted == Cardinality(Handlings(Deletions))
        IN  row["totalTasks"] \in {0 - counted, 1 - counted}
    BY <2>1 DEF Tallies
  <2> QED BY <2>2, <2>3, DeltaOf
<1> QED BY <1>1, <1>2, <1>3, CountsHold, RecordsInvHolds, PTL DEF Spec
=============================================================================
