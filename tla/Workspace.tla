----------------------------- MODULE Workspace -----------------------------
(***************************************************************************)
(* One workspace of the API: its row, its members and roles.  A handler    *)
(* loads the whole aggregate (findById), lets a method of the aggregate    *)
(* change the copy, and saves the whole copy, members and outbox rows in   *)
(* one transaction that compares no version.  Beside them                  *)
(* WorkspaceMemberRoleAssignmentHandler, called for each delivery of       *)
(* WorkspaceMemberAdded, creates the default roles and writes a member's   *)
(* role straight into the table.  An action ends at an await.              *)
(***************************************************************************)
EXTENDS Naturals

CONSTANTS
    User,
    Owner,    \* who creates the workspace
    Request,  \* calls of command handlers; the id of what a call creates
    Call      \* deliveries of WorkspaceMemberAdded

ASSUME OwnerAssumption == Owner \in User

RoleName == {"OWNER", "MEMBER"}
Role     == Call \X RoleName
Kind     == {"update", "archive", "invite", "accept", "remove", "profile"}

\* A column that may be null holds {} or {value}.
Member == [user : User, id : Request, role : SUBSET Role, profile : SUBSET Request]
Row ==
    [status : {"none", "ACTIVE", "ARCHIVED"}, details : SUBSET Request,
     version : Nat, members : SUBSET Member]

\* of: the member row a MemberRemoved is about
Event ==
    [type : {"Created", "Added", "Removed", "Invited", "Archived"},
     user : User, by : Request, of : SUBSET Request]

VARIABLES
    row,      \* the workspace with its members
    roles,    \* the rows of the table roles
    outbox,   \* the outbox rows that saves have inserted
    pc,       \* the await a request stands at
    op,       \* its command
    loaded,   \* what findById returned to it
    stage,    \* the await a call stands at
    who,      \* the user of the delivered event
    using,    \* the role a call has found or created for each name
    found,    \* the member row it has found
    raced,    \* a save was made from a copy that the table had left behind
    met       \* pairs of calls that were in flight at the same time

requests == <<pc, op, loaded>>
calls    == <<stage, who, using, found, met>>
vars     == <<row, roles, outbox, requests, calls, raced>>

NoCommand == [kind |-> "update", user |-> Owner]
NoRow == [status |-> "none", details |-> {}, version |-> 0, members |-> {}]

Init ==
    /\ row = NoRow
    /\ roles = {}
    /\ outbox = {}
    /\ pc = [q \in Request |-> "idle"]
    /\ op = [q \in Request |-> NoCommand]
    /\ loaded = [q \in Request |-> NoRow]
    /\ stage = [k \in Call |-> "idle"]
    /\ who = [k \in Call |-> Owner]
    /\ using = [k \in Call |-> [n \in RoleName |-> {}]]
    /\ found = [k \in Call |-> {}]
    /\ raced = FALSE
    /\ met = {}

-----------------------------------------------------------------------------
(* The methods of the aggregate on a copy w: the set holds the changed     *)
(* copy, and is empty when the method returns Result.fail.                 *)

UsersOf(w) == {m.user : m \in w.members}

UpdateDetails(w, q) == {[w EXCEPT !.details = {q}]}

Archive(w) == IF w.status = "ARCHIVED" THEN {} ELSE {[w EXCEPT !.status = "ARCHIVED"]}

InviteMember(w) == IF w.status = "ARCHIVED" THEN {} ELSE {w}

\* Mutant of AddMember: archived workspaces are open.
MutAddMemberArchived(w, u, q) ==
    IF u \in UsersOf(w) THEN {}
    ELSE {[w EXCEPT !.members = @ \cup {[user |-> u, id |-> q, role |-> {}, profile |-> {}]}]}

AddMember(w, u, q) ==
    IF w.status = "ARCHIVED" \/ u \in UsersOf(w) THEN {}
    ELSE {[w EXCEPT !.members = @ \cup {[user |-> u, id |-> q, role |-> {}, profile |-> {}]}]}

RemoveMember(w, u) ==
    IF u \notin UsersOf(w) THEN {}
    ELSE {[w EXCEPT !.members = {m \in @ : m.user # u}]}

UpdateMemberProfile(w, u, q) ==
    IF u \notin UsersOf(w) THEN {}
    ELSE {[w EXCEPT !.members =
            {IF m.user = u THEN [m EXCEPT !.profile = {q}] ELSE m : m \in @}]}

\* what the handler of command o does with the copy
Execute(o, q, w) ==
    CASE o.kind = "update"  -> UpdateDetails(w, q)
      [] o.kind = "archive" -> Archive(w)
      [] o.kind = "invite"  -> InviteMember(w)
      [] o.kind = "accept"  -> AddMember(w, o.user, q)
      [] o.kind = "remove"  -> RemoveMember(w, o.user)
      [] o.kind = "profile" -> UpdateMemberProfile(w, o.user, q)

\* Mutant of Raised: a removal raises no event.
MutRaisedNoRemoval(o, q, w) ==
    IF o.kind \in {"update", "profile", "remove"} THEN {}
    ELSE {[type |-> CASE o.kind = "archive" -> "Archived"
                      [] o.kind = "invite"  -> "Invited"
                      [] o.kind = "accept"  -> "Added",
           user |-> o.user, by |-> q, of |-> {}]}

\* the domain events the method adds to the aggregate
Raised(o, q, w) ==
    IF o.kind \in {"update", "profile"} THEN {}
    ELSE {[type |-> CASE o.kind = "archive" -> "Archived"
                      [] o.kind = "invite"  -> "Invited"
                      [] o.kind = "accept"  -> "Added"
                      [] o.kind = "remove"  -> "Removed",
           user |-> o.user, by |-> q,
           of |-> IF o.kind = "remove"
                  THEN {m.id : m \in {m \in w.members : m.user = o.user}} ELSE {}]}

-----------------------------------------------------------------------------
(* The command handlers.                                                   *)

\* the request is answered, well or not
End(q) ==
    /\ pc' = [pc EXCEPT ![q] = "done"]
    /\ op' = [op EXCEPT ![q] = NoCommand]
    /\ loaded' = [loaded EXCEPT ![q] = NoRow]

\* CreateWorkspaceHandler: Workspace.create makes the owner a member, save
\* inserts the row, the member and the events.
Create(q) ==
    /\ pc[q] = "idle" /\ row.status = "none"
    /\ row' = [status |-> "ACTIVE", details |-> {q}, version |-> 0,
               members |-> {[user |-> Owner, id |-> q, role |-> {}, profile |-> {}]}]
    /\ outbox' = outbox \cup
            {[type |-> t, user |-> Owner, by |-> q, of |-> {}] : t \in {"Added", "Created"}}
    /\ End(q)
    /\ UNCHANGED <<roles, calls, raced>>

\* a command reaches the handler of an existing workspace
Command(q, kind, u) ==
    /\ pc[q] = "idle" /\ row.status # "none"
    /\ op' = [op EXCEPT ![q] = [kind |-> kind, user |-> u]]
    /\ pc' = [pc EXCEPT ![q] = "find"]
    /\ UNCHANGED <<row, roles, outbox, loaded, calls, raced>>

UpdateWorkspace(q) == Command(q, "update", Owner)

ArchiveWorkspace(q) == Command(q, "archive", Owner)

Invite(q, u) == Command(q, "invite", u)

\* Invitations are not used up: while the token is valid its user may accept
\* again.
AcceptInvite(q, u) ==
    /\ \E e \in outbox : e.type = "Invited" /\ e.user = u
    /\ Command(q, "accept", u)

\* from the owner; the handler refuses everybody else
RemoveWorkspaceMember(q, u) == Command(q, "remove", u)

UpdateProfile(q, u) == Command(q, "profile", u)

\* findById, then the method of the aggregate
Find(q) ==
    /\ pc[q] = "find"
    /\ \/ /\ Execute(op[q], q, row) = {}
          /\ End(q)
       \/ /\ Execute(op[q], q, row) # {}
          /\ loaded' = [loaded EXCEPT ![q] = row]
          /\ pc' = [pc EXCEPT ![q] = "save"]
          /\ UNCHANGED op
    /\ UNCHANGED <<row, roles, outbox, calls, raced>>

\* the row that PrismaWorkspaceRepository.save leaves for copy w: all columns
\* of w, the version of the table plus one, the members without their profiles
Stored(w) ==
    [w EXCEPT !.version = row.version + 1,
              !.members = {[m EXCEPT !.profile = {}] : m \in @}]

\* Mutant of Commit: the events are not part of the transaction.
MutCommitNoEvents(q) ==
    /\ \E w \in Execute(op[q], q, loaded[q]) : row' = Stored(w)
    /\ raced' = (raced \/ loaded[q] # row)
    /\ UNCHANGED outbox

\* the transaction of save commits
Commit(q) ==
    /\ \E w \in Execute(op[q], q, loaded[q]) : row' = Stored(w)
    /\ outbox' = outbox \cup Raised(op[q], q, loaded[q])
    /\ raced' = (raced \/ loaded[q] # row)

Save(q) ==
    /\ pc[q] = "save"
    /\ Commit(q)
    /\ End(q)
    /\ UNCHANGED <<roles, calls>>

\* A statement throws or the process dies, the save being applied or not.
Throws(q) ==
    /\ pc[q] \in {"find", "save"}
    /\ \/ pc[q] = "save" /\ Commit(q)
       \/ UNCHANGED <<row, outbox, raced>>
    /\ End(q)
    /\ UNCHANGED <<roles, calls>>

-----------------------------------------------------------------------------
(* WorkspaceMemberRoleAssignmentHandler.                                   *)

Goto(k, s) == stage' = [stage EXCEPT ![k] = s]

\* the call is over
Finish(k) ==
    /\ Goto(k, "done")
    /\ who' = [who EXCEPT ![k] = Owner]
    /\ using' = [using EXCEPT ![k] = [n \in RoleName |-> {}]]
    /\ found' = [found EXCEPT ![k] = {}]

\* The bus delivers an event MemberAdded, maybe not for the first time; the
\* workspace is read.
Deliver(k, u) ==
    /\ stage[k] = "idle"
    /\ \E e \in outbox : e.type = "Added" /\ e.user = u
    /\ Goto(k, "findRole")
    /\ who' = [who EXCEPT ![k] = u]
    /\ met' = met \cup {{k, l} : l \in {l \in Call : stage[l] \notin {"idle", "done"}}}
    /\ UNCHANGED <<row, roles, outbox, requests, using, found, raced>>

\* the role the handler looks for: first OWNER, then MEMBER
Wanted(k) == IF using[k]["OWNER"] = {} THEN "OWNER" ELSE "MEMBER"

Use(k, r) ==
    /\ using' = [using EXCEPT ![k][r[2]] = {r}]
    /\ Goto(k, IF r[2] = "OWNER" THEN "findRole" ELSE "findMember")

\* Mutant of FindRole: the roles are looked for in another workspace.
MutFindRoleMissing(k) ==
    /\ stage[k] = "findRole"
    /\ Goto(k, "createRole")
    /\ UNCHANGED <<row, roles, outbox, requests, who, using, found, met, raced>>

\* findFirst: one of the roles of that name, whichever
FindRole(k) ==
    /\ stage[k] = "findRole"
    /\ IF \A r \in roles : r[2] # Wanted(k)
       THEN Goto(k, "createRole") /\ UNCHANGED using
       ELSE \E r \in roles : r[2] = Wanted(k) /\ Use(k, r)
    /\ UNCHANGED <<row, roles, outbox, requests, who, found, met, raced>>

CreateRole(k) ==
    /\ stage[k] = "createRole"
    /\ roles' = roles \cup {<<k, Wanted(k)>>}
    /\ Use(k, <<k, Wanted(k)>>)
    /\ UNCHANGED <<row, outbox, requests, who, found, met, raced>>

Unassigned(u) == {m.id : m \in {m \in row.members : m.user = u /\ m.role = {}}}

\* the member row, if it is there and has no role
FindMember(k) ==
    /\ stage[k] = "findMember"
    /\ \/ /\ Unassigned(who[k]) = {}
          /\ Finish(k)
       \/ /\ Unassigned(who[k]) # {}
          /\ found' = [found EXCEPT ![k] = Unassigned(who[k])]
          /\ Goto(k, "assign")
          /\ UNCHANGED <<who, using>>
    /\ UNCHANGED <<row, roles, outbox, requests, met, raced>>

\* Mutant of Target: everybody gets the first role.
MutTarget(k) == using[k]["OWNER"]

Target(k) == using[k][IF who[k] = Owner THEN "OWNER" ELSE "MEMBER"]

\* update by the id of the member row; that the row is gone throws and is
\* logged
Assign(k) ==
    /\ stage[k] = "assign"
    /\ row' = [row EXCEPT !.members =
            {IF m.id \in found[k] THEN [m EXCEPT !.role = Target(k)] ELSE m : m \in @}]
    /\ Finish(k)
    /\ UNCHANGED <<roles, outbox, requests, met, raced>>

\* a statement throws and is logged, or the process dies
CallThrows(k) ==
    /\ stage[k] \notin {"idle", "done"}
    /\ Finish(k)
    /\ UNCHANGED <<row, roles, outbox, requests, met, raced>>

-----------------------------------------------------------------------------

Next ==
    \/ \E q \in Request :
        \/ Create(q) \/ Find(q) \/ Save(q) \/ Throws(q)
        \/ UpdateWorkspace(q) \/ ArchiveWorkspace(q)
        \/ \E u \in User :
            \/ Invite(q, u) \/ AcceptInvite(q, u)
            \/ RemoveWorkspaceMember(q, u) \/ UpdateProfile(q, u)
    \/ \E k \in Call :
        \/ FindRole(k) \/ CreateRole(k) \/ FindMember(k) \/ Assign(k) \/ CallThrows(k)
        \/ \E u \in User : Deliver(k, u)

Spec == Init /\ [][Next]_vars

-----------------------------------------------------------------------------

TypeOK ==
    /\ row \in Row
    /\ roles \subseteq Role
    /\ outbox \subseteq Event
    /\ pc \in [Request -> {"idle", "find", "save", "done"}]
    /\ op \in [Request -> [kind : Kind, user : User]]
    /\ loaded \in [Request -> Row]
    /\ stage \in [Call -> {"idle", "findRole", "createRole", "findMember", "assign", "done"}]
    /\ who \in [Call -> User]
    /\ using \in [Call -> [RoleName -> SUBSET roles]]
    /\ found \in [Call -> SUBSET Request]
    /\ raced \in BOOLEAN
    /\ met \subseteq SUBSET Call

\* However the saves overwrite each other, the table holds nothing that was
\* not announced: every member row comes from a MemberAdded of the outbox, and
\* an archived workspace from a WorkspaceArchived.
EverythingWasAnnounced ==
    /\ \A m \in row.members :
        \E e \in outbox : e.type = "Added" /\ e.user = m.user /\ e.by = m.id
    /\ row.status = "ARCHIVED" => \E e \in outbox : e.type = "Archived"

\* As long as no save came from a copy left behind, the outbox tells exactly
\* the story of the table: the members are those added and not removed since,
\* and the workspace is archived if and only if that was announced.
OutboxTellsTheTable ==
    ~raced =>
        /\ {<<m.user, m.id>> : m \in row.members} =
            {<<e.user, e.by>> : e \in {e \in outbox :
                e.type = "Added" /\ \A f \in outbox : e.by \notin f.of}}
        /\ row.status = "ARCHIVED" <=> \E e \in outbox : e.type = "Archived"

\* The role OWNER is the owner's alone and the owner's only role, through the
\* awaits of the handler, duplicate roles, and rows written back with old roles.
OwnerRoleIsTheOwners ==
    \A m \in row.members : \A r \in m.role :
        r \in roles /\ (r[2] = "OWNER" <=> m.user = Owner)

\* A second role of one name is created only by calls that overlapped.
DuplicateRolesOverlap ==
    \A r, s \in roles : r[2] = s[2] => r = s \/ {r[1], s[1]} \in met

\* An archived workspace stays archived and admits nobody, unless a save
\* writes back a copy that the table has left behind.
ArchivedIsClosed ==
    [][row.status = "ARCHIVED" =>
        \/ row'.status = "ARCHIVED" /\ UsersOf(row') \subseteq UsersOf(row)
        \/ \E q \in Request : pc[q] = "save" /\ pc'[q] # "save" /\ loaded[q] # row]_vars
=============================================================================
