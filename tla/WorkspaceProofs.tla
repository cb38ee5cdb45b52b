-------------------------- MODULE WorkspaceProofs --------------------------
(***************************************************************************)
(* Workspace keeps its types, holds nothing that was not announced, gives  *)
(* the role OWNER to the owner alone and creates a role twice only by      *)
(* calls that overlap; its outbox tells the table and an archived          *)
(* workspace is closed, but for stale saves.  The pages of Invitations     *)
(* leave all that as it is, and their cookies are earned.  For any number  *)
(* of users, requests and calls.                                           *)
(***************************************************************************)
EXTENDS Invitations, TLAPS

USE OwnerAssumption

-----------------------------------------------------------------------------
(* Types.                                                                  *)

LEMMA RoleParts == \A r \in Role : r[1] \in Call /\ r[2] \in RoleName /\ r = <<r[1], r[2]>>
BY DEF Role

\* A method of the aggregate, applied to a copy, keeps its type; the members
\* it leaves are those of the copy, but for one it adds, and it changes the
\* status by archiving only.
LEMMA ExecuteMembers ==
    ASSUME NEW o \in [kind : Kind, user : User], NEW q \in Request, NEW w \in Row,
           NEW v \in Execute(o, q, w)
    PROVE /\ v \in Row
          /\ \A m \in v.members :
                \/ \E n \in w.members : m.user = n.user /\ m.id = n.id /\ m.role = n.role
                \/ o.kind = "accept" /\ m.user = o.user /\ m.id = q /\ m.role = {}
          /\ \/ v.status = w.status
             \/ o.kind = "archive" /\ v.status = "ARCHIVED"
<1>1. CASE o.kind = "update"
  BY <1>1 DEF Execute, UpdateDetails, Row
<1>2. CASE o.kind = "archive"
  BY <1>2 DEF Execute, Archive, Row
<1>3. CASE o.kind = "invite"
  BY <1>3 DEF Execute, InviteMember, Row
<1>4. CASE o.kind = "accept"
  <2> DEFINE new == [user |-> o.user, id |-> q, role |-> {}, profile |-> {}]
  <2>1. v = [w EXCEPT !.members = w.members \cup {new}]
    BY <1>4 DEF Execute, AddMember
  <2>2. new \in Member
    BY DEF Member
  <2> QED BY <1>4, <2>1, <2>2 DEF Row
<1>5. CASE o.kind = "remove"
  <2>1. v = [w EXCEPT !.members = {m \in w.members : m.user # o.user}]
    BY <1>5 DEF Execute, RemoveMember
  <2> QED BY <2>1 DEF Row
<1>6. CASE o.kind = "profile"
  <2> DEFINE changed(m) == IF m.user = o.user THEN [m EXCEPT !.profile = {q}] ELSE m
  <2>1. v = [w EXCEPT !.members = {changed(m) : m \in w.members}]
    BY <1>6 DEF Execute, UpdateMemberProfile
  <2>2. \A m \in Member : /\ changed(m) \in Member
                          /\ changed(m).user = m.user
                          /\ changed(m).id = m.id
                          /\ changed(m).role = m.role
    BY DEF Member
  <2>3. w.members \subseteq Member
    BY DEF Row
  <2>4. v \in Row /\ v.status = w.status /\ v.members = {changed(m) : m \in w.members}
    <3> HIDE DEF changed
    <3> QED BY <2>1, <2>2, <2>3 DEF Row
  <2> QED
    <3> HIDE DEF changed
    <3> QED BY <2>2, <2>3, <2>4
<1> QED BY <1>1, <1>2, <1>3, <1>4, <1>5, <1>6 DEF Kind

\* The same of the row that a save leaves.
LEMMA CommitMembers ==
    ASSUME TypeOK, NEW q \in Request, Commit(q)
    PROVE /\ row' \in Row
          /\ \A m \in row'.members :
                \/ \E n \in loaded[q].members : m.user = n.user /\ m.id = n.id /\ m.role = n.role
                \/ op[q].kind = "accept" /\ m.user = op[q].user /\ m.id = q /\ m.role = {}
          /\ \/ row'.status = loaded[q].status
             \/ op[q].kind = "archive" /\ row'.status = "ARCHIVED"
<1> DEFINE bare(m) == [m EXCEPT !.profile = {}]
<1>1. PICK v \in Execute(op[q], q, loaded[q]) : row' = Stored(v)
  BY DEF Commit
<1>2. op[q] \in [kind : Kind, user : User] /\ loaded[q] \in Row /\ row \in Row
  BY DEF TypeOK
<1>3. /\ v \in Row
      /\ \A m \in v.members :
            \/ \E n \in loaded[q].members : m.user = n.user /\ m.id = n.id /\ m.role = n.role
            \/ op[q].kind = "accept" /\ m.user = op[q].user /\ m.id = q /\ m.role = {}
      /\ \/ v.status = loaded[q].status
         \/ op[q].kind = "archive" /\ v.status = "ARCHIVED"
  BY <1>1, <1>2, ExecuteMembers
<1>4. \A m \in Member : bare(m) \in Member /\ bare(m).user = m.user
                        /\ bare(m).id = m.id /\ bare(m).role = m.role
  BY DEF Member
<1>5. row' = [v EXCEPT !.version = row.version + 1, !.members = {bare(m) : m \in v.members}]
  BY <1>1 DEF Stored
<1> HIDE DEF bare
<1>6. v.members \subseteq Member /\ row.version + 1 \in Nat
  BY <1>2, <1>3 DEF Row
<1>7. row' \in Row /\ row'.status = v.status /\ row'.members = {bare(m) : m \in v.members}
  BY <1>3, <1>4, <1>5, <1>6 DEF Row
<1> QED BY <1>3, <1>4, <1>6, <1>7

\* What a save raises are events of its request.
LEMMA RaisedAreEvents ==
    ASSUME NEW o \in [kind : Kind, user : User], NEW q \in Request, NEW w \in Row
    PROVE /\ Raised(o, q, w) \subseteq Event
          /\ \A e \in Raised(o, q, w) : e.by = q /\ e.user = o.user
          /\ o.kind = "accept" => \E e \in Raised(o, q, w) : e.type = "Added"
          /\ o.kind = "archive" => \E e \in Raised(o, q, w) : e.type = "Archived"
<1>1. CASE o.kind \in {"update", "profile"}
  BY <1>1 DEF Raised
<1>2. CASE o.kind = "archive"
  <2>1. Raised(o, q, w) = {[type |-> "Archived", user |-> o.user, by |-> q, of |-> {}]}
    BY <1>2 DEF Raised
  <2> QED BY <1>2, <2>1 DEF Event
<1>3. CASE o.kind = "invite"
  <2>1. Raised(o, q, w) = {[type |-> "Invited", user |-> o.user, by |-> q, of |-> {}]}
    BY <1>3 DEF Raised
  <2> QED BY <1>3, <2>1 DEF Event
<1>4. CASE o.kind = "accept"
  <2>1. Raised(o, q, w) = {[type |-> "Added", user |-> o.user, by |-> q, of |-> {}]}
    BY <1>4 DEF Raised
  <2> QED BY <1>4, <2>1 DEF Event
<1>5. CASE o.kind = "remove"
  <2> DEFINE ids == {m.id : m \in {m \in w.members : m.user = o.user}}
  <2>1. ids \subseteq Request
    BY DEF Row, Member
  <2>2. Raised(o, q, w) = {[type |-> "Removed", user |-> o.user, by |-> q, of |-> ids]}
    BY <1>5 DEF Raised
  <2> HIDE DEF ids
  <2> QED BY <1>5, <2>1, <2>2 DEF Event
<1> QED BY <1>1, <1>2, <1>3, <1>4, <1>5 DEF Kind

\* The type invariant, the calls' parts apart.
CallTypes ==
    /\ roles \subseteq Role
    /\ stage \in [Call -> {"idle", "findRole", "createRole", "findMember", "assign", "done"}]
    /\ who \in [Call -> User]
    /\ using \in [Call -> [RoleName -> SUBSET roles]]
    /\ found \in [Call -> SUBSET Request]
    /\ met \subseteq SUBSET Call

RequestTypes ==
    /\ row \in Row
    /\ outbox \subseteq Event
    /\ pc \in [Request -> {"idle", "find", "save", "done"}]
    /\ op \in [Request -> [kind : Kind, user : User]]
    /\ loaded \in [Request -> Row]
    /\ raced \in BOOLEAN

LEMMA Parts == TypeOK <=> CallTypes /\ RequestTypes
BY DEF TypeOK, CallTypes, RequestTypes

LEMMA EndTypes ==
    ASSUME RequestTypes, NEW q \in Request, End(q)
    PROVE /\ pc' \in [Request -> {"idle", "find", "save", "done"}]
          /\ op' \in [Request -> [kind : Kind, user : User]]
          /\ loaded' \in [Request -> Row]
          /\ pc'[q] = "done"
          /\ \A r \in Request : r # q => pc'[r] = pc[r] /\ op'[r] = op[r] /\ loaded'[r] = loaded[r]
<1>1. NoRow \in Row /\ NoCommand \in [kind : Kind, user : User]
  BY DEF NoRow, Row, NoCommand, Kind
<1> QED BY <1>1 DEF RequestTypes, End

LEMMA CommitTypes ==
    ASSUME TypeOK, NEW q \in Request, Commit(q)
    PROVE row' \in Row /\ outbox' \subseteq Event /\ raced' \in BOOLEAN
<1>1. row' \in Row
  BY CommitMembers
<1>2. Raised(op[q], q, loaded[q]) \subseteq Event
  BY RaisedAreEvents DEF TypeOK
<1>3. raced' \in BOOLEAN
  BY DEF Commit, TypeOK
<1> QED BY <1>1, <1>2, <1>3 DEF Commit, TypeOK

LEMMA FinishTypes ==
    ASSUME CallTypes, NEW k \in Call, Finish(k), UNCHANGED <<roles, met>>
    PROVE CallTypes'
BY DEF CallTypes, Finish, Goto

\* Every variable keeps its type: the roles a call works with are rows of the
\* table, whatever the calls and saves in between did.
THEOREM TypeCorrect == Spec => []TypeOK
<1>1. Init => TypeOK
  <2>1. NoRow \in Row /\ NoCommand \in [kind : Kind, user : User]
    BY DEF NoRow, Row, NoCommand, Kind
  <2> SUFFICES ASSUME Init PROVE CallTypes /\ RequestTypes
    BY Parts
  <2>2. RequestTypes
    BY <2>1 DEF Init, RequestTypes
  <2>3. CallTypes
    BY DEF Init, CallTypes
  <2> QED BY <2>2, <2>3
<1>2. TypeOK /\ [Next]_vars => TypeOK'
  <2> SUFFICES ASSUME TypeOK, [Next]_vars PROVE CallTypes' /\ RequestTypes'
    BY Parts DEF TypeOK, CallTypes, RequestTypes
  <2>1. CallTypes /\ RequestTypes
    BY Parts
  <2>2. ASSUME NEW q \in Request, Create(q) PROVE CallTypes' /\ RequestTypes'
    <3> DEFINE new == [user |-> Owner, id |-> q, role |-> {}, profile |-> {}]
    <3> DEFINE announced == {[type |-> t, user |-> Owner, by |-> q, of |-> {}] : t \in {"Added", "Created"}}
    <3>1. new \in Member /\ announced \subseteq Event
      BY DEF Member, Event
    <3>2. row' = [status |-> "ACTIVE", details |-> {q}, version |-> 0, members |-> {new}]
          /\ outbox' = outbox \cup announced
      BY <2>2 DEF Create
    <3> HIDE DEF new, announced
    <3>3. row' \in Row /\ outbox' \subseteq Event
      BY <2>1, <3>1, <3>2 DEF Row, RequestTypes
    <3> QED BY <2>1, <2>2, <3>3, EndTypes DEF Create, calls, CallTypes, RequestTypes
  <2>3. ASSUME NEW q \in Request, NEW kind \in Kind, NEW u \in User, Command(q, kind, u)
        PROVE CallTypes' /\ RequestTypes'
    BY <2>1, <2>3 DEF Command, calls, CallTypes, RequestTypes
  <2>4. ASSUME NEW q \in Request, NEW u \in User,
               \/ UpdateWorkspace(q) \/ ArchiveWorkspace(q) \/ Invite(q, u)
               \/ AcceptInvite(q, u) \/ RemoveWorkspaceMember(q, u) \/ UpdateProfile(q, u)
        PROVE CallTypes' /\ RequestTypes'
    BY <2>3, <2>4 DEF Kind, UpdateWorkspace, ArchiveWorkspace, Invite, AcceptInvite,
                      RemoveWorkspaceMember, UpdateProfile
  <2>5. ASSUME NEW q \in Request, Find(q) PROVE CallTypes' /\ RequestTypes'
    <3>1. CASE End(q)
      BY <2>1, <2>5, <3>1, EndTypes DEF Find, calls, CallTypes, RequestTypes
    <3>2. CASE ~End(q)
      BY <2>1, <2>5, <3>2 DEF Find, calls, CallTypes, RequestTypes
    <3> QED BY <3>1, <3>2
  <2>6. ASSUME NEW q \in Request, Save(q) PROVE CallTypes' /\ RequestTypes'
    BY <2>1, <2>6, EndTypes, CommitTypes DEF Save, calls, CallTypes, RequestTypes
  <2>7. ASSUME NEW q \in Request, Throws(q) PROVE CallTypes' /\ RequestTypes'
    <3>1. row' \in Row /\ outbox' \subseteq Event /\ raced' \in BOOLEAN
      BY <2>1, <2>7, CommitTypes DEF Throws, RequestTypes
    <3> QED BY <2>1, <2>7, <3>1, EndTypes DEF Throws, calls, CallTypes, RequestTypes
  <2>8. ASSUME NEW k \in Call, NEW u \in User, Deliver(k, u) PROVE CallTypes' /\ RequestTypes'
    BY <2>1, <2>8 DEF Deliver, requests, Goto, CallTypes, RequestTypes
  <2>9. ASSUME NEW k \in Call, NEW r \in roles', Use(k, r), roles \subseteq roles', roles' \subseteq Role
        PROVE /\ using' \in [Call -> [RoleName -> SUBSET roles']]
              /\ stage' \in [Call -> {"idle", "findRole", "createRole", "findMember", "assign", "done"}]
    <3>1. r[2] \in RoleName
      BY <2>9, RoleParts
    <3>2. using[k] \in [RoleName -> SUBSET roles]
      BY <2>1 DEF CallTypes
    <3>3. [using[k] EXCEPT ![r[2]] = {r}] \in [RoleName -> SUBSET roles']
      BY <2>9, <3>1, <3>2
    <3>4. using' = [using EXCEPT ![k] = [using[k] EXCEPT ![r[2]] = {r}]]
      BY <2>9 DEF Use
    <3>5. using \in [Call -> [RoleName -> SUBSET roles']]
      BY <2>1, <2>9 DEF CallTypes
    <3> QED BY <2>1, <2>9, <3>3, <3>4, <3>5 DEF Use, Goto, CallTypes
  <2>10. ASSUME NEW k \in Call, FindRole(k) PROVE CallTypes' /\ RequestTypes'
    <3>1. RequestTypes' /\ UNCHANGED <<roles, who, found, met>>
      BY <2>1, <2>10 DEF FindRole, requests, RequestTypes
    <3>2. CASE \A r \in roles : r[2] # Wanted(k)
      BY <2>1, <2>10, <3>1, <3>2 DEF FindRole, Goto, CallTypes
    <3>3. CASE ~ \A r \in roles : r[2] # Wanted(k)
      <4>1. PICK r \in roles : Use(k, r)
        BY <2>10, <3>3 DEF FindRole
      <4> QED BY <2>1, <2>9, <3>1, <4>1 DEF CallTypes
    <3> QED BY <3>2, <3>3
  <2>11. ASSUME NEW k \in Call, CreateRole(k) PROVE CallTypes' /\ RequestTypes'
    <3> DEFINE r == <<k, Wanted(k)>>
    <3>1. r \in Role
      BY DEF Role, Wanted, RoleName
    <3>2. roles' = roles \cup {r} /\ Use(k, r) /\ RequestTypes' /\ UNCHANGED <<who, found, met>>
      BY <2>1, <2>11 DEF CreateRole, requests, RequestTypes
    <3> HIDE DEF r
    <3> QED BY <2>1, <2>9, <3>1, <3>2 DEF CallTypes
  <2>12. ASSUME NEW k \in Call, FindMember(k) PROVE CallTypes' /\ RequestTypes'
    <3>1. Unassigned(who[k]) \subseteq Request
      BY <2>1 DEF Unassigned, RequestTypes, Row, Member
    <3>2. RequestTypes' /\ UNCHANGED <<roles, met>>
      BY <2>1, <2>12 DEF FindMember, requests, RequestTypes
    <3>3. CASE Finish(k)
      BY <2>1, <3>2, <3>3, FinishTypes
    <3>4. CASE ~Finish(k)
      <4>1. /\ found' = [found EXCEPT ![k] = Unassigned(who[k])]
            /\ stage' = [stage EXCEPT ![k] = "assign"]
            /\ UNCHANGED <<who, using>>
        BY <2>12, <3>4 DEF FindMember, Goto
      <4>2. found' \in [Call -> SUBSET Request]
        BY <2>1, <3>1, <4>1 DEF CallTypes
      <4> QED BY <2>1, <3>2, <4>1, <4>2 DEF CallTypes
    <3> QED BY <3>3, <3>4
  <2>13. ASSUME NEW k \in Call, Assign(k) PROVE CallTypes' /\ RequestTypes'
    <3> DEFINE given(m) == IF m.id \in found[k] THEN [m EXCEPT !.role = Target(k)] ELSE m
    <3>1. Target(k) \subseteq Role
      BY <2>1 DEF Target, CallTypes, RoleName
    <3>2. \A m \in Member : given(m) \in Member
      BY <3>1 DEF Member
    <3>3. row' = [row EXCEPT !.members = {given(m) : m \in row.members}]
      BY <2>13 DEF Assign
    <3> HIDE DEF given
    <3>4. row' \in Row
      BY <2>1, <3>2, <3>3 DEF RequestTypes, Row
    <3>5. CallTypes'
      BY <2>1, <2>13, FinishTypes DEF Assign
    <3> QED BY <2>1, <2>13, <3>4, <3>5 DEF Assign, requests, RequestTypes
  <2>14. ASSUME NEW k \in Call, CallThrows(k) PROVE CallTypes' /\ RequestTypes'
    BY <2>1, <2>14, FinishTypes DEF CallThrows, requests, RequestTypes
  <2>15. CASE UNCHANGED vars
    BY <2>1, <2>15 DEF vars, requests, calls, CallTypes, RequestTypes
  <2> QED BY <2>2, <2>4, <2>5, <2>6, <2>7, <2>8, <2>10, <2>11, <2>12, <2>13, <2>14, <2>15 DEF Next
<1> QED BY <1>1, <1>2, PTL DEF Spec

-----------------------------------------------------------------------------
(* What a step can do.                                                     *)

\* Requests neither end twice nor hold a copy that was not the row when they
\* took it; outbox and roles grow; the row changes by a create, a save or an
\* assignment.
LEMMA RequestSteps ==
    ASSUME TypeOK, [Next]_vars
    PROVE /\ outbox \subseteq outbox' /\ roles \subseteq roles'
          /\ \A x \in Request : pc[x] = "done" => pc'[x] = "done"
          /\ \A x \in Request : pc'[x] = "save" =>
                loaded'[x] = row \/ (pc[x] = "save" /\ loaded'[x] = loaded[x])
          /\ \/ UNCHANGED <<row, outbox>>
             \/ \E q \in Request : Create(q)
             \/ \E q \in Request : pc[q] = "save" /\ pc'[q] = "done" /\ Commit(q)
             \/ \E k \in Call : Assign(k)
<1>1. CallTypes /\ RequestTypes
  BY Parts
<1>2. ASSUME NEW q \in Request, End(q)
      PROVE /\ pc'[q] = "done"
            /\ \A x \in Request : pc[x] = "done" => pc'[x] = "done"
            /\ \A x \in Request : pc'[x] = "save" => pc[x] = "save" /\ loaded'[x] = loaded[x]
  BY <1>1, <1>2, EndTypes
<1>3. ASSUME NEW q \in Request, Commit(q) PROVE outbox \subseteq outbox'
  BY <1>3 DEF Commit
<1>4. ASSUME NEW q \in Request, Create(q) PROVE outbox \subseteq outbox' /\ End(q) /\ UNCHANGED roles
  BY <1>4 DEF Create
<1>5. ASSUME NEW q \in Request, NEW u \in User,
             \/ UpdateWorkspace(q) \/ ArchiveWorkspace(q) \/ Invite(q, u)
             \/ AcceptInvite(q, u) \/ RemoveWorkspaceMember(q, u) \/ UpdateProfile(q, u)
      PROVE /\ UNCHANGED <<row, outbox, roles, loaded>>
            /\ pc' = [pc EXCEPT ![q] = "find"] /\ pc[q] = "idle"
  BY <1>5 DEF UpdateWorkspace, ArchiveWorkspace, Invite, AcceptInvite, RemoveWorkspaceMember,
              UpdateProfile, Command
<1>6. ASSUME NEW q \in Request, Find(q)
      PROVE /\ UNCHANGED <<row, outbox, roles>>
            /\ \A x \in Request : pc[x] = "done" => pc'[x] = "done"
            /\ \A x \in Request : pc'[x] = "save" =>
                loaded'[x] = row \/ (pc[x] = "save" /\ loaded'[x] = loaded[x])
  <2>1. CASE End(q)
    BY <1>2, <1>6, <2>1 DEF Find
  <2>2. CASE ~End(q)
    <3>1. /\ loaded' = [loaded EXCEPT ![q] = row]
          /\ pc' = [pc EXCEPT ![q] = "save"]
          /\ UNCHANGED <<row, outbox, roles>>
          /\ pc[q] = "find"
      BY <1>6, <2>2 DEF Find
    <3>2. \A x \in Request : pc[x] = "done" => pc'[x] = "done"
      BY <1>1, <3>1 DEF RequestTypes
    <3>3. \A x \in Request : x # q => pc'[x] = pc[x] /\ loaded'[x] = loaded[x]
      BY <1>1, <3>1 DEF RequestTypes
    <3>4. loaded'[q] = row
      BY <1>1, <3>1 DEF RequestTypes
    <3> QED BY <3>1, <3>2, <3>3, <3>4
  <2> QED BY <2>1, <2>2
<1>7. ASSUME NEW q \in Request, Save(q)
      PROVE pc[q] = "save" /\ Commit(q) /\ End(q) /\ UNCHANGED roles
  BY <1>7 DEF Save
<1>8. ASSUME NEW q \in Request, Throws(q)
      PROVE /\ End(q) /\ UNCHANGED roles
            /\ (pc[q] = "save" /\ Commit(q)) \/ UNCHANGED <<row, outbox>>
  BY <1>8 DEF Throws
<1>9. ASSUME NEW k \in Call,
             \/ FindRole(k) \/ CreateRole(k) \/ FindMember(k) \/ CallThrows(k)
             \/ \E u \in User : Deliver(k, u)
      PROVE UNCHANGED <<row, outbox, pc, loaded>> /\ roles \subseteq roles'
  BY <1>9 DEF FindRole, CreateRole, FindMember, CallThrows, Deliver, requests
<1>10. ASSUME NEW k \in Call, Assign(k) PROVE UNCHANGED <<outbox, pc, loaded, roles>>
  BY <1>10 DEF Assign, requests
<1>11. ASSUME NEW q \in Request, End(q), (pc[q] = "save" /\ Commit(q)) \/ UNCHANGED <<row, outbox>>,
              UNCHANGED roles
       PROVE /\ outbox \subseteq outbox' /\ roles \subseteq roles'
             /\ \A x \in Request : pc[x] = "done" => pc'[x] = "done"
             /\ \A x \in Request : pc'[x] = "save" =>
                   loaded'[x] = row \/ (pc[x] = "save" /\ loaded'[x] = loaded[x])
             /\ \/ UNCHANGED <<row, outbox>>
                \/ \E y \in Request : pc[y] = "save" /\ pc'[y] = "done" /\ Commit(y)
  BY <1>2, <1>3, <1>11
<1>12. CASE UNCHANGED vars
  BY <1>12 DEF vars, requests
<1>13. CASE \E q \in Request : Create(q)
  BY <1>2, <1>4, <1>13
<1>14. CASE \E q \in Request, u \in User :
             \/ UpdateWorkspace(q) \/ ArchiveWorkspace(q) \/ Invite(q, u)
             \/ AcceptInvite(q, u) \/ RemoveWorkspaceMember(q, u) \/ UpdateProfile(q, u)
  BY <1>1, <1>5, <1>14 DEF RequestTypes
<1>15. CASE \E q \in Request : Find(q)
  BY <1>6, <1>15
<1>16. CASE \E q \in Request : Save(q) \/ Throws(q)
  BY <1>7, <1>8, <1>11, <1>16
<1>17. CASE \E k \in Call : \/ FindRole(k) \/ CreateRole(k) \/ FindMember(k) \/ CallThrows(k)
                            \/ \E u \in User : Deliver(k, u)
  BY <1>9, <1>17
<1>18. CASE \E k \in Call : Assign(k)
  BY <1>10, <1>18
<1> QED BY <1>12, <1>13, <1>14, <1>15, <1>16, <1>17, <1>18 DEF Next

-----------------------------------------------------------------------------
(* Everything in the table was announced.                                  *)

\* what the outbox says of a copy of the workspace
Announced(w) ==
    /\ \A m \in w.members :
        \E e \in outbox : e.type = "Added" /\ e.user = m.user /\ e.by = m.id
    /\ w.status = "ARCHIVED" => \E e \in outbox : e.type = "Archived"

AnnouncedInv ==
    /\ Announced(row)
    /\ \A q \in Request : pc[q] = "save" => Announced(loaded[q])

\* The row, and every copy about to be saved, was announced.
LEMMA AnnouncedInvariant == Spec => []AnnouncedInv
<1>1. Init => AnnouncedInv
  BY DEF Init, AnnouncedInv, Announced, NoRow
<1>2. AnnouncedInv /\ TypeOK /\ [Next]_vars => AnnouncedInv'
  <2> SUFFICES ASSUME AnnouncedInv, TypeOK, [Next]_vars PROVE AnnouncedInv'
    OBVIOUS
  <2>1. outbox \subseteq outbox'
    BY RequestSteps
  <2>4. ASSUME NEW q \in Request, pc'[q] = "save"
        PROVE /\ \A m \in loaded'[q].members :
                   \E e \in outbox' : e.type = "Added" /\ e.user = m.user /\ e.by = m.id
              /\ loaded'[q].status = "ARCHIVED" => \E e \in outbox' : e.type = "Archived"
    <3>1. loaded'[q] = row \/ (pc[q] = "save" /\ loaded'[q] = loaded[q])
      BY <2>4, RequestSteps
    <3> QED BY <2>1, <3>1 DEF AnnouncedInv, Announced
  <2>5. /\ \A m \in row'.members :
             \E e \in outbox' : e.type = "Added" /\ e.user = m.user /\ e.by = m.id
        /\ row'.status = "ARCHIVED" => \E e \in outbox' : e.type = "Archived"
    <3>1. CASE UNCHANGED <<row, outbox>>
      BY <3>1 DEF AnnouncedInv, Announced
    <3>2. ASSUME NEW q \in Request, Create(q) PROVE <2>5!:
      <4> DEFINE announced == {[type |-> t, user |-> Owner, by |-> q, of |-> {}] : t \in {"Added", "Created"}}
      <4>1. [type |-> "Added", user |-> Owner, by |-> q, of |-> {}] \in announced
        OBVIOUS
      <4>2. outbox' = outbox \cup announced
        BY <3>2 DEF Create
      <4> HIDE DEF announced
      <4>3. [type |-> "Added", user |-> Owner, by |-> q, of |-> {}] \in outbox'
        BY <4>1, <4>2
      <4>4. row'.members = {[user |-> Owner, id |-> q, role |-> {}, profile |-> {}]}
            /\ row'.status = "ACTIVE"
        BY <3>2 DEF Create
      <4>5. \A m \in row'.members : m.user = Owner /\ m.id = q
        BY <4>4
      <4> QED BY <4>3, <4>4, <4>5
    <3>3. ASSUME NEW q \in Request, pc[q] = "save", Commit(q) PROVE <2>5!:
      <4>1. /\ op[q] \in [kind : Kind, user : User] /\ loaded[q] \in Row
            /\ outbox' = outbox \cup Raised(op[q], q, loaded[q])
        BY <3>3 DEF Commit, TypeOK
      <4>2. /\ \A e \in Raised(op[q], q, loaded[q]) : e.by = q /\ e.user = op[q].user
            /\ op[q].kind = "accept" => \E e \in Raised(op[q], q, loaded[q]) : e.type = "Added"
            /\ op[q].kind = "archive" => \E e \in Raised(op[q], q, loaded[q]) : e.type = "Archived"
        BY <4>1, RaisedAreEvents
      <4>3. Announced(loaded[q])
        BY <3>3 DEF AnnouncedInv
      <4> QED BY <3>3, <4>1, <4>2, <4>3, CommitMembers DEF Announced
    <3>4. ASSUME NEW k \in Call, Assign(k) PROVE <2>5!:
      <4> DEFINE given(m) == IF m.id \in found[k] THEN [m EXCEPT !.role = Target(k)] ELSE m
      <4>1. \A m \in Member : given(m).user = m.user /\ given(m).id = m.id
        BY DEF Member
      <4>2. row' = [row EXCEPT !.members = {given(m) : m \in row.members}] /\ UNCHANGED outbox
        BY <3>4 DEF Assign
      <4> HIDE DEF given
      <4>3. row.members \subseteq Member /\ row'.status = row.status
            /\ row'.members = {given(m) : m \in row.members}
        BY <4>2 DEF TypeOK, Row
      <4> QED BY <4>1, <4>2, <4>3 DEF AnnouncedInv, Announced
    <3> QED BY <3>1, <3>2, <3>3, <3>4, RequestSteps
  <2> QED BY <2>4, <2>5 DEF AnnouncedInv, Announced
<1> QED BY <1>1, <1>2, TypeCorrect, PTL DEF Spec

\* The table holds no member whose MemberAdded is not in the outbox and is not
\* archived without WorkspaceArchived, however stale the saves.
THEOREM EverythingAnnounced == Spec => []EverythingWasAnnounced
<1>1. AnnouncedInv => EverythingWasAnnounced
  BY DEF AnnouncedInv, Announced, EverythingWasAnnounced
<1> QED BY <1>1, AnnouncedInvariant, PTL

-----------------------------------------------------------------------------
(* The role OWNER is the owner's.                                          *)

\* An id of a member row has been given to one user, by a request that is over.
Ids ==
    /\ \A e \in outbox : pc[e.by] = "done"
    /\ \A e, f \in outbox :
        e.type = "Added" /\ f.type = "Added" /\ e.by = f.by => e.user = f.user

\* A call works with roles of the right name and with member rows of its user.
CallsFit ==
    \A k \in Call :
        /\ \A n \in RoleName : \A r \in using[k][n] : r[2] = n
        /\ stage[k] = "assign" =>
            \A i \in found[k] :
                \E e \in outbox : e.type = "Added" /\ e.by = i /\ e.user = who[k]

RolesFit(w) ==
    \A m \in w.members : \A r \in m.role : r \in roles /\ (r[2] = "OWNER" <=> m.user = Owner)

OwnerInv ==
    /\ Ids /\ CallsFit
    /\ RolesFit(row)
    /\ \A q \in Request : pc[q] = "save" => RolesFit(loaded[q])

LEMMA IdsKept == ASSUME TypeOK, Ids, [Next]_vars PROVE Ids'
<1>1. \A x \in Request : pc[x] = "done" => pc'[x] = "done"
  BY RequestSteps
<1>2. \A e \in outbox : e.by \in Request
  BY DEF TypeOK, Event
<1>3. CASE UNCHANGED <<row, outbox>>
  BY <1>1, <1>2, <1>3 DEF Ids
<1>4. ASSUME NEW q \in Request, NEW u \in User, pc[q] # "done", pc'[q] = "done",
             \A e \in outbox' : e \in outbox \/ (e.by = q /\ e.user = u)
      PROVE Ids'
  BY <1>1, <1>2, <1>4 DEF Ids
<1>5. ASSUME NEW q \in Request, Create(q) PROVE Ids'
  <2> DEFINE announced == {[type |-> t, user |-> Owner, by |-> q, of |-> {}] : t \in {"Added", "Created"}}
  <2>1. \A e \in announced : e.by = q /\ e.user = Owner
    OBVIOUS
  <2>2. outbox' = outbox \cup announced
    BY <1>5 DEF Create
  <2> HIDE DEF announced
  <2>3. pc[q] = "idle" /\ pc'[q] = "done"
    BY <1>5 DEF Create, End, TypeOK
  <2> QED BY <1>4, <2>1, <2>2, <2>3
<1>6. ASSUME NEW q \in Request, pc[q] = "save", pc'[q] = "done", Commit(q) PROVE Ids'
  <2>1. /\ op[q] \in [kind : Kind, user : User] /\ loaded[q] \in Row
        /\ outbox' = outbox \cup Raised(op[q], q, loaded[q])
    BY <1>6 DEF Commit, TypeOK
  <2>2. \A e \in Raised(op[q], q, loaded[q]) : e.by = q /\ e.user = op[q].user
    BY <2>1, RaisedAreEvents
  <2>3. op[q].user \in User
    BY <2>1
  <2> QED BY <1>4, <1>6, <2>1, <2>2, <2>3
<1>7. ASSUME NEW k \in Call, Assign(k) PROVE Ids'
  BY <1>1, <1>2, <1>7 DEF Assign, Ids
<1> QED BY <1>3, <1>5, <1>6, <1>7, RequestSteps

\* Calls move as the code says: a role they use has the name they looked for.
LEMMA CallsFitKept ==
    ASSUME TypeOK, AnnouncedInv, CallsFit, [Next]_vars PROVE CallsFit'
<1>1. outbox \subseteq outbox'
  BY RequestSteps
<1>2. ASSUME NEW k \in Call, Finish(k) PROVE CallsFit'
  <2>1. /\ using'[k] = [n \in RoleName |-> {}] /\ found'[k] = {}
        /\ \A l \in Call : l # k => /\ using'[l] = using[l] /\ found'[l] = found[l]
                                    /\ stage'[l] = stage[l] /\ who'[l] = who[l]
    BY <1>2 DEF Finish, Goto, TypeOK
  <2> QED BY <1>1, <2>1 DEF CallsFit
<1>3. ASSUME NEW k \in Call, NEW r, r[2] = Wanted(k), Use(k, r), UNCHANGED <<who, found>>
      PROVE CallsFit'
  <2>1. Wanted(k) \in RoleName
    BY DEF Wanted, RoleName
  <2>2. /\ \A n \in RoleName : using'[k][n] = IF n = r[2] THEN {r} ELSE using[k][n]
        /\ stage'[k] # "assign"
        /\ \A l \in Call : l # k => using'[l] = using[l] /\ stage'[l] = stage[l]
    BY <1>3, <2>1 DEF Use, Goto, TypeOK
  <2> QED BY <1>1, <1>3, <2>2 DEF CallsFit
<1>4. ASSUME UNCHANGED <<stage, who, using, found>> PROVE CallsFit'
  BY <1>1, <1>4 DEF CallsFit
<1>5. ASSUME NEW k \in Call, NEW u \in User, Deliver(k, u) PROVE CallsFit'
  <2>1. /\ UNCHANGED <<using, found>> /\ stage'[k] # "assign"
        /\ \A l \in Call : l # k => stage'[l] = stage[l] /\ who'[l] = who[l]
    BY <1>5 DEF Deliver, Goto, TypeOK
  <2> QED BY <1>1, <2>1 DEF CallsFit
<1>6. ASSUME NEW k \in Call, FindRole(k) PROVE CallsFit'
  <2>1. CASE \A r \in roles : r[2] # Wanted(k)
    <3>1. /\ UNCHANGED <<using, found, who>> /\ stage'[k] # "assign"
          /\ \A l \in Call : l # k => stage'[l] = stage[l]
      BY <1>6, <2>1 DEF FindRole, Goto, TypeOK
    <3> QED BY <1>1, <3>1 DEF CallsFit
  <2>2. CASE ~ \A r \in roles : r[2] # Wanted(k)
    BY <1>3, <1>6, <2>2 DEF FindRole
  <2> QED BY <2>1, <2>2
<1>7. ASSUME NEW k \in Call, CreateRole(k) PROVE CallsFit'
  <2> DEFINE r == <<k, Wanted(k)>>
  <2>1. r[2] = Wanted(k)
    OBVIOUS
  <2>2. Use(k, r) /\ UNCHANGED <<who, found>>
    BY <1>7 DEF CreateRole
  <2> HIDE DEF r
  <2> QED BY <1>3, <2>1, <2>2
<1>8. ASSUME NEW k \in Call, FindMember(k) PROVE CallsFit'
  <2>1. CASE Finish(k)
    BY <1>2, <2>1
  <2>2. CASE ~Finish(k)
    <3>1. /\ found' = [found EXCEPT ![k] = Unassigned(who[k])]
          /\ stage' = [stage EXCEPT ![k] = "assign"]
          /\ UNCHANGED <<who, using, outbox>>
      BY <1>8, <2>2 DEF FindMember, Goto
    <3>2. \A i \in Unassigned(who[k]) :
            \E e \in outbox : e.type = "Added" /\ e.by = i /\ e.user = who[k]
      BY DEF Unassigned, AnnouncedInv, Announced
    <3>3. found'[k] = Unassigned(who[k])
      BY <3>1 DEF TypeOK
    <3>4. \A l \in Call : l # k => found'[l] = found[l] /\ stage'[l] = stage[l]
      BY <3>1 DEF TypeOK
    <3> QED BY <3>1, <3>2, <3>3, <3>4 DEF CallsFit
  <2> QED BY <2>1, <2>2
<1>9. ASSUME NEW k \in Call, Assign(k) \/ CallThrows(k) PROVE CallsFit'
  BY <1>2, <1>9 DEF Assign, CallThrows
<1>10. ASSUME NEW q \in Request, NEW u \in User,
              \/ Create(q) \/ Find(q) \/ Save(q) \/ Throws(q)
              \/ UpdateWorkspace(q) \/ ArchiveWorkspace(q) \/ Invite(q, u)
              \/ AcceptInvite(q, u) \/ RemoveWorkspaceMember(q, u) \/ UpdateProfile(q, u)
       PROVE CallsFit'
  <2>1. UNCHANGED <<stage, who, using, found>>
    BY <1>10 DEF Create, Find, Save, Throws, UpdateWorkspace, ArchiveWorkspace, Invite,
                 AcceptInvite, RemoveWorkspaceMember, UpdateProfile, Command, calls
  <2> QED BY <1>4, <2>1
<1>11. CASE UNCHANGED vars
  BY <1>4, <1>11 DEF vars, calls
<1> QED BY <1>5, <1>6, <1>7, <1>8, <1>9, <1>10, <1>11, OwnerAssumption DEF Next

\* The role OWNER is the owner's alone and the owner's only role, though member
\* rows and their roles are written back from stale copies.
THEOREM OwnerRole == Spec => []OwnerRoleIsTheOwners
<1>1. Init => OwnerInv
  BY DEF Init, OwnerInv, Ids, CallsFit, RolesFit, NoRow
<1>2. OwnerInv /\ AnnouncedInv /\ TypeOK /\ [Next]_vars => OwnerInv'
  <2> SUFFICES ASSUME OwnerInv, AnnouncedInv, TypeOK, [Next]_vars PROVE OwnerInv'
    OBVIOUS
  <2>1. Ids' /\ CallsFit'
    BY IdsKept, CallsFitKept DEF OwnerInv
  <2>2. roles \subseteq roles'
    BY RequestSteps
  <2>3. ASSUME NEW q \in Request, pc'[q] = "save"
        PROVE \A m \in loaded'[q].members : \A r \in m.role :
                r \in roles' /\ (r[2] = "OWNER" <=> m.user = Owner)
    <3>1. loaded'[q] = row \/ (pc[q] = "save" /\ loaded'[q] = loaded[q])
      BY <2>3, RequestSteps
    <3> QED BY <2>2, <3>1 DEF OwnerInv, RolesFit
  <2>4. \A m \in row'.members : \A r \in m.role :
            r \in roles' /\ (r[2] = "OWNER" <=> m.user = Owner)
    <3>1. CASE UNCHANGED <<row, outbox>>
      BY <2>2, <3>1 DEF OwnerInv, RolesFit
    <3>2. ASSUME NEW q \in Request, Create(q) PROVE <2>4!:
      <4>1. row'.members = {[user |-> Owner, id |-> q, role |-> {}, profile |-> {}]}
        BY <3>2 DEF Create
      <4> QED BY <4>1
    <3>3. ASSUME NEW q \in Request, pc[q] = "save", Commit(q) PROVE <2>4!:
      <4>1. RolesFit(loaded[q])
        BY <3>3 DEF OwnerInv
      <4> QED BY <2>2, <3>3, <4>1, CommitMembers DEF RolesFit
    <3>4. ASSUME NEW k \in Call, Assign(k) PROVE <2>4!:
      <4> DEFINE given(m) == IF m.id \in found[k] THEN [m EXCEPT !.role = Target(k)] ELSE m
      <4>1. row' = [row EXCEPT !.members = {given(m) : m \in row.members}]
            /\ stage[k] = "assign"
        BY <3>4 DEF Assign
      <4>2. row'.members = {given(m) : m \in row.members} /\ row.members \subseteq Member
        <5> HIDE DEF given
        <5> QED BY <4>1 DEF TypeOK, Row
      <4>3. \A r \in Target(k) : r \in roles /\ (r[2] = "OWNER" <=> who[k] = Owner)
        BY DEF Target, OwnerInv, CallsFit, TypeOK, RoleName
      <4>4. ASSUME NEW m \in row.members, m.id \in found[k] PROVE m.user = who[k]
        <5>1. PICK e \in outbox : e.type = "Added" /\ e.user = m.user /\ e.by = m.id
          BY DEF AnnouncedInv, Announced
        <5>2. PICK f \in outbox : f.type = "Added" /\ f.by = m.id /\ f.user = who[k]
          BY <4>1, <4>4 DEF OwnerInv, CallsFit
        <5> QED BY <5>1, <5>2 DEF OwnerInv, Ids
      <4>5. \A m \in row.members : \A r \in given(m).role :
                r \in roles /\ (r[2] = "OWNER" <=> given(m).user = Owner)
        <5> TAKE m \in row.members
        <5>1. CASE m.id \in found[k]
          <6>1. given(m).role = Target(k) /\ given(m).user = m.user
            BY <4>2, <5>1 DEF Member
          <6> HIDE DEF given
          <6> QED BY <4>3, <4>4, <5>1, <6>1
        <5>2. CASE m.id \notin found[k]
          BY <5>2 DEF OwnerInv, RolesFit
        <5> QED BY <5>1, <5>2
      <4> HIDE DEF given
      <4> QED BY <2>2, <4>2, <4>5
    <3> QED BY <3>1, <3>2, <3>3, <3>4, RequestSteps
  <2> QED BY <2>1, <2>3, <2>4 DEF OwnerInv, RolesFit
<1>3. Spec => []AnnouncedInv
  BY AnnouncedInvariant
<1>4. OwnerInv => OwnerRoleIsTheOwners
  BY DEF OwnerInv, RolesFit, OwnerRoleIsTheOwners
<1> QED BY <1>1, <1>2, <1>3, <1>4, TypeCorrect, PTL DEF Spec

-----------------------------------------------------------------------------
(* Roles are created twice only by calls that overlap.                     *)

Under(k) == stage[k] \notin {"idle", "done"}

\* Calls under way have met.
CallsMet == \A k, l \in Call : Under(k) /\ Under(l) /\ k # l => {k, l} \in met

\* A call about to create a role has met the creator of any role of that name.
AboutToCreate ==
    \A k \in Call : stage[k] = "createRole" =>
        \A r \in roles : r[2] = Wanted(k) => r[1] = k \/ {k, r[1]} \in met

RolesInv == CallsMet /\ AboutToCreate /\ DuplicateRolesOverlap

\* A step that creates no role, starts no call and brings none to a creation.
LEMMA QuietCall ==
    ASSUME RolesInv, UNCHANGED <<roles, met>>,
           \A k \in Call : Under(k)' => Under(k),
           \A k \in Call : stage'[k] = "createRole" => stage[k] = "createRole" /\ using'[k] = using[k]
    PROVE RolesInv'
<1>1. CallsMet'
  BY DEF RolesInv, CallsMet
<1>2. AboutToCreate'
  BY DEF RolesInv, AboutToCreate, Wanted
<1>3. DuplicateRolesOverlap'
  BY DEF RolesInv, DuplicateRolesOverlap
<1> QED BY <1>1, <1>2, <1>3 DEF RolesInv

\* A role OWNER or MEMBER is created a second time only by a call that was under
\* way at the same time as the creator of the first.
THEOREM RolesAreDuplicatedByOverlap == Spec => []DuplicateRolesOverlap
<1>1. Init => RolesInv
  BY DEF Init, RolesInv, CallsMet, AboutToCreate, DuplicateRolesOverlap, Under
<1>2. RolesInv /\ TypeOK /\ [Next]_vars => RolesInv'
  <2> SUFFICES ASSUME RolesInv, TypeOK, [Next]_vars PROVE RolesInv'
    OBVIOUS
  <2>1. ASSUME NEW k \in Call, Finish(k), UNCHANGED <<roles, met>> PROVE RolesInv'
    <3>1. /\ ~Under(k)' /\ stage'[k] = "done"
          /\ \A l \in Call : l # k => stage'[l] = stage[l] /\ using'[l] = using[l]
      BY <2>1 DEF Finish, Goto, TypeOK, Under
    <3>2. \A l \in Call : Under(l)' => Under(l)
      BY <3>1 DEF Under
    <3> QED BY <2>1, <3>1, <3>2, QuietCall
  <2>2. ASSUME NEW k \in Call, NEW r, Use(k, r), Under(k)
        PROVE /\ \A l \in Call : Under(l)' => Under(l)
              /\ \A l \in Call : stage'[l] = "createRole" =>
                    l # k /\ stage[l] = "createRole" /\ using'[l] = using[l]
    <3>1. /\ stage'[k] # "createRole"
          /\ \A l \in Call : l # k => stage'[l] = stage[l] /\ using'[l] = using[l]
      BY <2>2 DEF Use, Goto, TypeOK
    <3> QED BY <2>2, <3>1 DEF Under
  <2>3. ASSUME NEW k \in Call, NEW u \in User, Deliver(k, u) PROVE RolesInv'
    <3>1. /\ stage[k] = "idle" /\ stage'[k] = "findRole" /\ UNCHANGED <<using, roles>>
          /\ \A l \in Call : l # k => stage'[l] = stage[l]
          /\ met' = met \cup {{k, l} : l \in {l \in Call : stage[l] \notin {"idle", "done"}}}
      BY <2>3 DEF Deliver, Goto, TypeOK
    <3>2. CallsMet'
      <4> SUFFICES ASSUME NEW x \in Call, NEW y \in Call, Under(x)', Under(y)', x # y
                   PROVE {x, y} \in met'
        BY DEF CallsMet
      <4>1. CASE x = k
        BY <3>1, <4>1 DEF Under
      <4>2. CASE y = k
        <5>1. {y, x} \in met' /\ {y, x} = {x, y}
          BY <3>1, <4>2 DEF Under
        <5> QED BY <5>1
      <4>3. CASE x # k /\ y # k
        BY <3>1, <4>3 DEF Under, RolesInv, CallsMet
      <4> QED BY <4>1, <4>2, <4>3
    <3>3. AboutToCreate'
      BY <3>1 DEF RolesInv, AboutToCreate, Wanted
    <3>4. DuplicateRolesOverlap'
      BY <3>1 DEF RolesInv, DuplicateRolesOverlap
    <3> QED BY <3>2, <3>3, <3>4 DEF RolesInv
  <2>4. ASSUME NEW k \in Call, FindRole(k) PROVE RolesInv'
    <3>1. stage[k] = "findRole" /\ UNCHANGED <<roles, met>> /\ Under(k)
      BY <2>4 DEF FindRole, Under
    <3>2. CASE \A r \in roles : r[2] # Wanted(k)
      <4>1. /\ stage'[k] = "createRole" /\ UNCHANGED using
            /\ \A l \in Call : l # k => stage'[l] = stage[l]
        BY <2>4, <3>2 DEF FindRole, Goto, TypeOK
      <4>2. CallsMet'
        BY <3>1, <4>1 DEF RolesInv, CallsMet, Under
      <4>3. AboutToCreate'
        BY <3>1, <3>2, <4>1 DEF RolesInv, AboutToCreate, Wanted
      <4>4. DuplicateRolesOverlap'
        BY <3>1 DEF RolesInv, DuplicateRolesOverlap
      <4> QED BY <4>2, <4>3, <4>4 DEF RolesInv
    <3>3. CASE ~ \A r \in roles : r[2] # Wanted(k)
      BY <2>2, <2>4, <3>1, <3>3, QuietCall DEF FindRole
    <3> QED BY <3>2, <3>3
  <2>5. ASSUME NEW k \in Call, CreateRole(k) PROVE RolesInv'
    <3> DEFINE n == Wanted(k)
    <3>0. PICK r : r = <<k, n>>
      OBVIOUS
    <3>1. r = <<k, n>> /\ r[1] = k /\ r[2] = n
      BY <3>0
    <3>2. /\ roles' = roles \cup {r} /\ Use(k, r) /\ UNCHANGED met
          /\ stage[k] = "createRole" /\ Under(k)
      BY <2>5, <3>1 DEF CreateRole, Under
    <3>3. /\ \A l \in Call : Under(l)' => Under(l)
          /\ \A l \in Call : stage'[l] = "createRole" =>
                l # k /\ stage[l] = "createRole" /\ using'[l] = using[l]
      BY <2>2, <3>2
    <3>4. CallsMet'
      BY <3>2, <3>3 DEF RolesInv, CallsMet
    <3>5. AboutToCreate'
      <4> SUFFICES ASSUME NEW l \in Call, stage'[l] = "createRole", NEW x \in roles', x[2] = Wanted(l)'
                   PROVE x[1] = l \/ {l, x[1]} \in met'
        BY DEF AboutToCreate
      <4>1. l # k /\ stage[l] = "createRole" /\ Under(l) /\ Wanted(l)' = Wanted(l)
        BY <3>3 DEF Under, Wanted
      <4>2. CASE x = r
        BY <3>1, <3>2, <4>1, <4>2 DEF RolesInv, CallsMet
      <4>3. CASE x # r
        BY <3>2, <4>1, <4>3 DEF RolesInv, AboutToCreate
      <4> QED BY <4>2, <4>3
    <3>6. DuplicateRolesOverlap'
      <4>1. ASSUME NEW x \in roles, x[2] = r[2] PROVE x = r \/ ({r[1], x[1]} \in met /\ {x[1], r[1]} \in met)
        <5>1. x[1] = k \/ {k, x[1]} \in met
          BY <3>1, <3>2, <4>1 DEF RolesInv, AboutToCreate
        <5>2. CASE x[1] = k
          <6>1. x = <<x[1], x[2]>>
            BY RoleParts DEF TypeOK
          <6> QED BY <3>1, <4>1, <5>2, <6>1
        <5>3. CASE {k, x[1]} \in met
          <6>1. {k, x[1]} = {x[1], k}
            OBVIOUS
          <6> QED BY <3>1, <5>3, <6>1
        <5> QED BY <5>1, <5>2, <5>3
      <4>2. \A x, y \in roles : x[2] = y[2] => x = y \/ {x[1], y[1]} \in met
        BY DEF RolesInv, DuplicateRolesOverlap
      <4> QED BY <3>2, <4>1, <4>2 DEF DuplicateRolesOverlap
    <3> QED BY <3>4, <3>5, <3>6 DEF RolesInv
  <2>6. ASSUME NEW k \in Call, FindMember(k) PROVE RolesInv'
    <3>1. CASE Finish(k)
      BY <2>1, <2>6, <3>1 DEF FindMember
    <3>2. CASE ~Finish(k)
      <4>1. /\ stage[k] = "findMember" /\ stage'[k] = "assign" /\ UNCHANGED <<using, roles, met>>
            /\ \A l \in Call : l # k => stage'[l] = stage[l]
        BY <2>6, <3>2 DEF FindMember, Goto, TypeOK
      <4>2. \A l \in Call : Under(l)' => Under(l)
        BY <4>1 DEF Under
      <4> QED BY <4>1, <4>2, QuietCall
    <3> QED BY <3>1, <3>2
  <2>7. ASSUME NEW k \in Call, Assign(k) \/ CallThrows(k) PROVE RolesInv'
    BY <2>1, <2>7 DEF Assign, CallThrows
  <2>8. ASSUME UNCHANGED <<roles, stage, using, met>> PROVE RolesInv'
    BY <2>8, QuietCall DEF Under
  <2>9. ASSUME NEW q \in Request, NEW u \in User,
               \/ Create(q) \/ Find(q) \/ Save(q) \/ Throws(q)
               \/ UpdateWorkspace(q) \/ ArchiveWorkspace(q) \/ Invite(q, u)
               \/ AcceptInvite(q, u) \/ RemoveWorkspaceMember(q, u) \/ UpdateProfile(q, u)
        PROVE RolesInv'
    <3>1. UNCHANGED <<roles, stage, using, met>>
      BY <2>9 DEF Create, Find, Save, Throws, UpdateWorkspace, ArchiveWorkspace, Invite,
                  AcceptInvite, RemoveWorkspaceMember, UpdateProfile, Command, calls
    <3> QED BY <2>8, <3>1
  <2>10. CASE UNCHANGED vars
    BY <2>8, <2>10 DEF vars, calls
  <2> QED BY <2>3, <2>4, <2>5, <2>6, <2>7, <2>9, <2>10, OwnerAssumption DEF Next
<1>3. RolesInv => DuplicateRolesOverlap
  BY DEF RolesInv
<1> QED BY <1>1, <1>2, <1>3, TypeCorrect, PTL DEF Spec

-----------------------------------------------------------------------------
(* Without stale saves, the outbox tells the table.                        *)

Holds(w, u, i) == \E m \in w.members : m.user = u /\ m.id = i

\* the member <<u, i>> has been added and not removed
Standing(u, i) ==
    /\ \E e \in outbox : e.type = "Added" /\ e.user = u /\ e.by = i
    /\ \A f \in outbox : i \notin f.of

Tells ==
    /\ \A u \in User, i \in Request : Holds(row, u, i) <=> Standing(u, i)
    /\ row.status = "ARCHIVED" <=> \E e \in outbox : e.type = "Archived"

\* Before the workspace is created nothing is announced and no request works
\* on it; what is removed was added, for the same user.
Begun ==
    /\ row.status = "none" => outbox = {} /\ row.members = {}
    /\ \A q \in Request : pc[q] \in {"find", "save"} => row.status # "none"
    /\ \A q \in Request : pc[q] = "save" => loaded[q].status # "none"
    /\ \A f \in outbox : \A i \in f.of :
        /\ f.type = "Removed"
        /\ \E e \in outbox : e.type = "Added" /\ e.by = i /\ e.user = f.user

TellsInv == Ids /\ Begun /\ (~raced => Tells)

\* The members and the status that a method leaves, exactly.
LEMMA ExecuteExactly ==
    ASSUME NEW o \in [kind : Kind, user : User], NEW q \in Request, NEW w \in Row,
           NEW v \in Execute(o, q, w), NEW u \in User, NEW i \in Request
    PROVE /\ Holds(v, u, i) <=> \/ Holds(w, u, i) /\ ~(o.kind = "remove" /\ u = o.user)
                                \/ o.kind = "accept" /\ u = o.user /\ i = q
          /\ v.status = IF o.kind = "archive" THEN "ARCHIVED" ELSE w.status
<1>1. CASE o.kind = "update"
  BY <1>1 DEF Execute, UpdateDetails, Row, Holds
<1>2. CASE o.kind = "archive"
  BY <1>2 DEF Execute, Archive, Row, Holds
<1>3. CASE o.kind = "invite"
  BY <1>3 DEF Execute, InviteMember, Row, Holds
<1>4. CASE o.kind = "accept"
  <2> DEFINE new == [user |-> o.user, id |-> q, role |-> {}, profile |-> {}]
  <2>1. v = [w EXCEPT !.members = w.members \cup {new}]
    BY <1>4 DEF Execute, AddMember
  <2>2. new.user = o.user /\ new.id = q
    OBVIOUS
  <2> HIDE DEF new
  <2>3. v.members = w.members \cup {new} /\ v.status = w.status
    BY <2>1 DEF Row
  <2> QED BY <1>4, <2>2, <2>3 DEF Holds
<1>5. CASE o.kind = "remove"
  <2>1. v = [w EXCEPT !.members = {m \in w.members : m.user # o.user}]
    BY <1>5 DEF Execute, RemoveMember
  <2> QED BY <1>5, <2>1 DEF Row, Holds
<1>6. CASE o.kind = "profile"
  <2> DEFINE changed(m) == IF m.user = o.user THEN [m EXCEPT !.profile = {q}] ELSE m
  <2>1. v = [w EXCEPT !.members = {changed(m) : m \in w.members}]
    BY <1>6 DEF Execute, UpdateMemberProfile
  <2>2. \A m \in Member : changed(m).user = m.user /\ changed(m).id = m.id
    BY DEF Member
  <2> HIDE DEF changed
  <2>3. w.members \subseteq Member /\ v.status = w.status /\ v.members = {changed(m) : m \in w.members}
    BY <2>1 DEF Row
  <2> QED BY <1>6, <2>2, <2>3 DEF Holds
<1> QED BY <1>1, <1>2, <1>3, <1>4, <1>5, <1>6 DEF Kind

\* The events that a method raises, exactly.
LEMMA RaisedExactly ==
    ASSUME NEW o \in [kind : Kind, user : User], NEW q \in Request, NEW w \in Row
    PROVE /\ \A e \in Raised(o, q, w) :
                /\ e.by = q /\ e.user = o.user
                /\ e.type = "Added" <=> o.kind = "accept"
                /\ e.type = "Archived" <=> o.kind = "archive"
                /\ e.type = "Removed" <=> o.kind = "remove"
                /\ \A i \in Request : i \in e.of <=> o.kind = "remove" /\ Holds(w, o.user, i)
          /\ o.kind \in {"accept", "archive", "remove"} => \E e \in Raised(o, q, w) : TRUE
<1>1. CASE o.kind \in {"update", "profile"}
  BY <1>1 DEF Raised
<1>2. ASSUME NEW t \in {"Archived", "Invited", "Added"},
             Raised(o, q, w) = {[type |-> t, user |-> o.user, by |-> q, of |-> {}]}
      PROVE \A e \in Raised(o, q, w) : e.by = q /\ e.user = o.user /\ e.type = t /\ e.of = {}
  BY <1>2
<1>3. CASE o.kind = "archive"
  <2>1. Raised(o, q, w) = {[type |-> "Archived", user |-> o.user, by |-> q, of |-> {}]}
    BY <1>3 DEF Raised
  <2> QED BY <1>2, <1>3, <2>1
<1>4. CASE o.kind = "invite"
  <2>1. Raised(o, q, w) = {[type |-> "Invited", user |-> o.user, by |-> q, of |-> {}]}
    BY <1>4 DEF Raised
  <2> QED BY <1>2, <1>4, <2>1
<1>5. CASE o.kind = "accept"
  <2>1. Raised(o, q, w) = {[type |-> "Added", user |-> o.user, by |-> q, of |-> {}]}
    BY <1>5 DEF Raised
  <2> QED BY <1>2, <1>5, <2>1
<1>6. CASE o.kind = "remove"
  <2> DEFINE ids == {m.id : m \in {m \in w.members : m.user = o.user}}
  <2>1. \A i \in Request : i \in ids <=> Holds(w, o.user, i)
    BY DEF Holds
  <2>2. Raised(o, q, w) = {[type |-> "Removed", user |-> o.user, by |-> q, of |-> ids]}
    BY <1>6 DEF Raised
  <2> HIDE DEF ids
  <2> QED BY <1>6, <2>1, <2>2
<1> QED BY <1>1, <1>3, <1>4, <1>5, <1>6 DEF Kind

\* The members and the status of the row that a save leaves, exactly.
LEMMA CommitExactly ==
    ASSUME TypeOK, NEW q \in Request, Commit(q), NEW u \in User, NEW i \in Request
    PROVE /\ Holds(row', u, i) <=>
                \/ Holds(loaded[q], u, i) /\ ~(op[q].kind = "remove" /\ u = op[q].user)
                \/ op[q].kind = "accept" /\ u = op[q].user /\ i = q
          /\ row'.status = IF op[q].kind = "archive" THEN "ARCHIVED" ELSE loaded[q].status
<1> DEFINE bare(m) == [m EXCEPT !.profile = {}]
<1>1. PICK v \in Execute(op[q], q, loaded[q]) : row' = Stored(v)
  BY DEF Commit
<1>2. op[q] \in [kind : Kind, user : User] /\ loaded[q] \in Row
  BY DEF TypeOK
<1>3. v \in Row
  BY <1>1, <1>2, ExecuteMembers
<1>4. \A m \in Member : bare(m).user = m.user /\ bare(m).id = m.id
  BY DEF Member
<1>5. row' = [v EXCEPT !.version = row.version + 1, !.members = {bare(m) : m \in v.members}]
  BY <1>1 DEF Stored
<1> HIDE DEF bare
<1>6. v.members \subseteq Member /\ row'.status = v.status /\ row'.members = {bare(m) : m \in v.members}
  BY <1>3, <1>5 DEF Row
<1>7. Holds(row', u, i) <=> Holds(v, u, i)
  BY <1>4, <1>6 DEF Holds
<1> QED BY <1>1, <1>2, <1>6, <1>7, ExecuteExactly

\* Requests start on an existing workspace, which never goes away.
LEMMA BegunKept == ASSUME TypeOK, AnnouncedInv, Begun, [Next]_vars PROVE Begun'
<1>1. /\ outbox \subseteq outbox'
      /\ \A x \in Request : pc'[x] = "save" =>
            loaded'[x] = row \/ (pc[x] = "save" /\ loaded'[x] = loaded[x])
  BY RequestSteps
<1>2. \A x \in Request : pc'[x] \in {"find", "save"} => pc[x] \in {"find", "save"} \/ row.status # "none"
  <2>1. ASSUME NEW q \in Request, End(q)
        PROVE \A x \in Request : pc'[x] \in {"find", "save"} => pc[x] = pc'[x]
    BY <2>1 DEF End, TypeOK
  <2>2. ASSUME NEW q \in Request, Find(q)
        PROVE \A x \in Request : pc'[x] \in {"find", "save"} => pc[x] \in {"find", "save"}
    BY <2>1, <2>2 DEF Find, TypeOK
  <2>3. ASSUME NEW q \in Request, NEW u \in User,
               \/ UpdateWorkspace(q) \/ ArchiveWorkspace(q) \/ Invite(q, u)
               \/ AcceptInvite(q, u) \/ RemoveWorkspaceMember(q, u) \/ UpdateProfile(q, u)
        PROVE row.status # "none"
    BY <2>3 DEF UpdateWorkspace, ArchiveWorkspace, Invite, AcceptInvite, RemoveWorkspaceMember,
                UpdateProfile, Command
  <2>4. ASSUME NEW k \in Call, NEW u \in User,
               \/ FindRole(k) \/ CreateRole(k) \/ FindMember(k) \/ Assign(k) \/ CallThrows(k)
               \/ Deliver(k, u)
        PROVE UNCHANGED pc
    BY <2>4 DEF FindRole, CreateRole, FindMember, Assign, CallThrows, Deliver, requests
  <2>5. ASSUME NEW q \in Request, Create(q) \/ Save(q) \/ Throws(q) PROVE End(q)
    BY <2>5 DEF Create, Save, Throws
  <2>6. CASE UNCHANGED vars
    BY <2>6 DEF vars, requests
  <2> QED BY <2>1, <2>2, <2>3, <2>4, <2>5, <2>6, OwnerAssumption DEF Next
<1>3. \A f \in outbox : \A i \in f.of :
        /\ f.type = "Removed"
        /\ \E e \in outbox' : e.type = "Added" /\ e.by = i /\ e.user = f.user
  BY <1>1 DEF Begun
<1>4. ASSUME row'.status # "none" \/ UNCHANGED <<row, outbox>>,
             row.status # "none" => row'.status # "none",
             \A f \in outbox' : f \in outbox \/ \A i \in f.of :
                /\ f.type = "Removed"
                /\ \E e \in outbox : e.type = "Added" /\ e.by = i /\ e.user = f.user
      PROVE Begun'
  <2>1. \A q \in Request : pc'[q] = "save" => loaded'[q].status # "none"
    BY <1>1, <1>2 DEF Begun
  <2>2. \A q \in Request : pc'[q] \in {"find", "save"} => row'.status # "none"
    BY <1>2, <1>4 DEF Begun
  <2>3. \A f \in outbox' : \A i \in f.of :
            /\ f.type = "Removed"
            /\ \E e \in outbox' : e.type = "Added" /\ e.by = i /\ e.user = f.user
    BY <1>1, <1>3, <1>4
  <2> QED BY <1>4, <2>1, <2>2, <2>3 DEF Begun
<1>5. CASE UNCHANGED <<row, outbox>>
  BY <1>4, <1>5
<1>6. ASSUME NEW q \in Request, Create(q) PROVE Begun'
  <2> DEFINE announced == {[type |-> t, user |-> Owner, by |-> q, of |-> {}] : t \in {"Added", "Created"}}
  <2>1. \A e \in announced : e.of = {}
    OBVIOUS
  <2>2. outbox' = outbox \cup announced /\ row'.status = "ACTIVE"
    BY <1>6 DEF Create
  <2> HIDE DEF announced
  <2> QED BY <1>4, <2>1, <2>2
<1>7. ASSUME NEW q \in Request, pc[q] = "save", Commit(q) PROVE Begun'
  <2>1. /\ op[q] \in [kind : Kind, user : User] /\ loaded[q] \in Row
        /\ outbox' = outbox \cup Raised(op[q], q, loaded[q])
        /\ Raised(op[q], q, loaded[q]) \subseteq Event
    BY <1>7, RaisedAreEvents DEF Commit, TypeOK
  <2>2. row'.status # "none"
    BY <1>7, CommitMembers DEF Begun
  <2>3. \A e \in Raised(op[q], q, loaded[q]) :
          \A i \in e.of :
            /\ e.type = "Removed"
            /\ \E f \in outbox : f.type = "Added" /\ f.by = i /\ f.user = e.user
    <3> TAKE e \in Raised(op[q], q, loaded[q])
    <3> TAKE i \in e.of
    <3>1. i \in Request
      BY <2>1 DEF Event
    <3>2. Holds(loaded[q], op[q].user, i) /\ e.type = "Removed" /\ e.user = op[q].user
      BY <2>1, <3>1, RaisedExactly
    <3> QED BY <1>7, <3>2 DEF Holds, AnnouncedInv, Announced
  <2> QED BY <1>4, <2>1, <2>2, <2>3
<1>8. ASSUME NEW k \in Call, Assign(k) PROVE Begun'
  <2>1. UNCHANGED <<outbox, pc, loaded>> /\ row'.status = row.status
    BY <1>8 DEF Assign, requests, TypeOK, Row
  <2>2. row.status = "none" => row'.members = {}
    <3>1. row' = [row EXCEPT !.members =
                {IF m.id \in found[k] THEN [m EXCEPT !.role = Target(k)] ELSE m : m \in row.members}]
      BY <1>8 DEF Assign
    <3> QED BY <3>1 DEF Begun, TypeOK, Row
  <2>3. \A q \in Request : pc[q] \in {"find", "save"} => row'.status # "none"
    BY <2>1 DEF Begun
  <2> QED BY <2>1, <2>2, <2>3 DEF Begun
<1> QED BY <1>5, <1>6, <1>7, <1>8, RequestSteps

\* That a save was stale is not forgotten.
LEMMA RacedStays == ASSUME [Next]_vars PROVE raced => raced'
<1>1. ASSUME NEW q \in Request, Commit(q) PROVE raced' = (raced \/ loaded[q] # row)
  BY <1>1 DEF Commit
<1>2. ASSUME NEW q \in Request, NEW u \in User,
             \/ Create(q) \/ Find(q) \/ UpdateWorkspace(q) \/ ArchiveWorkspace(q)
             \/ Invite(q, u) \/ AcceptInvite(q, u) \/ RemoveWorkspaceMember(q, u)
             \/ UpdateProfile(q, u)
      PROVE UNCHANGED raced
  BY <1>2 DEF Create, Find, UpdateWorkspace, ArchiveWorkspace, Invite,
              AcceptInvite, RemoveWorkspaceMember, UpdateProfile, Command
<1>3. ASSUME NEW q \in Request, Save(q) \/ Throws(q) PROVE Commit(q) \/ UNCHANGED raced
  BY <1>3 DEF Save, Throws
<1>4. ASSUME NEW k \in Call, NEW u \in User,
             \/ FindRole(k) \/ CreateRole(k) \/ FindMember(k) \/ Assign(k) \/ CallThrows(k)
             \/ Deliver(k, u)
      PROVE UNCHANGED raced
  BY <1>4 DEF FindRole, CreateRole, FindMember, Assign, CallThrows, Deliver
<1>5. CASE UNCHANGED vars
  BY <1>5 DEF vars
<1> QED BY <1>1, <1>2, <1>3, <1>4, <1>5, OwnerAssumption DEF Next

\* A save from the row itself keeps the tale.
LEMMA FreshSaveTells ==
    ASSUME TypeOK, AnnouncedInv, Ids, Begun, Tells, NEW q \in Request, pc[q] = "save", Commit(q),
           loaded[q] = row
    PROVE Tells'
<1> DEFINE o == op[q]
<1>1. /\ o \in [kind : Kind, user : User] /\ row \in Row
      /\ outbox' = outbox \cup Raised(o, q, row)
  BY DEF Commit, TypeOK
<1>2. /\ \A e \in Raised(o, q, row) :
            /\ e.by = q /\ e.user = o.user
            /\ e.type = "Added" <=> o.kind = "accept"
            /\ e.type = "Archived" <=> o.kind = "archive"
            /\ \A i \in Request : i \in e.of <=> o.kind = "remove" /\ Holds(row, o.user, i)
      /\ o.kind \in {"accept", "archive", "remove"} => \E e \in Raised(o, q, row) : TRUE
  BY <1>1, RaisedExactly
<1>3. \A e \in outbox : e.by # q /\ q \notin e.of
  BY DEF Ids, Begun
<1>4. /\ \A u \in User, i \in Request :
            Holds(row', u, i) <=> \/ Holds(row, u, i) /\ ~(o.kind = "remove" /\ u = o.user)
                                  \/ o.kind = "accept" /\ u = o.user /\ i = q
      /\ row'.status = IF o.kind = "archive" THEN "ARCHIVED" ELSE row.status
  BY CommitExactly, OwnerAssumption
<1> HIDE DEF o
<1>5. ASSUME NEW u \in User, NEW i \in Request
      PROVE Holds(row', u, i) <=>
                /\ \E e \in outbox' : e.type = "Added" /\ e.user = u /\ e.by = i
                /\ \A f \in outbox' : i \notin f.of
  <2>1. Holds(row, u, i) <=> Standing(u, i)
    BY DEF Tells
  <2>2. CASE o.kind = "accept"
    <3>1. (\E e \in outbox' : e.type = "Added" /\ e.user = u /\ e.by = i)
            <=> \/ \E e \in outbox : e.type = "Added" /\ e.user = u /\ e.by = i
                \/ u = o.user /\ i = q
      BY <1>1, <1>2, <2>2
    <3>2. (\A f \in outbox' : i \notin f.of) <=> (\A f \in outbox : i \notin f.of)
      BY <1>1, <1>2, <2>2
    <3> QED BY <1>3, <1>4, <2>1, <2>2, <3>1, <3>2 DEF Standing
  <2>3. CASE o.kind = "remove"
    <3>1. (\E e \in outbox' : e.type = "Added" /\ e.user = u /\ e.by = i)
            <=> \E e \in outbox : e.type = "Added" /\ e.user = u /\ e.by = i
      BY <1>1, <1>2, <2>3
    <3>2. (\A f \in outbox' : i \notin f.of)
            <=> (\A f \in outbox : i \notin f.of) /\ ~Holds(row, o.user, i)
      BY <1>1, <1>2, <2>3
    <3>3. Holds(row, u, i) /\ Holds(row, o.user, i) => u = o.user
      BY <1>1 DEF Ids, Holds, AnnouncedInv, Announced
    <3> QED BY <1>4, <2>1, <2>3, <3>1, <3>2, <3>3 DEF Standing
  <2>4. CASE o.kind \notin {"accept", "remove"}
    <3>1. (\E e \in outbox' : e.type = "Added" /\ e.user = u /\ e.by = i)
            <=> \E e \in outbox : e.type = "Added" /\ e.user = u /\ e.by = i
      BY <1>1, <1>2, <2>4
    <3>2. (\A f \in outbox' : i \notin f.of) <=> (\A f \in outbox : i \notin f.of)
      BY <1>1, <1>2, <2>4
    <3> QED BY <1>4, <2>1, <2>4, <3>1, <3>2 DEF Standing
  <2> QED BY <2>2, <2>3, <2>4
<1>6. row'.status = "ARCHIVED" <=> \E e \in outbox' : e.type = "Archived"
  BY <1>1, <1>2, <1>4 DEF Tells
<1> QED BY <1>5, <1>6 DEF Tells, Standing

\* What the events tell is true of the table until a save is stale, and that a
\* member is removed of whom they tell that he was added always.
LEMMA TellsInvariant == Spec => []TellsInv
<1>1. Init => TellsInv
  BY DEF Init, TellsInv, Ids, Begun, Tells, Holds, Standing, NoRow
<1>2. TellsInv /\ AnnouncedInv /\ TypeOK /\ [Next]_vars => TellsInv'
  <2> SUFFICES ASSUME TellsInv, AnnouncedInv, TypeOK, [Next]_vars PROVE TellsInv'
    OBVIOUS
  <2>1. Ids' /\ Begun'
    BY IdsKept, BegunKept DEF TellsInv
  <2>2. ASSUME ~raced' PROVE Tells'
    <3>1. ~raced
      BY <2>2, RacedStays
    <3>2. Tells
      BY <3>1 DEF TellsInv
    <3>3. CASE UNCHANGED <<row, outbox>>
      BY <3>2, <3>3 DEF Tells, Holds, Standing
    <3>4. ASSUME NEW q \in Request, Create(q) PROVE Tells'
      <4> DEFINE announced == {[type |-> t, user |-> Owner, by |-> q, of |-> {}] : t \in {"Added", "Created"}}
      <4>1. /\ \A e \in announced : e.user = Owner /\ e.by = q /\ e.of = {} /\ e.type # "Archived"
            /\ \E e \in announced : e.type = "Added"
        <5>1. \A e \in announced : e.user = Owner /\ e.by = q /\ e.of = {}
          OBVIOUS
        <5>2. \A e \in announced : e.type # "Archived"
          OBVIOUS
        <5>3. [type |-> "Added", user |-> Owner, by |-> q, of |-> {}] \in announced
          OBVIOUS
        <5> HIDE DEF announced
        <5> QED BY <5>1, <5>2, <5>3
      <4>2. outbox = {} /\ outbox' = outbox \cup announced
        BY <3>4 DEF Create, TellsInv, Begun
      <4>3. /\ row'.members = {[user |-> Owner, id |-> q, role |-> {}, profile |-> {}]}
            /\ row'.status = "ACTIVE"
        BY <3>4 DEF Create
      <4> HIDE DEF announced
      <4>4. \A u \in User, i \in Request : Holds(row', u, i) <=> u = Owner /\ i = q
        BY <4>3 DEF Holds
      <4> QED BY <4>1, <4>2, <4>3, <4>4 DEF Tells, Standing, Holds
    <3>5. ASSUME NEW q \in Request, pc[q] = "save", Commit(q) PROVE Tells'
      <4>1. loaded[q] = row
        BY <2>2, <3>5 DEF Commit
      <4> QED BY <3>2, <3>5, <4>1, FreshSaveTells DEF TellsInv
    <3>6. ASSUME NEW k \in Call, Assign(k) PROVE Tells'
      <4> DEFINE given(m) == IF m.id \in found[k] THEN [m EXCEPT !.role = Target(k)] ELSE m
      <4>1. \A m \in Member : given(m).user = m.user /\ given(m).id = m.id
        BY DEF Member
      <4>2. row' = [row EXCEPT !.members = {given(m) : m \in row.members}] /\ UNCHANGED outbox
        BY <3>6 DEF Assign
      <4> HIDE DEF given
      <4>3. row.members \subseteq Member /\ row'.status = row.status
            /\ row'.members = {given(m) : m \in row.members}
        BY <4>2 DEF TypeOK, Row
      <4>4. \A u \in User, i \in Request : Holds(row', u, i) <=> Holds(row, u, i)
        BY <4>1, <4>3 DEF Holds
      <4> QED BY <3>2, <4>2, <4>3, <4>4 DEF Tells, Standing, Holds
    <3> QED BY <3>3, <3>4, <3>5, <3>6, RequestSteps
  <2> QED BY <2>1, <2>2 DEF TellsInv
<1> QED BY <1>1, <1>2, AnnouncedInvariant, TypeCorrect, PTL DEF Spec

\* As long as no save came from a copy left behind, the events of the outbox
\* tell the members and the status of the table: a reader of the events can
\* rebuild both.
THEOREM OutboxTells == Spec => []OutboxTellsTheTable
<1>1. TellsInv /\ TypeOK => OutboxTellsTheTable
  <2> SUFFICES ASSUME TellsInv, TypeOK, ~raced
               PROVE {<<m.user, m.id>> : m \in row.members} =
                        {<<e.user, e.by>> : e \in {e \in outbox :
                            e.type = "Added" /\ \A f \in outbox : e.by \notin f.of}}
    BY DEF OutboxTellsTheTable, TellsInv, Tells
  <2>1. \A m \in row.members : m.user \in User /\ m.id \in Request
    BY DEF TypeOK, Row, Member
  <2>2. \A e \in outbox : e.user \in User /\ e.by \in Request
    BY DEF TypeOK, Event
  <2>3. \A u \in User, i \in Request : Holds(row, u, i) <=> Standing(u, i)
    BY DEF TellsInv, Tells
  <2>4. ASSUME NEW m \in row.members
        PROVE \E e \in outbox : /\ e.type = "Added" /\ e.user = m.user /\ e.by = m.id
                                /\ \A f \in outbox : e.by \notin f.of
    BY <2>1, <2>3 DEF Holds, Standing
  <2>5. ASSUME NEW e \in outbox, e.type = "Added", \A f \in outbox : e.by \notin f.of
        PROVE \E m \in row.members : m.user = e.user /\ m.id = e.by
    BY <2>2, <2>3, <2>5 DEF Holds, Standing
  <2> QED BY <2>4, <2>5
<1> QED BY <1>1, TellsInvariant, TypeCorrect, PTL

-----------------------------------------------------------------------------
(* An archived workspace is closed.                                        *)

\* No method that an archived workspace lets through opens it or adds a member.
LEMMA ArchivedExecute ==
    ASSUME NEW o \in [kind : Kind, user : User], NEW q \in Request, NEW w \in Row,
           w.status = "ARCHIVED", NEW v \in Execute(o, q, w)
    PROVE v.status = "ARCHIVED" /\ UsersOf(v) \subseteq UsersOf(w)
<1>1. o.kind # "accept"
  BY DEF Execute, AddMember
<1>2. \A m \in v.members : \E n \in w.members : m.user = n.user
  BY <1>1, ExecuteMembers
<1>3. v.status = "ARCHIVED"
  BY ExecuteMembers
<1> QED BY <1>2, <1>3 DEF UsersOf

\* What the save of a copy leaves has the status and the users of the copy.
LEMMA StoredUsers ==
    ASSUME NEW v \in Row
    PROVE Stored(v).status = v.status /\ UsersOf(Stored(v)) = UsersOf(v)
<1> DEFINE bare(m) == [m EXCEPT !.profile = {}]
<1>1. \A m \in Member : bare(m).user = m.user
  BY DEF Member
<1>2. Stored(v) = [v EXCEPT !.version = row.version + 1, !.members = {bare(m) : m \in v.members}]
  BY DEF Stored
<1> HIDE DEF bare
<1>3. Stored(v).status = v.status /\ Stored(v).members = {bare(m) : m \in v.members}
  BY <1>2 DEF Row
<1>4. v.members \subseteq Member
  BY DEF Row
<1> QED BY <1>1, <1>3, <1>4 DEF UsersOf

\* An assignment keeps the status and the users.
LEMMA AssignUsers ==
    ASSUME TypeOK, NEW k \in Call, Assign(k)
    PROVE row'.status = row.status /\ UsersOf(row') = UsersOf(row)
<1> DEFINE given(m) == IF m.id \in found[k] THEN [m EXCEPT !.role = Target(k)] ELSE m
<1>1. \A m \in Member : given(m).user = m.user
  BY DEF Member
<1>2. row' = [row EXCEPT !.members = {given(m) : m \in row.members}]
  BY DEF Assign
<1> HIDE DEF given
<1>3. row'.status = row.status /\ row'.members = {given(m) : m \in row.members}
      /\ row.members \subseteq Member
  BY <1>2 DEF TypeOK, Row
<1> QED BY <1>1, <1>3 DEF UsersOf

\* An archived workspace stays archived and admits nobody, by any number of
\* accepted invitations and archivings, unless a save writes back a copy that
\* the table has left behind.
THEOREM ArchivedClosed == Spec => ArchivedIsClosed
<1>1. TypeOK /\ [Next]_vars =>
        (row.status = "ARCHIVED" =>
            \/ row'.status = "ARCHIVED" /\ UsersOf(row') \subseteq UsersOf(row)
            \/ \E q \in Request : pc[q] = "save" /\ pc'[q] # "save" /\ loaded[q] # row)
  <2> SUFFICES ASSUME TypeOK, [Next]_vars, row.status = "ARCHIVED",
                      \A q \in Request : pc[q] = "save" /\ pc'[q] # "save" => loaded[q] = row
               PROVE row'.status = "ARCHIVED" /\ UsersOf(row') \subseteq UsersOf(row)
    OBVIOUS
  <2>1. CASE UNCHANGED <<row, outbox>>
    BY <2>1
  <2>2. ASSUME NEW q \in Request, Create(q) PROVE FALSE
    BY <2>2 DEF Create
  <2>3. ASSUME NEW q \in Request, pc[q] = "save", pc'[q] = "done", Commit(q)
        PROVE row'.status = "ARCHIVED" /\ UsersOf(row') \subseteq UsersOf(row)
    <3>1. loaded[q] = row /\ op[q] \in [kind : Kind, user : User] /\ row \in Row
      BY <2>3 DEF TypeOK
    <3>2. PICK v \in Execute(op[q], q, row) : row' = Stored(v)
      BY <2>3, <3>1 DEF Commit
    <3>3. v \in Row /\ v.status = "ARCHIVED" /\ UsersOf(v) \subseteq UsersOf(row)
      BY <3>1, <3>2, ExecuteMembers, ArchivedExecute
    <3> QED BY <3>2, <3>3, StoredUsers
  <2>4. ASSUME NEW k \in Call, Assign(k)
        PROVE row'.status = "ARCHIVED" /\ UsersOf(row') \subseteq UsersOf(row)
    BY <2>4, AssignUsers
  <2> QED BY <2>1, <2>2, <2>3, <2>4, RequestSteps
<1> QED BY <1>1, TypeCorrect, PTL DEF Spec, ArchivedIsClosed

-----------------------------------------------------------------------------
(* The pages and cookies of Invitations.  To the API they are users like   *)
(* others: what holds of Workspace holds behind them.                      *)

USE VisitorAssumption

\* What the workspace does when a page posts, or hears of its request, is a
\* step of Workspace.
LEMMA InviteStep == ASSUME [InviteNext]_inviteVars PROVE [Next]_vars
<1>1. CASE UNCHANGED inviteVars
  BY <1>1 DEF inviteVars
<1>2. CASE Elsewhere
  BY <1>2 DEF Elsewhere, Next
<1>3. ASSUME NEW q \in Request, Answered(q) PROVE Find(q) \/ Save(q) \/ Throws(q)
  BY <1>3 DEF Answered
<1>4. CASE \E q \in Request : Answered(q)
  BY <1>3, <1>4 DEF Next
<1>5. ASSUME NEW u \in Visitor, OpenInvite(u) \/ ReadMyWorkspaces(u) \/ SignIn(u)
      PROVE UNCHANGED vars
  BY <1>5 DEF OpenInvite, ReadMyWorkspaces, SignIn
<1>6. ASSUME NEW u \in Visitor, NEW q \in Request, HandleAccept(u, q) PROVE Next
  <2>1. u \in User /\ AcceptInvite(q, u)
    BY <1>6 DEF HandleAccept
  <2> QED BY <2>1 DEF Next
<1> QED BY <1>1, <1>2, <1>4, <1>5, <1>6 DEF InviteNext

\* The workspace behind the pages is a workspace.
THEOREM BehindThePages == InviteSpec => Spec
<1>1. InviteInit => Init
  BY DEF InviteInit
<1>2. [InviteNext]_inviteVars => [Next]_vars
  BY InviteStep
<1> QED BY <1>1, <1>2, PTL DEF InviteSpec, Spec

\* A page waits for one request, which accepts for its user and is not over.
Posted ==
    \A u \in Visitor : \A q \in waits[u] :
        /\ waits[u] = {q}
        /\ pc[q] \in {"find", "save"}
        /\ op[q] = [kind |-> "accept", user |-> u]

InviteInv == BrowserTypeOK /\ Posted /\ SessionsAreEarned

\* A request that is under way goes on, or it ends; nobody else touches it.
LEMMA OthersGoOn ==
    ASSUME TypeOK, NEW q \in Request, Find(q) \/ Save(q) \/ Throws(q)
    PROVE /\ \A x \in Request \ {q} : pc'[x] = pc[x] /\ op'[x] = op[x]
          /\ pc'[q] = "save" => pc[q] = "find" /\ op'[q] = op[q]
<1>1. CASE End(q)
  BY <1>1 DEF End, TypeOK
<1>2. CASE ~End(q)
  <2>1. pc[q] = "find" /\ pc' = [pc EXCEPT ![q] = "save"] /\ op' = op
    BY <1>2 DEF Find, Save, Throws
  <2> QED BY <2>1 DEF TypeOK
<1> QED BY <1>1, <1>2

\* Elsewhere no request that a page waits for makes a step.
LEMMA ElsewhereWaits ==
    ASSUME TypeOK, Elsewhere
    PROVE \A x \in Request : pc[x] \in {"find", "save"} => pc'[x] = pc[x] /\ op'[x] = op[x]
<1>1. ASSUME NEW q \in Request, Create(q)
      PROVE \A x \in Request : pc[x] \in {"find", "save"} => pc'[x] = pc[x] /\ op'[x] = op[x]
  BY <1>1 DEF Create, End, TypeOK
<1>2. ASSUME NEW q \in Request, NEW u \in User, NEW kind, Command(q, kind, u)
      PROVE \A x \in Request : pc[x] \in {"find", "save"} => pc'[x] = pc[x] /\ op'[x] = op[x]
  BY <1>2 DEF Command, TypeOK
<1>3. ASSUME NEW q \in Request, NEW u \in User,
             \/ UpdateWorkspace(q) \/ ArchiveWorkspace(q) \/ Invite(q, u)
             \/ AcceptInvite(q, u) \/ RemoveWorkspaceMember(q, u) \/ UpdateProfile(q, u)
      PROVE \E v \in User, kind \in Kind : Command(q, kind, v)
  BY <1>3 DEF UpdateWorkspace, ArchiveWorkspace, Invite, AcceptInvite, RemoveWorkspaceMember,
              UpdateProfile, Kind
<1>4. ASSUME NEW k \in Call,
             \/ FindRole(k) \/ CreateRole(k) \/ FindMember(k) \/ Assign(k) \/ CallThrows(k)
             \/ \E u \in User : Deliver(k, u)
      PROVE UNCHANGED <<pc, op>>
  BY <1>4 DEF FindRole, CreateRole, FindMember, Assign, CallThrows, Deliver, requests
<1>5. CASE \E q \in Request : Create(q)
  BY <1>1, <1>5
<1>6. CASE \E q \in Request, u \in User :
             \/ UpdateWorkspace(q) \/ ArchiveWorkspace(q) \/ Invite(q, u)
             \/ AcceptInvite(q, u) \/ RemoveWorkspaceMember(q, u) \/ UpdateProfile(q, u)
  BY <1>2, <1>3, <1>6
<1>7. CASE \E k \in Call :
             \/ FindRole(k) \/ CreateRole(k) \/ FindMember(k) \/ Assign(k) \/ CallThrows(k)
             \/ \E u \in User : Deliver(k, u)
  BY <1>4, <1>7
<1> QED BY <1>5, <1>6, <1>7 DEF Elsewhere

\* The list shows a member in one role, the owner's to the owner only.
LEMMA RoleShownFits ==
    ASSUME TypeOK, OwnerRoleIsTheOwners, NEW u \in Visitor
    PROVE /\ \A s \in MyWorkspaces(u) : s \in RoleName /\ (s = "OWNER" => u = Owner)
          /\ MyWorkspaces(u) # {} <=> \E m \in row.members : m.user = u
<1>1. CASE u \in UsersOf(row)
  <2> DEFINE m == CHOOSE m \in row.members : m.user = u
  <2>1. m \in row.members /\ m.user = u
    BY <1>1 DEF UsersOf
  <2>2. m.role \subseteq Role
    BY <2>1 DEF TypeOK, Row, Member
  <2>3. RoleShown(u) = IF m.role # {} THEN (CHOOSE r \in m.role : TRUE)[2]
                       ELSE IF u = Owner THEN "OWNER" ELSE "MEMBER"
    BY DEF RoleShown
  <2>4. MyWorkspaces(u) = {RoleShown(u)}
    BY <1>1 DEF MyWorkspaces
  <2> HIDE DEF m
  <2>5. CASE m.role # {}
    <3> DEFINE r == CHOOSE r \in m.role : TRUE
    <3>1. r \in m.role
      BY <2>5
    <3>2. RoleShown(u) = r[2]
      BY <2>3, <2>5
    <3> HIDE DEF r
    <3>3. r[2] \in RoleName /\ (r[2] = "OWNER" => m.user = Owner)
      BY <2>1, <2>2, <3>1, RoleParts DEF OwnerRoleIsTheOwners
    <3> QED BY <2>1, <2>4, <3>2, <3>3
  <2>6. CASE m.role = {}
    BY <2>1, <2>3, <2>4, <2>6 DEF RoleName
  <2> QED BY <2>5, <2>6
<1>2. CASE u \notin UsersOf(row)
  BY <1>2 DEF MyWorkspaces, UsersOf
<1> QED BY <1>1, <1>2

\* What a page waits for, what it shows and what is in the cookie go together,
\* at every step of a request or of another page.
LEMMA InviteTypesStep ==
    ASSUME TypeOK, OwnerRoleIsTheOwners, BrowserTypeOK, Posted, [InviteNext]_inviteVars
    PROVE BrowserTypeOK' /\ Posted'
<1>1. CASE UNCHANGED inviteVars
  BY <1>1 DEF inviteVars, vars, requests, browsers, BrowserTypeOK, Posted
<1>2. CASE Elsewhere
  <2>1. UNCHANGED <<page, waits, session>>
    BY <1>2 DEF Elsewhere, browsers
  <2>2. \A u \in Visitor : \A q \in waits[u] : pc'[q] = pc[q] /\ op'[q] = op[q]
    BY <1>2, ElsewhereWaits DEF Posted, BrowserTypeOK
  <2> QED BY <2>1, <2>2 DEF BrowserTypeOK, Posted
<1>3. ASSUME NEW q \in Request, Answered(q), UNCHANGED session
      PROVE BrowserTypeOK' /\ Posted'
  <2>1. Find(q) \/ Save(q) \/ Throws(q)
    BY <1>3 DEF Answered
  <2>2. \A x \in Request \ {q} : pc'[x] = pc[x] /\ op'[x] = op[x]
    BY <2>1, OthersGoOn
  <2>3. ASSUME pc'[q] = "save", UNCHANGED <<page, waits>> PROVE BrowserTypeOK' /\ Posted'
    <3>1. pc[q] = "find" /\ op'[q] = op[q]
      BY <2>1, <2>3, OthersGoOn
    <3>2. \A x \in Request : pc[x] \in {"find", "save"} => pc'[x] \in {"find", "save"} /\ op'[x] = op[x]
      BY <2>2, <2>3, <3>1
    <3> QED BY <1>3, <2>3, <3>2 DEF BrowserTypeOK, Posted
  <2>4. ASSUME NEW s \in {"reading", "ready"}, Answer(q, s) PROVE BrowserTypeOK' /\ Posted'
    <3>1. page' = [u \in Visitor |-> IF q \in waits[u] THEN s ELSE page[u]]
          /\ waits' = [u \in Visitor |-> waits[u] \ {q}]
      BY <2>4 DEF Answer
    <3>2. page' \in [Visitor -> {"none", "ready", "posting", "reading"}]
          /\ waits' \in [Visitor -> SUBSET Request]
      BY <3>1 DEF BrowserTypeOK
    <3>3. ASSUME NEW u \in Visitor
          PROVE \/ waits'[u] = {} /\ page'[u] = s
                \/ waits'[u] = waits[u] /\ page'[u] = page[u] /\ q \notin waits[u]
      <4>1. q \in waits[u] => waits[u] = {q}
        BY DEF Posted
      <4> QED BY <3>1, <4>1
    <3>4. \A u \in Visitor : waits'[u] # {} <=> page'[u] = "posting"
      BY <3>3, <2>4 DEF BrowserTypeOK
    <3>5. ASSUME NEW u \in Visitor, NEW x \in waits'[u]
          PROVE /\ waits'[u] = {x}
                /\ pc'[x] \in {"find", "save"}
                /\ op'[x] = [kind |-> "accept", user |-> u]
      <4>1. waits'[u] = waits[u] /\ x \in waits[u] /\ x # q /\ x \in Request
        BY <3>3, <3>5 DEF BrowserTypeOK
      <4>2. pc'[x] = pc[x] /\ op'[x] = op[x]
        BY <2>2, <4>1
      <4> QED BY <4>1, <4>2 DEF Posted
    <3> QED BY <1>3, <3>2, <3>4, <3>5 DEF BrowserTypeOK, Posted
  <2> QED BY <1>3, <2>3, <2>4 DEF Answered
<1>4. ASSUME NEW u \in Visitor, OpenInvite(u) PROVE BrowserTypeOK' /\ Posted'
  BY <1>4 DEF OpenInvite, BrowserTypeOK, Posted, vars, requests
<1>5. ASSUME NEW u \in Visitor, ReadMyWorkspaces(u) PROVE BrowserTypeOK' /\ Posted'
  <2>1. /\ UNCHANGED <<pc, op, waits>>
        /\ \E s \in {"none", "ready"} : page' = [page EXCEPT ![u] = s]
        /\ page[u] = "reading"
    BY <1>5 DEF ReadMyWorkspaces, vars, requests
  <2>4. /\ page' \in [Visitor -> {"none", "ready", "posting", "reading"}]
        /\ \A v \in Visitor : page'[v] = "posting" <=> page[v] = "posting"
    BY <2>1 DEF BrowserTypeOK
  <2>2. \/ UNCHANGED session
        \/ session' = [session EXCEPT ![u] = {"USER"}]
        \/ session' = [session EXCEPT ![u] = MyWorkspaces(u)]
    BY <1>5 DEF ReadMyWorkspaces
  <2>3. session' \in [Visitor -> SUBSET (RoleName \cup {"USER"})]
    BY <2>2, RoleShownFits DEF BrowserTypeOK
  <2>5. waits' = waits /\ pc' = pc /\ op' = op
    BY <2>1
  <2>6. Posted'
    BY <2>5, Zenon DEF Posted
  <2> QED BY <2>3, <2>4, <2>5, <2>6 DEF BrowserTypeOK
<1>6. ASSUME NEW u \in Visitor, SignIn(u) PROVE BrowserTypeOK' /\ Posted'
  <2>1. UNCHANGED <<pc, op, page, waits>>
    BY <1>6 DEF SignIn, vars, requests
  <2>2. session' \in [Visitor -> SUBSET (RoleName \cup {"USER"})]
    BY <1>6, RoleShownFits DEF SignIn, BrowserTypeOK
  <2> QED BY <2>1, <2>2 DEF BrowserTypeOK, Posted
<1>7. ASSUME NEW u \in Visitor, NEW q \in Request, HandleAccept(u, q)
      PROVE BrowserTypeOK' /\ Posted'
  <2>1. /\ pc[q] = "idle"
        /\ pc' = [pc EXCEPT ![q] = "find"]
        /\ op' = [op EXCEPT ![q] = [kind |-> "accept", user |-> u]]
    BY <1>7 DEF HandleAccept, AcceptInvite, Command
  <2>2. /\ page' = [page EXCEPT ![u] = "posting"]
        /\ waits' = [waits EXCEPT ![u] = {q}]
        /\ UNCHANGED session
    BY <1>7 DEF HandleAccept
  <2>3. pc'[q] = "find" /\ op'[q] = [kind |-> "accept", user |-> u]
        /\ \A x \in Request \ {q} : pc'[x] = pc[x] /\ op'[x] = op[x]
    BY <2>1 DEF TypeOK
  <2>4. \A v \in Visitor \ {u} : waits'[v] = waits[v] /\ q \notin waits[v]
    BY <2>1, <2>2 DEF Posted, BrowserTypeOK
  <2>5. waits'[u] = {q}
    BY <2>2 DEF BrowserTypeOK
  <2>6. ASSUME NEW v \in Visitor, NEW x \in waits'[v]
        PROVE /\ waits'[v] = {x}
              /\ pc'[x] \in {"find", "save"}
              /\ op'[x] = [kind |-> "accept", user |-> v]
    <3>1. CASE v = u
      BY <2>3, <2>5, <2>6, <3>1
    <3>2. CASE v # u
      <4>1. x \in waits[v] /\ x # q /\ x \in Request /\ waits'[v] = waits[v]
        BY <2>4, <2>6, <3>2 DEF BrowserTypeOK
      <4> QED BY <2>3, <4>1 DEF Posted
    <3> QED BY <3>1, <3>2
  <2> QED BY <2>2, <2>6 DEF BrowserTypeOK, Posted
<1> QED BY <1>1, <1>2, <1>3, <1>4, <1>5, <1>6, <1>7 DEF InviteNext

\* Pages and cookies stay earned, by the answers to their requests and by what
\* they read of a workspace that others change.
LEMMA EarnedStep ==
    ASSUME TypeOK, AnnouncedInv, OwnerRoleIsTheOwners, TellsInv, InviteInv,
           [InviteNext]_inviteVars
    PROVE SessionsAreEarned'
<1> DEFINE Joined(u) == \E e \in outbox : e.type = "Added" /\ e.user = u
           Removal(u) == raced \/ \E e \in outbox : e.type = "Removed" /\ e.user = u
<1>1. outbox \subseteq outbox' /\ (raced => raced')
  BY InviteStep, RequestSteps, RacedStays
<1>2. \A u \in Visitor : (Joined(u) => Joined(u)') /\ (Removal(u) => Removal(u)')
  BY <1>1
<1>3. ASSUME NEW u \in Visitor
      PROVE /\ page[u] = "reading" \/ session[u] # {} => Joined(u)
            /\ "OWNER" \in session[u] => u = Owner
            /\ "USER" \in session[u] => Removal(u)
  BY DEF InviteInv, SessionsAreEarned
<1>4. ASSUME NEW u \in Visitor, page'[u] # "reading" \/ page[u] = "reading",
             session'[u] = session[u]
      PROVE /\ page'[u] = "reading" \/ session'[u] # {} => Joined(u)'
            /\ "OWNER" \in session'[u] => u = Owner
            /\ "USER" \in session'[u] => Removal(u)'
  BY <1>2, <1>3, <1>4
<1>5. (\A u \in Visitor :
            /\ page'[u] = "reading" \/ session'[u] # {} => Joined(u)'
            /\ "OWNER" \in session'[u] => u = Owner
            /\ "USER" \in session'[u] => Removal(u)') => SessionsAreEarned'
  BY DEF SessionsAreEarned
<1>6. ASSUME NEW u \in Visitor, \E m \in row.members : m.user = u PROVE Joined(u)
  BY <1>6 DEF AnnouncedInv, Announced
<1>7. ASSUME NEW u \in Visitor, Joined(u), \A m \in row.members : m.user # u PROVE Removal(u)
  <2> SUFFICES ASSUME ~raced PROVE \E e \in outbox : e.type = "Removed" /\ e.user = u
    OBVIOUS
  <2>1. PICK e \in outbox : e.type = "Added" /\ e.user = u
    BY <1>7
  <2>2. e.by \in Request /\ u \in User
    BY DEF TypeOK, Event
  <2>3. ~Standing(u, e.by)
    BY <1>7, <2>2 DEF TellsInv, Tells, Holds
  <2>4. PICK f \in outbox : e.by \in f.of
    BY <2>1, <2>3 DEF Standing
  <2>5. PICK d \in outbox : d.type = "Added" /\ d.by = e.by /\ d.user = f.user
    BY <2>4 DEF TellsInv, Begun
  <2>6. f.type = "Removed"
    BY <2>4 DEF TellsInv, Begun
  <2>7. d.user = u
    BY <2>1, <2>5 DEF TellsInv, Ids
  <2> QED BY <2>5, <2>6, <2>7
<1> HIDE DEF Joined, Removal
<1>8. CASE UNCHANGED inviteVars
  <2>1. UNCHANGED <<page, session>>
    BY <1>8 DEF inviteVars, browsers
  <2> QED BY <1>4, <1>5, <2>1
<1>9. CASE Elsewhere
  <2>1. UNCHANGED <<page, session>>
    BY <1>9 DEF Elsewhere, browsers
  <2> QED BY <1>4, <1>5, <2>1
<1>10. ASSUME NEW q \in Request, Answered(q), UNCHANGED session PROVE SessionsAreEarned'
  <2>1. CASE UNCHANGED page
    BY <1>4, <1>5, <1>10, <2>1
  <2>2. CASE Answer(q, "ready")
    <3>1. \A u \in Visitor : page'[u] = "ready" \/ page'[u] = page[u]
      BY <2>2 DEF Answer
    <3> QED BY <1>4, <1>5, <1>10, <3>1
  <2>3. CASE Save(q) /\ Answer(q, "reading")
    <3>1. ASSUME NEW u \in Visitor, q \in waits[u] PROVE Joined(u)'
      <4>1. op[q] = [kind |-> "accept", user |-> u]
        BY <3>1 DEF InviteInv, Posted
      <4>2. /\ op[q] \in [kind : Kind, user : User] /\ loaded[q] \in Row
            /\ op[q].kind = "accept" /\ op[q].user = u
        BY <4>1 DEF TypeOK
      <4>3. PICK e \in Raised(op[q], q, loaded[q]) : e.type = "Added"
        BY <4>2, RaisedAreEvents
      <4>4. e.user = u
        BY <4>2, <4>3, RaisedAreEvents
      <4>5. e \in outbox'
        BY <2>3, <4>3 DEF Save, Commit
      <4> QED BY <4>3, <4>4, <4>5 DEF Joined
    <3>2. \A u \in Visitor : q \in waits[u] \/ page'[u] = page[u]
      BY <2>3 DEF Answer
    <3>3. ASSUME NEW u \in Visitor
          PROVE /\ page'[u] = "reading" \/ session'[u] # {} => Joined(u)'
                /\ "OWNER" \in session'[u] => u = Owner
                /\ "USER" \in session'[u] => Removal(u)'
      BY <1>2, <1>3, <1>4, <1>10, <3>1, <3>2
    <3> QED BY <1>5, <3>3
  <2> QED BY <1>10, <2>1, <2>2, <2>3 DEF Answered
<1>11. ASSUME NEW u \in Visitor, OpenInvite(u) PROVE SessionsAreEarned'
  <2>1. UNCHANGED session /\ \A v \in Visitor : page'[v] = "ready" \/ page'[v] = page[v]
    BY <1>11 DEF OpenInvite, InviteInv, BrowserTypeOK
  <2> QED BY <1>4, <1>5, <2>1
<1>12. ASSUME NEW u \in Visitor, page[u] = "reading" \/ MyWorkspaces(u) # {},
              NEW s \in {{"USER"}, {}, MyWorkspaces(u)},
              s = {"USER"} => page[u] = "reading" /\ MyWorkspaces(u) = {},
              session' = [session EXCEPT ![u] = s],
              \A v \in Visitor : page'[v] # "reading" \/ page[v] = "reading"
       PROVE SessionsAreEarned'
  <2>1. \A v \in Visitor \ {u} : session'[v] = session[v]
    BY <1>12 DEF InviteInv, BrowserTypeOK
  <2>2. session'[u] = s
    BY <1>12 DEF InviteInv, BrowserTypeOK
  <2>3. Joined(u)
    BY <1>3, <1>6, <1>12, RoleShownFits
  <2>4. "OWNER" \in s => u = Owner
    BY <1>12, RoleShownFits
  <2>5. "USER" \in s => Removal(u)
    <3>1. "USER" \in s => s = {"USER"}
      BY <1>12, RoleShownFits DEF RoleName
    <3> QED BY <1>7, <1>12, <2>3, <3>1, RoleShownFits
  <2> QED BY <1>2, <1>4, <1>5, <1>12, <2>1, <2>2, <2>3, <2>4, <2>5
<1>13. ASSUME NEW u \in Visitor, ReadMyWorkspaces(u) PROVE SessionsAreEarned'
  <2>1. \A v \in Visitor : page'[v] # "reading" \/ page[v] = "reading"
    BY <1>13 DEF ReadMyWorkspaces, InviteInv, BrowserTypeOK
  <2>2. CASE UNCHANGED session
    BY <1>4, <1>5, <2>1, <2>2
  <2>3. CASE session' = [session EXCEPT ![u] = {"USER"}] /\ MyWorkspaces(u) = {}
    BY <1>12, <1>13, <2>1, <2>3 DEF ReadMyWorkspaces
  <2>4. CASE session' = [session EXCEPT ![u] = MyWorkspaces(u)] /\ MyWorkspaces(u) # {}
    <3>1. MyWorkspaces(u) # {"USER"}
      BY RoleShownFits DEF RoleName
    <3> QED BY <1>12, <2>1, <2>4, <3>1
  <2> QED BY <1>13, <2>2, <2>3, <2>4 DEF ReadMyWorkspaces
<1>14. ASSUME NEW u \in Visitor, SignIn(u) PROVE SessionsAreEarned'
  <2>1. UNCHANGED page
    BY <1>14 DEF SignIn
  <2>2. CASE session' = [session EXCEPT ![u] = MyWorkspaces(u)] /\ MyWorkspaces(u) # {}
    <3>1. MyWorkspaces(u) # {"USER"}
      BY RoleShownFits DEF RoleName
    <3> QED BY <1>12, <2>1, <2>2, <3>1
  <2>3. CASE session' = [session EXCEPT ![u] = {}]
    <3>1. \A v \in Visitor : session'[v] = {} \/ session'[v] = session[v]
      BY <2>3 DEF InviteInv, BrowserTypeOK
    <3>2. ASSUME NEW v \in Visitor
          PROVE /\ page'[v] = "reading" \/ session'[v] # {} => Joined(v)'
                /\ "OWNER" \in session'[v] => v = Owner
                /\ "USER" \in session'[v] => Removal(v)'
      BY <1>2, <1>3, <2>1, <3>1
    <3> QED BY <1>5, <3>2
  <2> QED BY <1>14, <2>2, <2>3 DEF SignIn
<1>15. ASSUME NEW u \in Visitor, NEW q \in Request, HandleAccept(u, q) PROVE SessionsAreEarned'
  <2>1. UNCHANGED session /\ \A v \in Visitor : page'[v] = "posting" \/ page'[v] = page[v]
    BY <1>15 DEF HandleAccept, InviteInv, BrowserTypeOK
  <2> QED BY <1>4, <1>5, <2>1
<1> QED BY <1>8, <1>9, <1>10, <1>11, <1>13, <1>14, <1>15 DEF InviteNext

LEMMA InviteHolds == InviteSpec => []InviteInv
<1>1. InviteInit => InviteInv
  BY DEF InviteInit, InviteInv, BrowserTypeOK, Posted, SessionsAreEarned
<1>2. /\ TypeOK /\ AnnouncedInv /\ OwnerRoleIsTheOwners /\ TellsInv
      /\ InviteInv /\ [InviteNext]_inviteVars
      => InviteInv'
  BY InviteTypesStep, EarnedStep DEF InviteInv
<1> QED BY <1>1, <1>2, BehindThePages, TypeCorrect, AnnouncedInvariant, OwnerRole,
           TellsInvariant, PTL DEF InviteSpec

\* A page never shows what cannot be, and a page waits if and only if it has
\* posted.
THEOREM BrowserTypeCorrect == InviteSpec => []BrowserTypeOK
<1>1. InviteInv => BrowserTypeOK
  BY DEF InviteInv
<1> QED BY <1>1, InviteHolds, PTL

\* A page that reports success and a cookie with the workspace in it belong to
\* a user whom a save has made a member; OWNER is shown to the owner alone, and
\* who is told that he is in no workspace was removed, or overwritten by a stale
\* save.
THEOREM CookiesAreEarned == InviteSpec => []SessionsAreEarned
<1>1. InviteInv => SessionsAreEarned
  BY DEF InviteInv
<1> QED BY <1>1, InviteHolds, PTL
=============================================================================
