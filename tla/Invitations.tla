---------------------------- MODULE Invitations ----------------------------
(***************************************************************************)
(* Workspace with the way into it: the mail that an invitation becomes,    *)
(* the page that its link opens, and the cookie that says of which role    *)
(* the user is.  The page asks whether the token is valid, posts it when   *)
(* the user accepts, then reads the user's workspaces and writes the role  *)
(* it finds into the cookie.  Signing in reads the same list.              *)
(*                                                                         *)
(* The page learns of its request what the answer says: the save may be    *)
(* applied and the answer an error or lost, and who then accepts again is  *)
(* refused as a member.  A role is assigned later than a member is added,  *)
(* so the list has a default for a member without role.                    *)
(*                                                                         *)
(* A page is open in one window of a user, signed in with the address that *)
(* was invited: the button is disabled for any other.                      *)
(***************************************************************************)
EXTENDS Workspace

CONSTANT Visitor   \* users whose browser is looked at

ASSUME VisitorAssumption == Visitor \subseteq User

VARIABLES
    page,      \* what the page of a user shows
    waits,     \* the request that the page waits for
    session    \* the role in the cookie of a user, if a workspace is in it

browsers == <<page, waits, session>>
inviteVars == <<vars, browsers>>

InviteInit ==
    /\ Init
    /\ page = [u \in Visitor |-> "none"]
    /\ waits = [u \in Visitor |-> {}]
    /\ session = [u \in Visitor |-> {}]

-----------------------------------------------------------------------------
(* The API.                                                                *)

\* Mutant of RoleShown: a member without a role is taken for the owner.
MutRoleShown(u) ==
    LET m == CHOOSE m \in row.members : m.user = u
    IN IF m.role = {} THEN "OWNER" ELSE (CHOOSE r \in m.role : TRUE)[2]

\* roleName of getUserWorkspaces
RoleShown(u) ==
    LET m == CHOOSE m \in row.members : m.user = u
    IN IF m.role # {} THEN (CHOOSE r \in m.role : TRUE)[2]
       ELSE IF u = Owner THEN "OWNER" ELSE "MEMBER"

\* the workspaces of u, of which there is one, with the role in each
MyWorkspaces(u) == IF u \in UsersOf(row) THEN {RoleShown(u)} ELSE {}

\* validate: the token holds while it has not expired and the workspace is open
IsValid == row.status = "ACTIVE"

\* the mail of an invitation may have arrived: it is sent for each delivery of
\* WorkspaceMemberInvited
MayBeMailed(u) == \E e \in outbox : e.type = "Invited" /\ e.user = u

-----------------------------------------------------------------------------
(* The browser.                                                            *)

\* The link is opened, for the first time or again.
OpenInvite(u) ==
    /\ MayBeMailed(u) /\ page[u] = "none" /\ IsValid
    /\ page' = [page EXCEPT ![u] = "ready"]
    /\ UNCHANGED <<vars, waits, session>>

\* the button is enabled
MayAccept(u) == page[u] = "ready"

\* handleAccept posts the token; a token that has expired is refused without
\* a look at the workspace
HandleAccept(u, q) ==
    /\ MayAccept(u)
    /\ AcceptInvite(q, u)
    /\ page' = [page EXCEPT ![u] = "posting"]
    /\ waits' = [waits EXCEPT ![u] = {q}]
    /\ UNCHANGED session

\* The pages that wait for q are told that it went well, or that it did not.
Answer(q, s) ==
    /\ page' = [u \in Visitor |-> IF q \in waits[u] THEN s ELSE page[u]]
    /\ waits' = [u \in Visitor |-> waits[u] \ {q}]

\* a step of request q and what the page makes of its end
Answered(q) ==
    \/ Find(q) /\ pc'[q] = "save" /\ UNCHANGED <<page, waits>>
    \/ Find(q) /\ pc'[q] = "done" /\ Answer(q, "ready")
    \/ Save(q) /\ (Answer(q, "reading") \/ Answer(q, "ready"))
    \/ Throws(q) /\ Answer(q, "ready")

\* After the answer the page reads the workspaces and writes the cookie, with
\* the role USER when the list lacks the workspace, and leads home; or it fails
\* to read them and shows an error, as after a refusal, with the button enabled.
ReadMyWorkspaces(u) ==
    /\ page[u] = "reading"
    /\ \/ /\ page' = [page EXCEPT ![u] = "none"]
          /\ session' = [session EXCEPT ![u] =
                IF MyWorkspaces(u) = {} THEN {"USER"} ELSE MyWorkspaces(u)]
       \/ /\ page' = [page EXCEPT ![u] = "ready"]
          /\ UNCHANGED session
    /\ UNCHANGED <<vars, waits>>

\* authorize takes the first of the workspaces, if they can be read
SignIn(u) ==
    /\ \/ session' = [session EXCEPT ![u] = MyWorkspaces(u)]
       \/ session' = [session EXCEPT ![u] = {}]
    /\ UNCHANGED <<vars, page, waits>>

\* the rest of Workspace, of which no page hears
Elsewhere ==
    /\ \/ \E q \in Request :
            \/ Create(q) \/ UpdateWorkspace(q) \/ ArchiveWorkspace(q)
            \/ \E u \in User : Invite(q, u) \/ RemoveWorkspaceMember(q, u) \/ UpdateProfile(q, u)
            \/ \E u \in User \ Visitor : AcceptInvite(q, u)
       \/ \E k \in Call :
            \/ FindRole(k) \/ CreateRole(k) \/ FindMember(k) \/ Assign(k) \/ CallThrows(k)
            \/ \E u \in User : Deliver(k, u)
    /\ UNCHANGED browsers

InviteNext ==
    \/ Elsewhere
    \/ \E q \in Request : Answered(q) /\ UNCHANGED session
    \/ \E u \in Visitor :
        \/ OpenInvite(u) \/ ReadMyWorkspaces(u) \/ SignIn(u)
        \/ \E q \in Request : HandleAccept(u, q)

InviteSpec == InviteInit /\ [][InviteNext]_inviteVars

-----------------------------------------------------------------------------

BrowserTypeOK ==
    /\ page \in [Visitor -> {"none", "ready", "posting", "reading"}]
    /\ waits \in [Visitor -> SUBSET Request]
    /\ \A u \in Visitor : waits[u] # {} <=> page[u] = "posting"
    /\ session \in [Visitor -> SUBSET (RoleName \cup {"USER"})]

\* A page that reports success, or a cookie with the workspace in it, belongs
\* to a user whom a save has made a member; the cookie says OWNER to the owner
\* alone, and USER only to a member whom another command has removed or
\* overwritten before the page looked.  Roles may be assigned late, twice, or
\* be written back.
SessionsAreEarned ==
    \A u \in Visitor :
        /\ page[u] = "reading" \/ session[u] # {} =>
              \E e \in outbox : e.type = "Added" /\ e.user = u
        /\ "OWNER" \in session[u] => u = Owner
        /\ "USER" \in session[u] =>
              raced \/ \E e \in outbox : e.type = "Removed" /\ e.user = u
=============================================================================
