----------------------------- MODULE Identity -----------------------------
(***************************************************************************)
(* Users, and the seeder that every process runs before it listens.        *)
(*                                                                         *)
(* IdentitySeeder looks for the account of the administrator, its tenant,  *)
(* a default organization, its workspace, a role ADMIN there and the       *)
(* membership of the administrator, and creates what it does not find, one *)
(* statement after the other and in no transaction.  Slugs, emails, the    *)
(* names of workspaces in an organization and memberships are unique: the  *)
(* second of two inserts throws, onModuleInit is left, and the process     *)
(* dies and is started again.  Organizations and roles are not unique.     *)
(*                                                                         *)
(* A listening process serves registrations, logins and profile updates,   *)
(* which load a user, change the copy and save the whole row, comparing no *)
(* version.  An action ends at an await.                                   *)
(*                                                                         *)
(* Left out: the read of the administrator at the start of the bootstrap   *)
(* (no row of users is ever deleted), tenants that a registration names    *)
(* itself, names given at registration, hashing, lastLoginAt, and locked   *)
(* and disabled users (lock and verifyEmail have no caller).  Sessions are *)
(* in Sessions, the pages that send these requests in AccountPages.        *)
(***************************************************************************)
EXTENDS Naturals, FiniteSets

CONSTANTS
    Proc,          \* processes of the API
    Organization,  \* ids of rows named Default Organization
    Email,
    Admin,         \* the email of the administrator
    Client,        \* who sends a request, one at a time
    MaxCommands,   \* bound: how many commands users send
    MaxFaults      \* bound: statements that fail and processes that die

ASSUME AdminAssumption == Admin \in Email
ASSUME BoundsAssumption == MaxCommands \in Nat /\ MaxFaults \in Nat

NoAccount == [status |-> "none"]

\* the fields of a profile, all texts as one; a value is the browser in which it
\* was typed, none for a column that is null
Field == {"texts", "avatar"}
Profile == [Field -> {{}} \cup {{q} : q \in Client}]
Blank == [f \in Field |-> {}]

UserRow == [status : {"PENDING", "ACTIVE"}, profile : Profile]

\* the steps of onModuleInit: the statement that a process is about to send
Finds == {"exists", "findTenant", "existsAgain", "findOrganization", "findWorkspace",
          "findRole", "findMember"}
Writes == {"newTenant", "saveAdmin", "activate", "newOrganization", "newOrganizationMember",
           "newWorkspace", "newRole", "newMember"}

NoCommand == [kind |-> "none"]
Command ==
    [kind : {"register", "login"}, email : Email] \cup
    [kind : {"profile"}, email : Email, profile : Profile]

VARIABLES
    db,          \* the tables, see Database
    step,        \* where the start of a process stands
    mine,        \* the organization it has found or made
    await,       \* the await a request stands at
    op,          \* its command
    copy,        \* the user it has found
    signedIn,    \* emails that a login was successful for
    orgRivals,   \* processes starting since before the first default organization
    roleRivals,  \* the same, of the first role ADMIN in the workspace of each
    orphaned,    \* organizations whose maker died before it inserted the member
    commands,    \* how many were sent
    failures

startup == <<step, mine, orgRivals, roleRivals, orphaned>>
serving == <<await, op, copy, signedIn, commands>>
identityVars == <<db, startup, serving, failures>>

\* workspaces, roles and members are those of the default workspace of an
\* organization
Database ==
    [tenants : SUBSET {"system-root"}, user : [Email -> UserRow \cup {NoAccount}],
     organizations : SUBSET Organization, organizationMembers : SUBSET Organization,
     workspaces : SUBSET Organization, roles : [Organization -> Nat],
     members : SUBSET Organization]

IdentityInit ==
    /\ db = [tenants |-> {}, user |-> [e \in Email |-> NoAccount],
             organizations |-> {}, organizationMembers |-> {}, workspaces |-> {},
             roles |-> [o \in Organization |-> 0], members |-> {}]
    /\ step = [p \in Proc |-> "down"]
    /\ mine = [p \in Proc |-> {}]
    /\ await = [q \in Client |-> "idle"]
    /\ op = [q \in Client |-> NoCommand]
    /\ copy = [q \in Client |-> NoAccount]
    /\ signedIn = {}
    /\ orgRivals = {}
    /\ roleRivals = [o \in Organization |-> {}]
    /\ orphaned = {}
    /\ commands = 0
    /\ failures = 0

-----------------------------------------------------------------------------
(* The seeder.                                                             *)

Starting == {p \in Proc : step[p] \notin {"down", "up"}}

\* the database with the organization o added to one of its tables
With(t, o) == [db EXCEPT ![t] = @ \cup {o}]

\* a new id, whichever
NewId ==
    IF db.organizations = Organization THEN {}
    ELSE {CHOOSE o \in Organization : o \notin db.organizations}

\* User.register
NewUser == [status |-> "PENDING", profile |-> Blank]

\* what the write that p is about to send makes of the tables; nothing when a
\* unique index refuses it
Written(p) ==
    CASE step[p] = "newTenant" ->
            IF "system-root" \in db.tenants THEN {} ELSE {With("tenants", "system-root")}
      [] step[p] = "saveAdmin" ->
            IF db.user[Admin] # NoAccount THEN {} ELSE {[db EXCEPT !.user[Admin] = NewUser]}
      [] step[p] = "activate" ->
            IF db.user[Admin] = NoAccount THEN {}
            ELSE {[db EXCEPT !.user[Admin].status = "ACTIVE"]}
      [] step[p] = "newOrganization" ->
            {With("organizations", o) : o \in NewId}
      [] step[p] = "newOrganizationMember" ->
            {With("organizationMembers", o) : o \in mine[p]}
      [] step[p] = "newWorkspace" ->
            {With("workspaces", o) : o \in mine[p] \ db.workspaces}
      [] step[p] = "newRole"   -> {[db EXCEPT !.roles[o] = @ + 1] : o \in mine[p]}
      [] step[p] = "newMember" -> {With("members", o) : o \in mine[p] \ db.members}

AfterWrite(p) ==
    CASE step[p] = "newTenant"             -> "existsAgain"
      [] step[p] = "saveAdmin"             -> "activate"
      [] step[p] = "activate"              -> "findOrganization"
      [] step[p] = "newOrganization"       -> "newOrganizationMember"
      [] step[p] = "newOrganizationMember" -> "findWorkspace"
      [] step[p] = "newWorkspace"          -> "findRole"
      [] step[p] = "newRole"               -> "findMember"
      [] step[p] = "newMember"             -> "up"

\* Mutant of HasTenant: a start does not look for the tenant.
MutHasTenant == FALSE

HasTenant == "system-root" \in db.tenants

\* Mutant of HasRole: a start does not look for the role.
MutHasRole(p) == FALSE

\* Mutant of HasRole: a start looks for the role in any workspace.
MutRoleAnywhere(p) == \E o \in Organization : db.roles[o] > 0

HasRole(p) == \E o \in mine[p] : db.roles[o] > 0

\* is the row there that p is looking for
Found(p) ==
    CASE step[p] \in {"exists", "existsAgain"} -> db.user[Admin] # NoAccount
      [] step[p] = "findTenant"    -> HasTenant
      [] step[p] = "findWorkspace" -> mine[p] \subseteq db.workspaces
      [] step[p] = "findRole"      -> HasRole(p)
      [] step[p] = "findMember"    -> mine[p] \subseteq db.members

\* where p goes on; a registration that finds the account returns Result.fail,
\* which is logged
AfterFind(p) ==
    CASE step[p] = "exists"        -> IF Found(p) THEN "activate" ELSE "findTenant"
      [] step[p] = "findTenant"    -> IF Found(p) THEN "existsAgain" ELSE "newTenant"
      [] step[p] = "existsAgain"   -> IF Found(p) THEN "activate" ELSE "saveAdmin"
      [] step[p] = "findWorkspace" -> IF Found(p) THEN "findRole" ELSE "newWorkspace"
      [] step[p] = "findRole"      -> IF Found(p) THEN "findMember" ELSE "newRole"
      [] step[p] = "findMember"    -> IF Found(p) THEN "up" ELSE "newMember"

\* p goes to step s; a start that is over is nobody's rival
GoTo(p, s) ==
    LET gone == IF s \in {"up", "down"} THEN {p} ELSE {}
        first == db'.organizations # {} /\ db.organizations = {}
    IN
    /\ step' = [step EXCEPT ![p] = s]
    /\ orgRivals' = (IF first THEN Starting ELSE orgRivals) \ gone
    /\ roleRivals' = [o \in Organization |->
          (IF db.roles[o] = 0 /\ db'.roles[o] > 0 THEN Starting ELSE roleRivals[o]) \ gone]

Start(p) ==
    /\ step[p] = "down"
    /\ UNCHANGED <<db, mine, orphaned, serving, failures>>
    /\ GoTo(p, "exists")

\* findFirst asks for no order: any default organization may be the answer
FindOrganization(p) ==
    /\ step[p] = "findOrganization"
    /\ UNCHANGED <<db, orphaned, serving, failures>>
    /\ \/ \E o \in db.organizations :
            /\ mine' = [mine EXCEPT ![p] = {o}]
            /\ GoTo(p, "findWorkspace")
       \/ /\ db.organizations = {}
          /\ GoTo(p, "newOrganization")
          /\ UNCHANGED mine

Find(p) ==
    /\ step[p] \in Finds \ {"findOrganization"}
    /\ UNCHANGED <<db, mine, orphaned, serving, failures>>
    /\ GoTo(p, AfterFind(p))

Write(p) ==
    /\ step[p] \in Writes
    /\ db' \in Written(p)
    /\ mine' = [mine EXCEPT ![p] = IF step[p] = "newOrganization"
                                   THEN db'.organizations \ db.organizations ELSE @]
    /\ GoTo(p, AfterWrite(p))
    /\ UNCHANGED <<orphaned, serving, failures>>

\* onModuleInit is left by an error, or the process is stopped
Dies(p) ==
    /\ GoTo(p, "down")
    /\ orphaned' = orphaned \cup
          (IF step[p] = "newOrganizationMember" THEN mine[p]
           ELSE db'.organizations \ db.organizations)
    /\ mine' = [mine EXCEPT ![p] = {}]

\* P2002, or P2025 for a user who is not there
Refused(p) ==
    /\ step[p] \in Writes /\ Written(p) = {}
    /\ UNCHANGED <<db, serving, failures>>
    /\ Dies(p)

\* A statement of the start throws or the process is stopped, the write being
\* applied or not.
StartFails(p) ==
    /\ p \in Starting /\ failures < MaxFaults
    /\ failures' = failures + 1
    /\ \/ step[p] \in Writes /\ db' \in Written(p)
       \/ UNCHANGED db
    /\ Dies(p)
    /\ UNCHANGED serving

-----------------------------------------------------------------------------
(* The requests.                                                           *)

Listening == {p \in Proc : step[p] = "up"}

InFlight == {q \in Client : await[q] # "idle"}

\* Only who has signed in updates a profile: the command takes the user of the
\* token.
Accept(q, c) ==
    /\ await[q] = "idle" /\ Listening # {}
    /\ commands < MaxCommands /\ commands' = commands + 1
    /\ c.kind = "profile" => c.email \in signedIn
    /\ op' = [op EXCEPT ![q] = c]
    /\ await' = [await EXCEPT
          ![q] = IF c.kind = "register" THEN "systemTenant" ELSE "find"]
    /\ UNCHANGED <<db, startup, copy, signedIn, failures>>

\* the requests in Q are over
Finish(Q) ==
    /\ await' = [q \in Client |-> IF q \in Q THEN "idle" ELSE await[q]]
    /\ op' = [q \in Client |-> IF q \in Q THEN NoCommand ELSE op[q]]
    /\ copy' = [q \in Client |-> IF q \in Q THEN NoAccount ELSE copy[q]]

\* q goes on with w in its hand
GoOn(q, s, w) ==
    /\ await' = [await EXCEPT ![q] = s]
    /\ copy' = [copy EXCEPT ![q] = w]
    /\ UNCHANGED op

\* GetSystemTenantHandler asks for the tenant system, which a script makes that
\* is run by hand, if it is run; the seeder makes another one
SystemTenant(q) ==
    /\ await[q] = "systemTenant"
    /\ GoOn(q, "exists", NoAccount) \/ Finish({q})
    /\ UNCHANGED <<db, startup, signedIn, commands, failures>>

ExistsByEmail(q) ==
    /\ await[q] = "exists"
    /\ IF db.user[op[q].email] = NoAccount THEN GoOn(q, "save", NewUser) ELSE Finish({q})
    /\ UNCHANGED <<db, startup, signedIn, commands, failures>>

\* Mutant of MayGoOn: recordLogin lets a pending user in.
MutMayGoOn(q, w) == w # NoAccount

\* recordLogin refuses a pending user
MayGoOn(q, w) == w # NoAccount /\ (op[q].kind = "login" => w.status = "ACTIVE")

\* findByEmail or findById; a wrong password ends a login
FindUser(q) ==
    LET w == db.user[op[q].email] IN
    /\ await[q] = "find"
    /\ \/ MayGoOn(q, w) /\ GoOn(q, "save", w)
       \/ (op[q].kind = "login" \/ ~MayGoOn(q, w)) /\ Finish({q})
    /\ UNCHANGED <<db, startup, signedIn, commands, failures>>

\* updateProfile writes all fields of the profile, recordLogin and register none
Changed(q) ==
    IF op[q].kind = "profile" THEN [copy[q] EXCEPT !.profile = op[q].profile] ELSE copy[q]

\* the upsert of save, of the whole row
Upsert(q) == db' = [db EXCEPT !.user[op[q].email] = Changed(q)]

\* the new id of a registration does not conflict, its email may
Conflicts(q) == op[q].kind = "register" /\ db.user[op[q].email] # NoAccount

Save(q) ==
    /\ await[q] = "save"
    /\ \/ /\ ~Conflicts(q) /\ Upsert(q)
          /\ IF op[q].kind = "login" THEN GoOn(q, "saveSession", NoAccount) ELSE Finish({q})
       \/ Conflicts(q) /\ Finish({q}) /\ UNCHANGED db
    /\ UNCHANGED <<startup, signedIn, commands, failures>>

SaveSession(q) ==
    /\ await[q] = "saveSession"
    /\ signedIn' = signedIn \cup {op[q].email}
    /\ Finish({q})
    /\ UNCHANGED <<db, startup, commands, failures>>

\* A statement of a request throws, the save being applied or not.
StatementThrows(q) ==
    /\ await[q] # "idle" /\ failures < MaxFaults
    /\ failures' = failures + 1
    /\ \/ await[q] = "save" /\ ~Conflicts(q) /\ Upsert(q)
       \/ UNCHANGED db
    /\ Finish({q})
    /\ UNCHANGED <<startup, signedIn, commands>>

\* a listening process dies with the requests that it serves, which are all of
\* them when no other process listens
Crash(p) ==
    /\ step[p] = "up" /\ failures < MaxFaults
    /\ failures' = failures + 1
    /\ UNCHANGED <<db, orphaned, signedIn, commands>>
    /\ GoTo(p, "down")
    /\ mine' = [mine EXCEPT ![p] = {}]
    /\ \E Q \in SUBSET InFlight : (Listening = {p} => Q = InFlight) /\ Finish(Q)

Serve(q) ==
    \/ \E c \in Command : Accept(q, c)
    \/ SystemTenant(q) \/ ExistsByEmail(q) \/ FindUser(q) \/ Save(q) \/ SaveSession(q)
    \/ StatementThrows(q)

\* a step of a start that nothing but the database can hold up
Advance(p) == Start(p) \/ FindOrganization(p) \/ Find(p) \/ Write(p) \/ Refused(p)

IdentityNext ==
    \/ \E p \in Proc : Advance(p) \/ StartFails(p) \/ Crash(p)
    \/ \E q \in Client : Serve(q)

\* a process that is down is started again, and statements return or throw
IdentitySpec ==
    /\ IdentityInit /\ [][IdentityNext]_identityVars
    /\ \A p \in Proc : WF_identityVars(Advance(p))

-----------------------------------------------------------------------------

IdentityTypeOK ==
    /\ db \in Database
    /\ step \in [Proc -> {"down", "up"} \cup Finds \cup Writes]
    /\ mine \in [Proc -> SUBSET Organization]
    /\ await \in [Client -> {"idle", "systemTenant", "exists", "find", "save", "saveSession"}]
    /\ op \in [Client -> Command \cup {NoCommand}]
    /\ copy \in [Client -> UserRow \cup {NoAccount}]
    /\ signedIn \subseteq Email
    /\ orgRivals \subseteq Proc /\ roleRivals \in [Organization -> SUBSET Proc]
    /\ orphaned \subseteq Organization
    /\ commands \in 0..MaxCommands /\ failures \in 0..MaxFaults

\* When a process listens, the administrator is active and a member of a
\* default workspace that has a role ADMIN, whatever other starts did and
\* wherever they died; and of every default organization, unless its maker is
\* about to insert the member or died before.
ListeningMeansSeeded ==
    \A p \in Proc : step[p] = "up" =>
        /\ db.user[Admin] # NoAccount /\ db.user[Admin].status = "ACTIVE"
        /\ mine[p] # {} /\ mine[p] \subseteq db.organizations \cap db.workspaces \cap db.members
        /\ \A o \in mine[p] : db.roles[o] > 0
        /\ \A o \in db.organizations \ (db.organizationMembers \cup orphaned) :
              \E r \in Proc : step[r] = "newOrganizationMember" /\ mine[r] = {o}

\* A second default organization, or a second role ADMIN of a workspace, is
\* made only by a start that was under way when the first was made.
DefaultsDoubleByOverlap ==
    [][ /\ db.organizations # {} /\ db'.organizations # db.organizations =>
              \E p \in orgRivals : step[p] = "newOrganization"
        /\ \A o \in Organization : db.roles[o] > 0 /\ db'.roles[o] # db.roles[o] =>
              \E p \in roleRivals[o] : step[p] = "newRole"
      ]_identityVars

\* An account is active only by the seeder: users who register stay PENDING
\* and never sign in, and the administrator stays active when requests save
\* copies that are older than what another start has written.
OnlyTheSeederActivates ==
    /\ signedIn \subseteq {Admin}
    /\ \A e \in Email \ {Admin} : db.user[e] = NoAccount \/ db.user[e].status = "PENDING"
    /\ signedIn # {} => db.user[Admin] # NoAccount /\ db.user[Admin].status = "ACTIVE"

\* Every process listens in the end: duplicates that a unique index refuses
\* are found by the next start.
EventuallyListening == <>[](\A p \in Proc : step[p] = "up")
=============================================================================
