------------------------------ MODULE Sessions ------------------------------
(***************************************************************************)
(* The refresh-token sessions of the API: LoginHandler creates a session,  *)
(* RefreshTokenHandler rotates it (revokes the old one, creates a new one) *)
(* or, when the presented token is already revoked, revokes every session  *)
(* of the user, LogoutHandler revokes one.  A session stands for its       *)
(* refresh token too; the access tokens are not modelled.  Requests run    *)
(* concurrently: an action ends at an await, and no transaction spans two  *)
(* statements.                                                             *)
(***************************************************************************)
EXTENDS Naturals, FiniteSets

CONSTANTS
    User,
    Session,    \* the rows the table may ever hold
    NoSession,  \* a token that matches no row; "none"
    Request,    \* slots for concurrent requests; a slot serves many in turn
    NoUser,
    MaxFault    \* bound on the requests that die of an error

ASSUME NoSessionAssumption == NoSession \notin Session
ASSUME NoUserAssumption == NoUser \notin User
ASSUME MaxFaultAssumption == MaxFault \in Nat

VARIABLES
    \* the table sessions
    owner,    \* userId, NoUser while the row does not exist
    revoked,
    expired,  \* expiresAt has passed
    \* requests in flight
    pc,       \* the await a request stands at
    token,    \* the session it was called with or has found
    user,     \* the user it acts for
    fresh,    \* the session it created
    known,    \* tokens that were returned to a client
    \* history
    parent,   \* the session a rotation replaced, NoSession for a login
    creator,  \* the slot of the request that inserted the row
    swept,    \* sessions that existed when all of their user were revoked
    racing,   \* those among them that a rotation was replacing at that moment
    faults

table    == <<owner, revoked, expired, parent, creator>>
requests == <<pc, token, user, fresh>>
vars     == <<table, requests, known, swept, racing, faults>>

Stage == {"idle", "insert", "answer", "find", "revokeAll", "revokeOld",
          "findLogout", "logout"}

Exists(s) == owner[s] # NoUser
Of(u) == {s \in Session : owner[s] = u}

Init ==
    /\ owner = [s \in Session |-> NoUser]
    /\ revoked = [s \in Session |-> FALSE]
    /\ expired = [s \in Session |-> FALSE]
    /\ pc = [q \in Request |-> "idle"]
    /\ token = [q \in Request |-> NoSession]
    /\ user = [q \in Request |-> NoUser]
    /\ fresh = [q \in Request |-> NoSession]
    /\ known = {}
    /\ parent = [s \in Session |-> NoSession]
    /\ creator = [s \in Session |-> {}]
    /\ swept = {}
    /\ racing = {}
    /\ faults = 0

\* Bound: a request that may insert starts only when a row is left for it.
Room == Cardinality({s \in Session : ~Exists(s)})
            > Cardinality({q \in Request : pc[q] # "idle"})

Goto(q, stage) == pc' = [pc EXCEPT ![q] = stage]

\* the request is over, answered or failed
End(q) ==
    /\ Goto(q, "idle")
    /\ token' = [token EXCEPT ![q] = NoSession]
    /\ user' = [user EXCEPT ![q] = NoUser]
    /\ fresh' = [fresh EXCEPT ![q] = NoSession]

-----------------------------------------------------------------------------
(* The entity and the statements of PrismaSessionRepository.               *)

\* session.revoke, then save: the upsert of an existing row writes revoked only
Revoke(s) ==
    /\ revoked' = [revoked EXCEPT ![s] = TRUE]
    /\ UNCHANGED <<owner, expired, parent, creator>>

\* Session.create, then save: the insert of a new row
Insert(q, s) ==
    /\ ~Exists(s)
    /\ owner' = [owner EXCEPT ![s] = user[q]]
    /\ parent' = [parent EXCEPT ![s] = token[q]]
    /\ creator' = [creator EXCEPT ![s] = {q}]
    /\ UNCHANGED <<revoked, expired>>

\* Mutant of RevokeAllOf: the flag is toggled.
MutRevokeAllToggles(u) ==
    /\ revoked' = [s \in Session |-> IF owner[s] = u THEN ~revoked[s] ELSE revoked[s]]
    /\ UNCHANGED <<owner, expired, parent, creator>>

RevokeAllOf(u) ==
    /\ revoked' = [s \in Session |-> revoked[s] \/ owner[s] = u]
    /\ UNCHANGED <<owner, expired, parent, creator>>

-----------------------------------------------------------------------------

\* LoginHandler up to userRepository.save: the credentials were right and the
\* user may log in.
Login(q, u) ==
    /\ pc[q] = "idle" /\ Room
    /\ user' = [user EXCEPT ![q] = u]
    /\ Goto(q, "insert")
    /\ UNCHANGED <<table, token, fresh, known, swept, racing, faults>>

\* A new session is saved, by a login or by a rotation.
SaveNew(q) ==
    /\ pc[q] = "insert"
    /\ \E s \in Session :
        /\ Insert(q, s)
        /\ fresh' = [fresh EXCEPT ![q] = s]
    /\ Goto(q, "answer")
    /\ UNCHANGED <<token, user, known, swept, racing, faults>>

\* findById (in a rotation) and generateAccessToken; the client gets the
\* tokens.  The user is there: the foreign key removes sessions with it.
Answer(q) ==
    /\ pc[q] = "answer"
    /\ known' = known \cup {fresh[q]}
    /\ End(q)
    /\ UNCHANGED <<table, swept, racing, faults>>

\* RefreshTokenHandler is called with a token that a client holds, however old,
\* or with one that never existed.
Refresh(q, s) ==
    /\ pc[q] = "idle" /\ Room
    /\ s \in known \cup {NoSession}
    /\ token' = [token EXCEPT ![q] = s]
    /\ Goto(q, "find")
    /\ UNCHANGED <<table, user, fresh, known, swept, racing, faults>>

\* Mutant of FindSession: a revoked session is only refused.
MutFindSessionRefuses(q) ==
    /\ pc[q] = "find"
    /\ IF token[q] \in {s \in Session : ~revoked[s] /\ ~expired[s]}
       THEN /\ user' = [user EXCEPT ![q] = owner[token[q]]]
            /\ Goto(q, "revokeOld")
            /\ UNCHANGED <<token, fresh>>
       ELSE End(q)
    /\ UNCHANGED <<table, known, swept, racing, faults>>

\* findByRefreshToken: not found, reused, expired or to be rotated.
FindSession(q) ==
    /\ pc[q] = "find"
    /\ IF token[q] \in {s \in Session : revoked[s] \/ ~expired[s]}
       THEN /\ user' = [user EXCEPT ![q] = owner[token[q]]]
            /\ Goto(q, IF revoked[token[q]] THEN "revokeAll" ELSE "revokeOld")
            /\ UNCHANGED <<token, fresh>>
       ELSE End(q)
    /\ UNCHANGED <<table, known, swept, racing, faults>>

\* revokeAllByUserId, then fail
RevokeAll(q) ==
    /\ pc[q] = "revokeAll"
    /\ RevokeAllOf(user[q])
    /\ swept' = swept \cup Of(user[q])
    /\ racing' = racing \cup
            {token[r] : r \in {r \in Request : pc[r] \in {"revokeOld", "insert"}}}
    /\ End(q)
    /\ UNCHANGED <<known, faults>>

\* Mutant of RevokeOld: a rotation does not save the old session.
MutRevokeOldSkips(q) ==
    /\ pc[q] = "revokeOld"
    /\ Goto(q, "insert")
    /\ UNCHANGED <<table, token, user, fresh, known, swept, racing, faults>>

\* rotation: the old session is saved revoked first
RevokeOld(q) ==
    /\ pc[q] = "revokeOld"
    /\ Revoke(token[q])
    /\ Goto(q, "insert")
    /\ UNCHANGED <<token, user, fresh, known, swept, racing, faults>>

Logout(q, s) ==
    /\ pc[q] = "idle"
    /\ s \in known \cup {NoSession}
    /\ token' = [token EXCEPT ![q] = s]
    /\ Goto(q, "findLogout")
    /\ UNCHANGED <<table, user, fresh, known, swept, racing, faults>>

FindLogout(q) ==
    /\ pc[q] = "findLogout"
    /\ \/ token[q] = NoSession /\ End(q)
       \/ token[q] # NoSession /\ Goto(q, "logout") /\ UNCHANGED <<token, user, fresh>>
    /\ UNCHANGED <<table, known, swept, racing, faults>>

\* the session is saved revoked, expired or not
SaveLogout(q) ==
    /\ pc[q] = "logout"
    /\ Revoke(token[q])
    /\ End(q)
    /\ UNCHANGED <<known, swept, racing, faults>>

\* A statement throws or the process dies: the request ends where it stands.
Throws(q) ==
    /\ pc[q] # "idle"
    /\ faults < MaxFault
    /\ faults' = faults + 1
    /\ End(q)
    /\ UNCHANGED <<table, known, swept, racing>>

Expire(s) ==
    /\ Exists(s) /\ ~expired[s]
    /\ expired' = [expired EXCEPT ![s] = TRUE]
    /\ UNCHANGED <<owner, revoked, parent, creator, requests, known, swept, racing, faults>>

-----------------------------------------------------------------------------

\* the steps of a request in flight
Proceed(q) ==
    \/ SaveNew(q) \/ Answer(q) \/ FindSession(q) \/ RevokeAll(q) \/ RevokeOld(q)
    \/ FindLogout(q) \/ SaveLogout(q)

Next ==
    \/ \E q \in Request :
        \/ \E u \in User : Login(q, u)
        \/ \E s \in Session \cup {NoSession} : Refresh(q, s) \/ Logout(q, s)
        \/ Proceed(q) \/ Throws(q)
    \/ \E s \in Session : Expire(s)

Spec == Init /\ [][Next]_vars

-----------------------------------------------------------------------------

TypeOK ==
    /\ owner \in [Session -> User \cup {NoUser}]
    /\ revoked \in [Session -> BOOLEAN]
    /\ expired \in [Session -> BOOLEAN]
    /\ pc \in [Request -> Stage]
    /\ user \in [Request -> User \cup {NoUser}]
    /\ token \in [Request -> Session \cup {NoSession}]
    /\ fresh \in [Request -> Session \cup {NoSession}]
    /\ parent \in [Session -> Session \cup {NoSession}]
    /\ creator \in [Session -> SUBSET Request]
    /\ known \subseteq Session /\ swept \subseteq Session
    /\ racing \subseteq Session \cup {NoSession}
    /\ faults \in Nat
    /\ \A s \in known \cup {token[q] : q \in Request} : s # NoSession => Exists(s)

\* A revoked session is never valid again and never disappears, whatever the
\* stale copies that concurrent requests write back.
RevokedForGood ==
    [][\A s \in Session : revoked[s] => revoked'[s] /\ owner'[s] = owner[s]]_vars

\* Rotation never leaves two valid tokens: the replaced session is revoked
\* before its replacement exists, at every point where a request can die.
ReplacedIsRevoked ==
    \A s \in Session : parent[s] # NoSession => revoked[parent[s]]

\* One request rotates a session at most once, so a session has at most as
\* many replacements as requests overlapped on it.
OneReplacementPerRequest ==
    \A s, t \in Session :
        /\ parent[s] # NoSession /\ parent[s] = parent[t]
        /\ creator[s] = creator[t]
        => s = t

\* Reuse is detected: a request that presents a revoked token, also one that is
\* revoked while the request is on its way, never rotates it, and ends only with
\* every session of the user revoked, unless it dies.
ReuseSweeps ==
    [][\A q \in Request, s \in Session :
        pc[q] \in {"find", "revokeAll"} /\ token[q] = s /\ revoked[s]
        => \/ pc'[q] \in {"find", "revokeAll"}
           \/ \A t \in Of(owner[s]) : revoked'[t]
           \/ faults' # faults]_vars

\* After all sessions of a user were revoked they are dead with everything
\* that descends from them, but for the replacement of a session whose rotation
\* had begun before.
OnlyRacingRotationsEscape ==
    \A s \in Session :
        s \in swept \/ parent[s] \in swept \ racing => revoked[s]
=============================================================================
