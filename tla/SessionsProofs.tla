--------------------------- MODULE SessionsProofs ---------------------------
(***************************************************************************)
(* Sessions keeps its types and its rotation invariants, and sweeps the    *)
(* sessions of a user whose revoked token is presented, for any number of  *)
(* users, sessions, concurrent requests and dying requests.  The web       *)
(* server in front of it never gives the tokens of one user to another,    *)
(* for any number of visits, and all of that holds behind it as well.      *)
(*                                                                         *)
(* The seeder has seeded wherever a process listens, and the pages of      *)
(* accounts and profiles tell the truth, for any number of processes,      *)
(* organizations, browsers, dying starts and edits.                        *)
(***************************************************************************)
EXTENDS WebRefresh, AccountPages, TLAPS

USE NoSessionAssumption, NoUserAssumption DEF Exists, Goto

-----------------------------------------------------------------------------
(* The inductive invariant.                                                *)

\* A request works on rows that exist and acts for a user.
Slots ==
    \A q \in Request :
        /\ pc[q] = "idle" => token[q] = NoSession
        /\ pc[q] \in {"revokeOld", "revokeAll", "logout"} => token[q] \in Session
        /\ pc[q] \in {"revokeOld", "revokeAll", "insert"} => user[q] \in User
        /\ pc[q] = "answer" => fresh[q] \in Session /\ Exists(fresh[q])

\* Only rows that exist are revoked; a session that has a replacement, or a
\* rotation about to insert one, is revoked already.
Rows ==
    /\ \A s \in Session : revoked[s] => Exists(s)
    /\ \A s \in Session : ~Exists(s) => parent[s] = NoSession
    /\ \A q \in Request :
        pc[q] = "insert" /\ token[q] # NoSession => revoked[token[q]]
    /\ ReplacedIsRevoked

\* A rotation in progress has not yet inserted its replacement.
Replacements ==
    /\ \A q \in Request, s \in Session :
        pc[q] \in {"revokeOld", "insert"} /\ token[q] # NoSession
            => parent[s] # token[q] \/ creator[s] # {q}
    /\ OneReplacementPerRequest

-----------------------------------------------------------------------------
\* Types, and the rows that requests refer to exist.

\* A step keeps the types, and the rows that requests refer to exist.
LEMMA TypesStep ==
    ASSUME TypeOK, Slots, [Next]_vars PROVE (TypeOK /\ Slots)'
<1> USE DEF TypeOK, Stage, Slots
<1> USE DEF End, table, requests
<1>1. ASSUME NEW q \in Request, NEW u \in User, Login(q, u) PROVE (TypeOK /\ Slots)'
  BY <1>1 DEF Login
<1>2. ASSUME NEW q \in Request, NEW s \in Session \cup {NoSession}, Refresh(q, s) PROVE (TypeOK /\ Slots)'
  BY <1>2 DEF Refresh
<1>3. ASSUME NEW q \in Request, NEW s \in Session \cup {NoSession}, Logout(q, s) PROVE (TypeOK /\ Slots)'
  BY <1>3 DEF Logout
<1>4. ASSUME NEW q \in Request, SaveNew(q) PROVE (TypeOK /\ Slots)'
  BY <1>4 DEF SaveNew, Insert
<1>5. ASSUME NEW q \in Request, Answer(q) PROVE (TypeOK /\ Slots)'
  BY <1>5 DEF Answer
<1>6. ASSUME NEW q \in Request, FindSession(q) PROVE (TypeOK /\ Slots)'
  BY <1>6 DEF FindSession
<1>7. ASSUME NEW q \in Request, RevokeAll(q) PROVE (TypeOK /\ Slots)'
  BY <1>7 DEF RevokeAll, RevokeAllOf, Of
<1>8. ASSUME NEW q \in Request, RevokeOld(q) PROVE (TypeOK /\ Slots)'
  BY <1>8 DEF RevokeOld, Revoke
<1>9. ASSUME NEW q \in Request, FindLogout(q) PROVE (TypeOK /\ Slots)'
  BY <1>9 DEF FindLogout
<1>10. ASSUME NEW q \in Request, SaveLogout(q) PROVE (TypeOK /\ Slots)'
  BY <1>10 DEF SaveLogout, Revoke
<1>11. ASSUME NEW q \in Request, Throws(q) PROVE (TypeOK /\ Slots)'
  BY <1>11 DEF Throws
<1>12. ASSUME NEW s \in Session, Expire(s) PROVE (TypeOK /\ Slots)'
  BY <1>12 DEF Expire
<1>13. CASE UNCHANGED vars
  BY <1>13 DEF vars
<1> QED
  BY <1>1, <1>2, <1>3, <1>4, <1>5, <1>6, <1>7, <1>8, <1>9, <1>10, <1>11, <1>12, <1>13
     DEF Next, Proceed

\* Every state has the types, and requests work on rows that exist.
LEMMA TypesAndSlots == Spec => [](TypeOK /\ Slots)
<1> USE DEF TypeOK, Stage, Slots
<1>1. Init => TypeOK /\ Slots
  BY DEF Init
<1>2. TypeOK /\ Slots /\ [Next]_vars => (TypeOK /\ Slots)'
  BY TypesStep
<1> QED
  BY <1>1, <1>2, PTL DEF Spec

\* Every state of every behaviour has the types that the model declares.
THEOREM TypeCorrect == Spec => []TypeOK
BY TypesAndSlots, PTL

-----------------------------------------------------------------------------
\* Rotation never leaves two valid tokens: the replaced session is revoked
\* before its replacement is inserted.

\* A step keeps what is known of the rows.
LEMMA RowsStep ==
    ASSUME TypeOK, Slots, Rows, [Next]_vars PROVE Rows'
<1> USE DEF TypeOK, Stage, Slots, Rows, ReplacedIsRevoked
<1> USE DEF End, table, requests
<1>1. ASSUME NEW q \in Request, NEW u \in User, Login(q, u) PROVE Rows'
  BY <1>1 DEF Login
<1>2. ASSUME NEW q \in Request, NEW s \in Session \cup {NoSession}, Refresh(q, s) PROVE Rows'
  BY <1>2 DEF Refresh
<1>3. ASSUME NEW q \in Request, NEW s \in Session \cup {NoSession}, Logout(q, s) PROVE Rows'
  BY <1>3 DEF Logout
<1>4. ASSUME NEW q \in Request, SaveNew(q) PROVE Rows'
  <2>1. PICK s \in Session : Insert(q, s)
    BY <1>4 DEF SaveNew
  <2>2. /\ user[q] \in User /\ UNCHANGED <<revoked, token>>
        /\ \A r \in Request : pc'[r] = "insert" => pc[r] = "insert"
        /\ token[q] # NoSession => revoked[token[q]]
    BY <1>4, <2>1 DEF SaveNew, Insert
  <2>3. /\ owner'[s] = user[q] /\ parent'[s] = token[q]
        /\ \A t \in Session \ {s} : owner'[t] = owner[t] /\ parent'[t] = parent[t]
    BY <2>1 DEF Insert
  <2> QED
    BY <2>2, <2>3
<1>5. ASSUME NEW q \in Request, Answer(q) PROVE Rows'
  BY <1>5 DEF Answer
<1>6. ASSUME NEW q \in Request, FindSession(q) PROVE Rows'
  BY <1>6 DEF FindSession
<1>7. ASSUME NEW q \in Request, RevokeAll(q) PROVE Rows'
  BY <1>7 DEF RevokeAll, RevokeAllOf, Of
<1>8. ASSUME NEW q \in Request, RevokeOld(q) PROVE Rows'
  BY <1>8 DEF RevokeOld, Revoke
<1>9. ASSUME NEW q \in Request, FindLogout(q) PROVE Rows'
  BY <1>9 DEF FindLogout
<1>10. ASSUME NEW q \in Request, SaveLogout(q) PROVE Rows'
  BY <1>10 DEF SaveLogout, Revoke
<1>11. ASSUME NEW q \in Request, Throws(q) PROVE Rows'
  BY <1>11 DEF Throws
<1>12. ASSUME NEW s \in Session, Expire(s) PROVE Rows'
  BY <1>12 DEF Expire
<1>13. CASE UNCHANGED vars
  BY <1>13 DEF vars
<1> QED
  BY <1>1, <1>2, <1>3, <1>4, <1>5, <1>6, <1>7, <1>8, <1>9, <1>10, <1>11, <1>12, <1>13
     DEF Next, Proceed

\* Every state has the rows as told.
LEMMA RowsHold == Spec => []Rows
<1> USE DEF TypeOK, Stage, Slots, Rows, ReplacedIsRevoked
<1>1. Init => Rows
  BY DEF Init
<1>2. TypeOK /\ Slots /\ Rows /\ [Next]_vars => Rows'
  BY RowsStep
<1> QED
  BY <1>1, <1>2, TypesAndSlots, PTL DEF Spec

\* A session with a replacement is revoked, wherever a request dies.
THEOREM RotationRevokes == Spec => []ReplacedIsRevoked
<1>1. Rows => ReplacedIsRevoked
  BY DEF Rows
<1> QED
  BY <1>1, RowsHold, PTL

-----------------------------------------------------------------------------
\* A revoked session stays revoked and in the table.

\* A step leaves a revoked session as it is.
LEMMA RevokedStep ==
    ASSUME TypeOK, Rows, [Next]_vars, NEW s \in Session, revoked[s]
    PROVE  revoked'[s] /\ owner'[s] = owner[s]
<1> USE DEF TypeOK, Rows
<1>1. CASE table' = table
  BY <1>1 DEF table
<1>2. ASSUME NEW q \in Request, Next, NEW t, Revoke(t) PROVE revoked'[s] /\ owner'[s] = owner[s]
  BY <1>2 DEF Revoke
<1>3. ASSUME NEW q \in Request, SaveNew(q) PROVE revoked'[s] /\ owner'[s] = owner[s]
  BY <1>3 DEF SaveNew, Insert
<1>4. ASSUME NEW q \in Request, RevokeAll(q) PROVE revoked'[s] /\ owner'[s] = owner[s]
  BY <1>4 DEF RevokeAll, RevokeAllOf
<1>5. ASSUME NEW t \in Session, Expire(t) PROVE revoked'[s] /\ owner'[s] = owner[s]
  BY <1>5 DEF Expire
<1> QED
  BY <1>1, <1>2, <1>3, <1>4, <1>5
     DEF Next, Proceed, Login, Refresh, Logout, Answer, FindSession, RevokeOld,
         FindLogout, SaveLogout, Throws, vars

\* No stale copy that is written back makes a revoked session valid.
THEOREM RevokedStaysRevoked == Spec => RevokedForGood
<1>1. TypeOK /\ Rows /\ [Next]_vars =>
        [\A s \in Session : revoked[s] => revoked'[s] /\ owner'[s] = owner[s]]_vars
  BY RevokedStep
<1> QED
  BY <1>1, TypesAndSlots, RowsHold, PTL DEF Spec, RevokedForGood

-----------------------------------------------------------------------------
\* No request replaces the same session twice, however requests overlap.

\* A step keeps what is known of replacements.
LEMMA ReplacementsStep ==
    ASSUME TypeOK, Slots, Rows, Replacements, [Next]_vars PROVE Replacements'
<1> USE DEF TypeOK, Stage, Slots, Rows, ReplacedIsRevoked, Replacements,
            OneReplacementPerRequest
<1> USE DEF End, table, requests
<1>1. ASSUME NEW q \in Request, NEW u \in User, Login(q, u) PROVE Replacements'
  BY <1>1 DEF Login
<1>2. ASSUME NEW q \in Request, NEW s \in Session \cup {NoSession}, Refresh(q, s) PROVE Replacements'
  BY <1>2 DEF Refresh
<1>3. ASSUME NEW q \in Request, NEW s \in Session \cup {NoSession}, Logout(q, s) PROVE Replacements'
  BY <1>3 DEF Logout
<1>4. ASSUME NEW q \in Request, SaveNew(q) PROVE Replacements'
  <2>1. PICK s \in Session : Insert(q, s)
    BY <1>4 DEF SaveNew
  <2>2. /\ token' = token /\ pc[q] = "insert" /\ pc'[q] = "answer"
        /\ \A r \in Request \ {q} : pc'[r] = pc[r]
    BY <1>4 DEF SaveNew
  <2>3. /\ parent'[s] = token[q] /\ creator'[s] = {q}
        /\ \A t \in Session \ {s} : parent'[t] = parent[t] /\ creator'[t] = creator[t]
    BY <2>1 DEF Insert
  <2>4. ASSUME NEW r \in Request, NEW t \in Session,
               pc'[r] \in {"revokeOld", "insert"}, token'[r] # NoSession
        PROVE  parent'[t] # token'[r] \/ creator'[t] # {r}
    <3>1. r # q /\ {q} # {r} /\ pc[r] \in {"revokeOld", "insert"}
      BY <2>2, <2>4
    <3>2. CASE t = s
      BY <2>3, <3>1, <3>2
    <3>3. CASE t # s
      BY <2>2, <2>3, <2>4, <3>1, <3>3
    <3> QED
      BY <3>2, <3>3
  <2>5. ASSUME NEW t \in Session, NEW t2 \in Session, parent'[t] # NoSession,
               parent'[t] = parent'[t2], creator'[t] = creator'[t2]
        PROVE  t = t2
    BY <2>2, <2>3, <2>5
  <2> QED
    BY <2>4, <2>5
<1>5. ASSUME NEW q \in Request, Answer(q) PROVE Replacements'
  BY <1>5 DEF Answer
<1>6. ASSUME NEW q \in Request, FindSession(q) PROVE Replacements'
  <2>1. UNCHANGED <<parent, creator>>
    BY <1>6 DEF FindSession
  <2>2. ASSUME NEW r \in Request, NEW s \in Session,
               pc'[r] \in {"revokeOld", "insert"}, token'[r] # NoSession
        PROVE  parent[s] # token'[r] \/ creator[s] # {r}
    <3>1. CASE r # q
      BY <1>6, <2>2, <3>1 DEF FindSession
    <3>2. CASE r = q
      <4>1. token'[q] \in Session /\ ~revoked[token'[q]]
        BY <1>6, <2>2, <3>2 DEF FindSession
      <4> QED
        BY <3>2, <4>1
    <3> QED
      BY <3>1, <3>2
  <2> QED
    BY <2>1, <2>2
<1>7. ASSUME NEW q \in Request, RevokeAll(q) PROVE Replacements'
  BY <1>7 DEF RevokeAll, RevokeAllOf, Of
<1>8. ASSUME NEW q \in Request, RevokeOld(q) PROVE Replacements'
  BY <1>8 DEF RevokeOld, Revoke
<1>9. ASSUME NEW q \in Request, FindLogout(q) PROVE Replacements'
  BY <1>9 DEF FindLogout
<1>10. ASSUME NEW q \in Request, SaveLogout(q) PROVE Replacements'
  BY <1>10 DEF SaveLogout, Revoke
<1>11. ASSUME NEW q \in Request, Throws(q) PROVE Replacements'
  BY <1>11 DEF Throws
<1>12. ASSUME NEW s \in Session, Expire(s) PROVE Replacements'
  BY <1>12 DEF Expire
<1>13. CASE UNCHANGED vars
  BY <1>13 DEF vars
<1> QED
  BY <1>1, <1>2, <1>3, <1>4, <1>5, <1>6, <1>7, <1>8, <1>9, <1>10, <1>11, <1>12, <1>13
     DEF Next, Proceed

\* A request that replaces a session does so once.
THEOREM OneReplacement == Spec => []OneReplacementPerRequest
<1> USE DEF TypeOK, Stage, Slots, Rows, ReplacedIsRevoked, Replacements,
            OneReplacementPerRequest
<1>1. Init => Replacements
  BY DEF Init
<1>2. TypeOK /\ Slots /\ Rows /\ Replacements /\ [Next]_vars => Replacements'
  BY ReplacementsStep
<1>3. Replacements => OneReplacementPerRequest
  BY DEF Replacements
<1> QED
  BY <1>1, <1>2, <1>3, TypesAndSlots, RowsHold, PTL DEF Spec

-----------------------------------------------------------------------------
(* Reuse.                                                                  *)

\* A request that rotates a session, or has found it revoked, acts for its
\* owner, and a replacement belongs to the owner of what it replaces.
Families ==
    /\ \A q \in Request :
        pc[q] \in {"revokeAll", "revokeOld", "insert"} /\ token[q] # NoSession
            => user[q] = owner[token[q]]
    /\ \A s \in Session : parent[s] # NoSession => owner[s] = owner[parent[s]]

\* What was swept is revoked, and a rotation in progress that replaces a swept
\* session is among the racing ones.
Sweeps ==
    /\ \A s \in swept : revoked[s]
    /\ \A q \in Request :
        pc[q] \in {"revokeOld", "insert"} => token[q] \notin swept \ racing
    /\ OnlyRacingRotationsEscape

\* A step keeps requests and replacements with their users.
LEMMA FamiliesStep ==
    ASSUME TypeOK, Slots, Rows, Families, [Next]_vars PROVE Families'
<1> USE DEF TypeOK, Stage, Slots, Rows, ReplacedIsRevoked, Families
<1> USE DEF End, table, requests
<1>1. ASSUME NEW q \in Request, NEW u \in User, Login(q, u) PROVE Families'
  BY <1>1 DEF Login
<1>2. ASSUME NEW q \in Request, NEW s \in Session \cup {NoSession}, Refresh(q, s) PROVE Families'
  BY <1>2 DEF Refresh
<1>3. ASSUME NEW q \in Request, NEW s \in Session \cup {NoSession}, Logout(q, s) PROVE Families'
  BY <1>3 DEF Logout
<1>4. ASSUME NEW q \in Request, SaveNew(q) PROVE Families'
  <2>1. PICK s \in Session : Insert(q, s)
    BY <1>4 DEF SaveNew
  <2>2. /\ pc[q] = "insert" /\ pc'[q] = "answer" /\ UNCHANGED <<token, user>>
        /\ \A r \in Request \ {q} : pc'[r] = pc[r]
    BY <1>4 DEF SaveNew
  <2>3. /\ owner[s] = NoUser /\ owner'[s] = user[q] /\ parent'[s] = token[q]
        /\ \A t \in Session \ {s} : owner'[t] = owner[t] /\ parent'[t] = parent[t]
    BY <2>1 DEF Insert
  <2>4. ASSUME NEW r \in Request, pc'[r] \in {"revokeAll", "revokeOld", "insert"},
               token'[r] # NoSession
        PROVE  user'[r] = owner'[token'[r]]
    <3>1. r # q /\ token[r] # s
      BY <2>2, <2>3, <2>4
    <3> QED
      BY <2>2, <2>3, <2>4, <3>1
  <2>5. ASSUME NEW t \in Session, parent'[t] # NoSession
        PROVE  owner'[t] = owner'[parent'[t]]
    <3>1. CASE t = s
      BY <2>2, <2>3, <2>5, <3>1
    <3>2. CASE t # s
      <4>1. parent[t] # s
        BY <2>3, <2>5, <3>2
      <4> QED
        BY <2>3, <2>5, <3>2, <4>1
    <3> QED
      BY <3>1, <3>2
  <2> QED
    BY <2>4, <2>5
<1>5. ASSUME NEW q \in Request, Answer(q) PROVE Families'
  BY <1>5 DEF Answer
<1>6. ASSUME NEW q \in Request, FindSession(q) PROVE Families'
  BY <1>6 DEF FindSession
<1>7. ASSUME NEW q \in Request, RevokeAll(q) PROVE Families'
  BY <1>7 DEF RevokeAll, RevokeAllOf
<1>8. ASSUME NEW q \in Request, RevokeOld(q) PROVE Families'
  BY <1>8 DEF RevokeOld, Revoke
<1>9. ASSUME NEW q \in Request, FindLogout(q) PROVE Families'
  BY <1>9 DEF FindLogout
<1>10. ASSUME NEW q \in Request, SaveLogout(q) PROVE Families'
  BY <1>10 DEF SaveLogout, Revoke
<1>11. ASSUME NEW q \in Request, Throws(q) PROVE Families'
  BY <1>11 DEF Throws
<1>12. ASSUME NEW s \in Session, Expire(s) PROVE Families'
  BY <1>12 DEF Expire
<1>13. CASE UNCHANGED vars
  BY <1>13 DEF vars
<1> QED
  BY <1>1, <1>2, <1>3, <1>4, <1>5, <1>6, <1>7, <1>8, <1>9, <1>10, <1>11, <1>12, <1>13
     DEF Next, Proceed

\* Every state has requests and replacements with their users.
LEMMA FamiliesHold == Spec => []Families
<1> USE DEF TypeOK, Stage, Slots, Rows, ReplacedIsRevoked, Families
<1>1. Init => Families
  BY DEF Init
<1>2. TypeOK /\ Slots /\ Rows /\ Families /\ [Next]_vars => Families'
  BY FamiliesStep
<1> QED
  BY <1>1, <1>2, TypesAndSlots, RowsHold, PTL DEF Spec

\* A step of a request that presents a revoked token goes on to the sweep, or
\* dies.
LEMMA ReuseStep ==
    ASSUME TypeOK, Slots, Families, [Next]_vars, NEW q \in Request, NEW s \in Session,
           pc[q] \in {"find", "revokeAll"}, token[q] = s, revoked[s]
    PROVE  \/ pc'[q] \in {"find", "revokeAll"}
           \/ \A t \in Of(owner[s]) : revoked'[t]
           \/ faults' # faults
<1> USE DEF TypeOK, Stage, Slots, End
<1>1. CASE pc' = pc
  BY <1>1
<1>2. ASSUME NEW r \in Request, r # q, pc'[q] = pc[q]
      PROVE  pc'[q] \in {"find", "revokeAll"}
  BY <1>2
<1>3. CASE FindSession(q)
  BY <1>3 DEF FindSession
<1>4. CASE RevokeAll(q)
  BY <1>4 DEF RevokeAll, RevokeAllOf, Families, Of
<1>5. CASE Throws(q)
  BY <1>5 DEF Throws
<1>6. ASSUME NEW r \in Request,
             \/ \E u \in User : Login(r, u)
             \/ \E t \in Session \cup {NoSession} : Refresh(r, t) \/ Logout(r, t)
             \/ SaveNew(r) \/ Answer(r) \/ RevokeOld(r) \/ FindLogout(r) \/ SaveLogout(r)
             \/ r # q /\ (FindSession(r) \/ RevokeAll(r) \/ Throws(r))
      PROVE  pc'[q] = pc[q]
  BY <1>6 DEF Login, Refresh, Logout, SaveNew, Answer, RevokeOld, FindLogout,
                    SaveLogout, FindSession, RevokeAll, Throws
<1>7. ASSUME NEW t \in Session, Expire(t) PROVE pc' = pc
  BY <1>7 DEF Expire, requests
<1>8. CASE UNCHANGED vars
  BY <1>1, <1>8 DEF vars, requests
<1> QED
  BY <1>1, <1>2, <1>3, <1>4, <1>5, <1>6, <1>7, <1>8 DEF Next, Proceed

\* A presented token that is revoked leads to the revocation of every session
\* of its user, unless the request dies.
THEOREM ReuseIsSwept == Spec => ReuseSweeps
<1>1. TypeOK /\ Slots /\ Families /\ [Next]_vars =>
        [\A q \in Request, s \in Session :
            pc[q] \in {"find", "revokeAll"} /\ token[q] = s /\ revoked[s]
            => \/ pc'[q] \in {"find", "revokeAll"}
               \/ \A t \in Of(owner[s]) : revoked'[t]
               \/ faults' # faults]_vars
  BY ReuseStep
<1> QED
  BY <1>1, TypesAndSlots, FamiliesHold, PTL DEF Spec, ReuseSweeps

\* A step keeps what is known of sweeps.
LEMMA SweepsStep ==
    ASSUME TypeOK, Slots, Rows, Families, Sweeps, [Next]_vars PROVE Sweeps'
<1> USE DEF TypeOK, Stage, Slots, Rows, ReplacedIsRevoked, Families, Sweeps,
            OnlyRacingRotationsEscape
<1> USE DEF End, table, requests
<1>1. ASSUME NEW q \in Request, NEW u \in User, Login(q, u) PROVE Sweeps'
  BY <1>1 DEF Login
<1>2. ASSUME NEW q \in Request, NEW s \in Session \cup {NoSession}, Refresh(q, s) PROVE Sweeps'
  BY <1>2 DEF Refresh
<1>3. ASSUME NEW q \in Request, NEW s \in Session \cup {NoSession}, Logout(q, s) PROVE Sweeps'
  BY <1>3 DEF Logout
<1>4. ASSUME NEW q \in Request, SaveNew(q) PROVE Sweeps'
  <2>1. PICK s \in Session : Insert(q, s)
    BY <1>4 DEF SaveNew
  <2>2. /\ pc[q] = "insert" /\ pc'[q] = "answer" /\ UNCHANGED <<token, swept, racing, revoked>>
        /\ \A r \in Request \ {q} : pc'[r] = pc[r]
    BY <1>4, <2>1 DEF SaveNew, Insert
  <2>3. /\ owner[s] = NoUser /\ parent'[s] = token[q]
        /\ \A t \in Session \ {s} : parent'[t] = parent[t]
    BY <2>1 DEF Insert
  <2>4. s \notin swept /\ token[q] \notin swept \ racing
    BY <2>2, <2>3
  <2> QED
    BY <2>2, <2>3, <2>4
<1>5. ASSUME NEW q \in Request, Answer(q) PROVE Sweeps'
  BY <1>5 DEF Answer
<1>6. ASSUME NEW q \in Request, FindSession(q) PROVE Sweeps'
  BY <1>6 DEF FindSession
<1>7. ASSUME NEW q \in Request, RevokeAll(q) PROVE Sweeps'
  <2>1. /\ pc[q] = "revokeAll" /\ user[q] \in User
        /\ swept' = swept \cup {s \in Session : owner[s] = user[q]}
        /\ racing' = racing \cup
              {token[r] : r \in {r \in Request : pc[r] \in {"revokeOld", "insert"}}}
        /\ \A s \in Session : revoked'[s] <=> revoked[s] \/ owner[s] = user[q]
        /\ UNCHANGED <<owner, parent>>
    BY <1>7 DEF RevokeAll, RevokeAllOf, Of
  <2>2. \A r \in Request : pc'[r] \in {"revokeOld", "insert"} =>
          pc[r] = pc'[r] /\ token'[r] = token[r]
    BY <1>7 DEF RevokeAll
  <2>3. \A s \in swept' : revoked'[s]
    BY <2>1
  <2>4. ASSUME NEW s \in Session, parent'[s] \in swept' \ racing' PROVE revoked'[s]
    BY <2>1, <2>4
  <2>5. ASSUME NEW r \in Request, pc'[r] \in {"revokeOld", "insert"}
        PROVE  token'[r] \notin swept' \ racing'
    BY <2>1, <2>2, <2>5
  <2> QED
    BY <2>3, <2>4, <2>5
<1>8. ASSUME NEW q \in Request, RevokeOld(q) PROVE Sweeps'
  BY <1>8 DEF RevokeOld, Revoke
<1>9. ASSUME NEW q \in Request, FindLogout(q) PROVE Sweeps'
  BY <1>9 DEF FindLogout
<1>10. ASSUME NEW q \in Request, SaveLogout(q) PROVE Sweeps'
  BY <1>10 DEF SaveLogout, Revoke
<1>11. ASSUME NEW q \in Request, Throws(q) PROVE Sweeps'
  BY <1>11 DEF Throws
<1>12. ASSUME NEW s \in Session, Expire(s) PROVE Sweeps'
  BY <1>12 DEF Expire
<1>13. CASE UNCHANGED vars
  BY <1>13 DEF vars
<1> QED
  BY <1>1, <1>2, <1>3, <1>4, <1>5, <1>6, <1>7, <1>8, <1>9, <1>10, <1>11, <1>12, <1>13
     DEF Next, Proceed

\* Nothing that descends from a swept session is valid, but for what racing
\* rotations insert.
THEOREM OnlyRacingEscape == Spec => []OnlyRacingRotationsEscape
<1> USE DEF TypeOK, Stage, Slots, Rows, ReplacedIsRevoked, Families, Sweeps,
            OnlyRacingRotationsEscape
<1>1. Init => Sweeps
  BY DEF Init
<1>2. TypeOK /\ Slots /\ Rows /\ Families /\ Sweeps /\ [Next]_vars => Sweeps'
  BY SweepsStep
<1>3. Sweeps => OnlyRacingRotationsEscape
  BY DEF Sweeps
<1> QED
  BY <1>1, <1>2, <1>3, TypesAndSlots, RowsHold, FamiliesHold, PTL DEF Spec

-----------------------------------------------------------------------------
(* The web server.                                                         *)

\* A request has a new session only between its insert and its answer, and the
\* session is that of the user it acts for.
Fresh ==
    \A q \in Request :
        /\ pc[q] # "answer" => fresh[q] = NoSession
        /\ pc[q] = "answer" =>
            /\ user[q] \in User /\ owner[fresh[q]] = user[q]
            /\ token[q] # NoSession => user[q] = owner[token[q]]

SessionsInv == TypeOK /\ Slots /\ Rows /\ Families /\ Fresh

\* the user that request q acts for, or will when it has found the session
For(q, u) == IF token[q] = NoSession THEN user[q] = u ELSE owner[token[q]] = u

\* What a request in flight does by its next step: rows keep their owners, the
\* other requests their places, and what it has made belongs to its user.
LEMMA CallGoesOn ==
    ASSUME SessionsInv, NEW q \in Request, Proceed(q) \/ Throws(q)
    PROVE /\ pc[q] # "idle"
          /\ \A s \in Session : Exists(s) => owner'[s] = owner[s]
          /\ \A r \in Request : r # q =>
                /\ pc'[r] = pc[r] /\ token'[r] = token[r]
                /\ user'[r] = user[r] /\ fresh'[r] = fresh[r]
          /\ pc'[q] # "idle" =>
                token'[q] = token[q] /\ (token[q] = NoSession => user'[q] = user[q])
<1> USE DEF SessionsInv, TypeOK, Stage, End, table, requests
<1>1. CASE SaveNew(q)
  BY <1>1 DEF SaveNew, Insert
<1>2. CASE Answer(q)
  BY <1>2 DEF Answer
<1>3. CASE FindSession(q)
  BY <1>3 DEF FindSession
<1>4. CASE RevokeAll(q)
  BY <1>4 DEF RevokeAll, RevokeAllOf
<1>5. CASE RevokeOld(q)
  BY <1>5 DEF RevokeOld, Revoke
<1>6. CASE FindLogout(q)
  BY <1>6 DEF FindLogout
<1>7. CASE SaveLogout(q)
  BY <1>7 DEF SaveLogout, Revoke
<1>8. CASE Throws(q)
  BY <1>8 DEF Throws
<1> QED BY <1>1, <1>2, <1>3, <1>4, <1>5, <1>6, <1>7, <1>8 DEF Proceed

\* A step keeps new sessions with the users of their requests.
LEMMA FreshStep ==
    ASSUME SessionsInv, NEW q \in Request,
           \/ Proceed(q) \/ Throws(q)
           \/ \E u \in User : Login(q, u)
           \/ \E s \in Session \cup {NoSession} : Refresh(q, s)
    PROVE Fresh'
<1> USE DEF SessionsInv, TypeOK, Stage, Slots, Rows, Families, Fresh, End, table, requests
<1>1. ASSUME NEW u \in User, Login(q, u) PROVE Fresh'
  BY <1>1 DEF Login
<1>2. ASSUME NEW s \in Session \cup {NoSession}, Refresh(q, s) PROVE Fresh'
  BY <1>2 DEF Refresh
<1>3. CASE SaveNew(q)
  <2>1. PICK s \in Session : Insert(q, s) /\ fresh' = [fresh EXCEPT ![q] = s]
    BY <1>3 DEF SaveNew
  <2>2. /\ pc[q] = "insert" /\ pc'[q] = "answer" /\ UNCHANGED <<token, user>>
        /\ \A r \in Request \ {q} : pc'[r] = pc[r] /\ fresh'[r] = fresh[r]
        /\ fresh'[q] = s
    BY <1>3, <2>1 DEF SaveNew
  <2>3. /\ owner[s] = NoUser /\ owner'[s] = user[q]
        /\ \A t \in Session \ {s} : owner'[t] = owner[t]
    BY <2>1 DEF Insert
  <2>4. ASSUME NEW r \in Request, r # q, pc'[r] = "answer"
        PROVE /\ user'[r] \in User /\ owner'[fresh'[r]] = user'[r]
              /\ token'[r] # NoSession => user'[r] = owner'[token'[r]]
    <3>1. fresh[r] # s /\ token[r] # s
      BY <2>2, <2>3, <2>4
    <3> QED BY <2>2, <2>3, <2>4, <3>1
  <2>5. /\ user'[q] \in User /\ owner'[fresh'[q]] = user'[q]
        /\ token'[q] # NoSession => user'[q] = owner'[token'[q]]
    <3>1. token[q] # s
      BY <2>2, <2>3
    <3> QED BY <2>2, <2>3, <3>1
  <2> QED BY <2>2, <2>4, <2>5
<1>4. CASE Answer(q)
  BY <1>4 DEF Answer
<1>5. CASE FindSession(q)
  BY <1>5 DEF FindSession
<1>6. CASE RevokeAll(q)
  BY <1>6 DEF RevokeAll, RevokeAllOf
<1>7. CASE RevokeOld(q)
  BY <1>7 DEF RevokeOld, Revoke
<1>8. CASE FindLogout(q)
  BY <1>8 DEF FindLogout
<1>9. CASE SaveLogout(q)
  BY <1>9 DEF SaveLogout, Revoke
<1>10. CASE Throws(q)
  BY <1>10 DEF Throws
<1> QED BY <1>1, <1>2, <1>3, <1>4, <1>5, <1>6, <1>7, <1>8, <1>9, <1>10 DEF Proceed

\* The invariants of the sessions hold behind the web server too, which may
\* give up on a call.
LEMMA SessionsBehindWeb == WebSpec => []SessionsInv
<1>1. WebInit => SessionsInv
  BY DEF WebInit, Init, SessionsInv, TypeOK, Stage, Slots, Rows, ReplacedIsRevoked, Families, Fresh
<1>2. SessionsInv /\ [WebNext]_webVars => SessionsInv'
  <2> SUFFICES ASSUME SessionsInv, [WebNext]_webVars PROVE SessionsInv'
    OBVIOUS
  <2>1. ASSUME NEW q \in Request,
               \/ Proceed(q) \/ Throws(q)
               \/ \E u \in User : Login(q, u)
               \/ \E s \in Session \cup {NoSession} : Refresh(q, s)
        PROVE SessionsInv'
    <3>1. [Next]_vars
      BY <2>1 DEF Next
    <3> QED BY <2>1, <3>1, TypesStep, RowsStep, FamiliesStep, FreshStep DEF SessionsInv
  <2>2. ASSUME UNCHANGED <<table, requests, known, swept, racing>>, faults' \in Nat
        PROVE SessionsInv'
    BY <2>2 DEF table, requests, SessionsInv, TypeOK, Slots, Rows, ReplacedIsRevoked, Families, Fresh
  <2>3. CASE UNCHANGED vars
    BY <2>2, <2>3 DEF vars, SessionsInv, TypeOK
  <2>4. ASSUME NEW t \in Visit, NEW q \in Request, SignIn(t, q) \/ CallRefresh(t, q)
        PROVE SessionsInv'
    <3>1. \/ \E u \in User : Login(q, u)
          \/ \E s \in Session \cup {NoSession} : Refresh(q, s)
      BY <2>4, VisitorAssumption DEF SignIn, CallRefresh, Refresh, SessionsInv, TypeOK
    <3> QED BY <2>1, <3>1
  <2>5. ASSUME NEW q \in Request, ApiStep(q) PROVE SessionsInv'
    BY <2>1, <2>5 DEF ApiStep
  <2>6. ASSUME NEW q \in Request, NetworkFails(q) PROVE SessionsInv'
    BY <2>2, <2>6 DEF NetworkFails, SessionsInv, TypeOK
  <2>7. ASSUME NEW t \in Visit, \/ Send(t) \/ StillFresh(t) \/ Join(t) \/ Receive(t) \/ SignOut(t)
        PROVE UNCHANGED vars
    BY <2>7 DEF Send, StillFresh, Join, Receive, SignOut
  <2> QED BY <2>3, <2>4, <2>5, <2>6, <2>7 DEF WebNext, webVars
<1> QED BY <1>1, <1>2, PTL DEF WebSpec

\* The memory of the web server holds a call in flight that has not resolved,
\* under the token that it presents.
Memory ==
    inflight # NoCall =>
        /\ inflight \in Request /\ settled[inflight] = {} /\ pc[inflight] # "idle"
        /\ token[inflight] = inflightKey /\ inflightKey # NoSession

\* A visit waits for a call that acts for its user, or has resolved to tokens
\* of its user.
WaitsForItsUser(t) ==
    at[t] = "waiting" =>
        /\ awaited[t] \in Request
        /\ settled[awaited[t]] \subseteq Of(VisitorOf[t]) \cup {NoSession}
        /\ settled[awaited[t]] = {} =>
               pc[awaited[t]] # "idle" /\ For(awaited[t], VisitorOf[t])

\* A cookie holds a token of its user, and so does a request sent with it.
Cookies == \A u \in User : cookie[u] # NoSession => owner[cookie[u]] = u
SentFor(t) == at[t] = "sent" => seen[t] \in Session /\ owner[seen[t]] = VisitorOf[t]

WebInv == Memory /\ Cookies /\ \A t \in Visit : SentFor(t) /\ WaitsForItsUser(t)

\* the variables of the web server keep their types
WebTypes ==
    /\ cookie \in [User -> Session \cup {NoSession}]
    /\ at \in [Visit -> {"idle", "sent", "waiting", "failed"}]
    /\ seen \in [Visit -> Session \cup {NoSession}]
    /\ awaited \in [Visit -> Request \cup {NoCall}]
    /\ settled \in [Request -> SUBSET (Session \cup {NoSession})]
    /\ inflight \in Request \cup {NoCall}
    /\ inflightKey \in Session \cup {NoSession}

\* A step of the web server keeps its types.
LEMMA WebTypesStep ==
    ASSUME SessionsInv, WebTypes, WebInv, [WebNext]_webVars PROVE WebTypes'
<1> USE VisitorAssumption DEF WebTypes
<1>1. CASE UNCHANGED webVars
  BY <1>1 DEF webVars, web
<1>2. ASSUME NEW t \in Visit, Send(t) PROVE WebTypes'
  BY <1>2 DEF Send
<1>3. ASSUME NEW t \in Visit, StillFresh(t) \/ SignOut(t) PROVE WebTypes'
  BY <1>3 DEF StillFresh, SignOut
<1>4. ASSUME NEW t \in Visit, Join(t) PROVE WebTypes'
  BY <1>4 DEF Join, Joins, Await
<1>5. ASSUME NEW t \in Visit, Receive(t) PROVE WebTypes'
  <2>1. PICK value \in settled[awaited[t]] :
          /\ cookie' = IF value # NoSession
                       THEN [cookie EXCEPT ![VisitorOf[t]] = value] ELSE cookie
          /\ at' = [at EXCEPT ![t] = IF value # NoSession THEN "idle" ELSE "failed"]
    BY <1>5 DEF Receive
  <2>2. awaited[t] \in Request
    BY <1>5 DEF Receive, WebInv, WaitsForItsUser
  <2> QED BY <1>5, <2>1, <2>2 DEF Receive
<1>6. ASSUME NEW t \in Visit, NEW q \in Request, SignIn(t, q) PROVE WebTypes'
  BY <1>6 DEF SignIn, Await
<1>7. ASSUME NEW t \in Visit, NEW q \in Request, CallRefresh(t, q) PROVE WebTypes'
  BY <1>7 DEF CallRefresh, Await
<1>8. ASSUME NEW q \in Request, NEW value \in Session \cup {NoSession}, Settle(q, value)
      PROVE WebTypes'
  BY <1>8 DEF Settle
<1>9. ASSUME NEW q \in Request, ApiStep(q) PROVE WebTypes'
  <2>1. fresh[q] \in Session \cup {NoSession}
    BY DEF SessionsInv, TypeOK
  <2> QED BY <1>8, <1>9, <2>1 DEF ApiStep, web
<1>10. ASSUME NEW q \in Request, NetworkFails(q) PROVE WebTypes'
  BY <1>8, <1>10 DEF NetworkFails
<1> QED BY <1>1, <1>2, <1>3, <1>4, <1>5, <1>6, <1>7, <1>9, <1>10 DEF WebNext

\* What a call that ends resolves to belongs to the user it acts for.
LEMMA ValueOf ==
    ASSUME SessionsInv, NEW q \in Request, Proceed(q) \/ Throws(q), pc'[q] = "idle",
           fresh[q] \in known', NEW u \in User, For(q, u), NEW t \in {fresh[q]}
    PROVE t \in Of(u)'
<1>1. fresh[q] \in Session
  <2>1. known' \subseteq Session
    <3>1. [Next]_vars
      BY DEF Next
    <3> QED BY <3>1, TypesStep DEF SessionsInv, TypeOK
  <2> QED BY <2>1
<1>2. pc[q] = "answer"
  BY <1>1 DEF SessionsInv, Fresh
<1>3. owner[fresh[q]] = u
  BY <1>2 DEF SessionsInv, Fresh, For
<1>4. owner'[fresh[q]] = u
  BY <1>1, <1>3, CallGoesOn
<1> QED BY <1>1, <1>4 DEF Of

\* The sessions stay those of their users in a step of the web server.
LEMMA OwnersStay ==
    ASSUME SessionsInv, [WebNext]_webVars
    PROVE /\ \A s \in Session : Exists(s) => owner'[s] = owner[s]
          /\ \A u \in User : Of(u) \subseteq Of(u)'
<1>1. \A s \in Session : Exists(s) => owner'[s] = owner[s]
  <2>1. ASSUME NEW q \in Request, ApiStep(q) PROVE \A s \in Session : Exists(s) => owner'[s] = owner[s]
    BY <2>1, CallGoesOn DEF ApiStep
  <2> QED BY <2>1 DEF WebNext, webVars, vars, table, Send, StillFresh, Join, Receive, SignOut, SignIn,
                      CallRefresh, Login, Refresh, NetworkFails
<1> QED BY <1>1 DEF Of

\* A visit waits on when neither it nor its call moves.
LEMMA StillWaits ==
    ASSUME SessionsInv, [WebNext]_webVars, NEW t \in Visit, WaitsForItsUser(t),
           at'[t] = at[t], awaited'[t] = awaited[t],
           at[t] = "waiting" =>
               LET q == awaited[t] IN
               /\ settled'[q] = settled[q]
               /\ settled[q] = {} /\ pc[q] # "idle" =>
                    pc'[q] # "idle" /\ token'[q] = token[q] /\ (token[q] = NoSession => user'[q] = user[q])
    PROVE WaitsForItsUser(t)'
<1> SUFFICES ASSUME at[t] = "waiting"
             PROVE /\ settled'[awaited[t]] \subseteq Of(VisitorOf[t])' \cup {NoSession}
                   /\ settled'[awaited[t]] = {} =>
                        pc'[awaited[t]] # "idle" /\ For(awaited[t], VisitorOf[t])'
  BY DEF WaitsForItsUser
<1> DEFINE q == awaited[t]
           v == VisitorOf[t]
<1>1. q \in Request /\ v \in User
  BY VisitorAssumption DEF WaitsForItsUser
<1>2. settled'[q] \subseteq Of(v)' \cup {NoSession}
  BY <1>1, OwnersStay DEF WaitsForItsUser
<1>3. ASSUME settled[q] = {} PROVE pc'[q] # "idle" /\ For(q, v)'
  <2>1. pc[q] # "idle" /\ For(q, v)
    BY <1>3 DEF WaitsForItsUser
  <2>2. pc'[q] # "idle" /\ token'[q] = token[q] /\ (token[q] = NoSession => user'[q] = user[q])
    BY <1>3, <2>1
  <2>3. token[q] # NoSession => token[q] \in Session /\ Exists(token[q])
    BY <1>1 DEF SessionsInv, TypeOK
  <2> QED BY <2>1, <2>2, <2>3, OwnersStay DEF For
<1> QED BY <1>2, <1>3

\* A cookie that is not written, and the requests sent with it, stay good.
LEMMA StillSent ==
    ASSUME SessionsInv, WebTypes, WebInv, [WebNext]_webVars
    PROVE /\ cookie' = cookie => Cookies'
          /\ \A t \in Visit : at'[t] = at[t] /\ seen'[t] = seen[t] => SentFor(t)'
<1>1. \A u \in User : cookie[u] # NoSession => owner'[cookie[u]] = owner[cookie[u]]
  <2> SUFFICES ASSUME NEW u \in User, cookie[u] # NoSession PROVE owner'[cookie[u]] = owner[cookie[u]]
    OBVIOUS
  <2>1. cookie[u] \in Session /\ Exists(cookie[u])
    BY DEF WebInv, WebTypes, Cookies
  <2> QED BY <2>1, OwnersStay
<1>2. ASSUME NEW t \in Visit, at[t] = "sent" PROVE owner'[seen[t]] = owner[seen[t]] /\ seen[t] \in Session
  <2>1. seen[t] \in Session /\ Exists(seen[t])
    BY <1>2, VisitorAssumption DEF WebInv, SentFor
  <2> QED BY <2>1, OwnersStay
<1> QED BY <1>1, <1>2 DEF Cookies, SentFor, WebInv

\* A step of the web server keeps tokens with their users.
LEMMA WebInvStep ==
    ASSUME SessionsInv, WebTypes, WebInv, [WebNext]_webVars PROVE WebInv'
<1> USE VisitorAssumption
<1>1. ASSUME NEW t \in Visit, cookie' = cookie \/ Cookies', Memory', SentFor(t)', WaitsForItsUser(t)',
             \A x \in Visit : x # t =>
                at'[x] = at[x] /\ seen'[x] = seen[x] /\ awaited'[x] = awaited[x],
             \A q \in Request : (\E x \in Visit : x # t /\ awaited[x] = q) =>
                /\ settled'[q] = settled[q]
                /\ pc[q] # "idle" => pc'[q] = pc[q] /\ token'[q] = token[q] /\ user'[q] = user[q]
      PROVE WebInv'
  <2>1. ASSUME NEW x \in Visit, x # t PROVE SentFor(x)' /\ WaitsForItsUser(x)'
    <3>1. WaitsForItsUser(x)
      BY DEF WebInv
    <3>2. at[x] = "waiting" => awaited[x] \in Request
      BY <3>1 DEF WaitsForItsUser
    <3> QED BY <1>1, <2>1, <3>1, <3>2, StillSent, StillWaits
  <2> QED BY <1>1, <2>1, StillSent DEF WebInv
<1>2. CASE UNCHANGED webVars
  <2>1. Memory' /\ Cookies'
    BY <1>2 DEF webVars, web, vars, table, requests, Memory, Cookies, WebInv
  <2>2. ASSUME NEW t \in Visit PROVE SentFor(t)' /\ WaitsForItsUser(t)'
    BY <1>2 DEF webVars, web, vars, table, requests, SentFor, WaitsForItsUser, WebInv, For, Of
  <2> QED BY <2>1, <2>2 DEF WebInv
<1>3. ASSUME UNCHANGED <<vars, settled, inflight, inflightKey>>
      PROVE /\ Memory'
            /\ \A q \in Request : /\ settled'[q] = settled[q] /\ pc'[q] = pc[q]
                                  /\ token'[q] = token[q] /\ user'[q] = user[q]
  BY <1>3 DEF vars, requests, Memory, WebInv
<1>4. ASSUME NEW t \in Visit, Send(t) PROVE WebInv'
  <2>1. /\ UNCHANGED <<vars, settled, inflight, inflightKey, cookie, awaited>>
        /\ at'[t] = "sent" /\ seen'[t] = cookie[VisitorOf[t]] /\ cookie[VisitorOf[t]] # NoSession
        /\ \A x \in Visit : x # t => at'[x] = at[x] /\ seen'[x] = seen[x]
    BY <1>4 DEF Send, WebTypes
  <2>2. SentFor(t)'
    BY <2>1 DEF SentFor, WebInv, Cookies, WebTypes, vars, table
  <2>3. WaitsForItsUser(t)'
    BY <2>1 DEF WaitsForItsUser
  <2> QED BY <1>1, <1>3, <2>1, <2>2, <2>3
<1>5. ASSUME NEW t \in Visit, StillFresh(t) PROVE WebInv'
  <2>1. /\ UNCHANGED <<vars, settled, inflight, inflightKey, cookie, awaited, seen>>
        /\ at'[t] = "idle" /\ \A x \in Visit : x # t => at'[x] = at[x]
    BY <1>5 DEF StillFresh, WebTypes
  <2> QED BY <1>1, <1>3, <2>1 DEF SentFor, WaitsForItsUser
<1>6. ASSUME NEW t \in Visit, SignOut(t) PROVE WebInv'
  <2>1. /\ UNCHANGED <<vars, settled, inflight, inflightKey, awaited, seen>>
        /\ at'[t] = "idle" /\ \A x \in Visit : x # t => at'[x] = at[x]
    BY <1>6 DEF SignOut, WebTypes
  <2>2. Cookies'
    BY <1>6 DEF SignOut, Cookies, WebInv, WebTypes, vars, table
  <2> QED BY <1>1, <1>3, <2>1, <2>2 DEF SentFor, WaitsForItsUser
<1>7. ASSUME NEW t \in Visit, Join(t) PROVE WebInv'
  <2>1. /\ UNCHANGED <<vars, settled, inflight, inflightKey, cookie, seen>>
        /\ at'[t] = "waiting" /\ awaited'[t] = inflight
        /\ \A x \in Visit : x # t => at'[x] = at[x] /\ awaited'[x] = awaited[x]
        /\ at[t] = "sent" /\ inflight # NoCall /\ inflightKey = seen[t]
    BY <1>7 DEF Join, Joins, Await, WebTypes
  <2>2. owner[token[inflight]] = VisitorOf[t] /\ settled[inflight] = {}
        /\ inflight \in Request /\ pc[inflight] # "idle" /\ token[inflight] # NoSession
    BY <2>1 DEF WebInv, Memory, SentFor
  <2>3. WaitsForItsUser(t)'
    BY <2>1, <2>2 DEF WaitsForItsUser, For, vars, table, requests
  <2> QED BY <1>1, <1>3, <2>1, <2>3 DEF SentFor
<1>8. ASSUME NEW t \in Visit, Receive(t) PROVE WebInv'
  <2>1. PICK value \in settled[awaited[t]] :
            /\ cookie' = IF value # NoSession
                         THEN [cookie EXCEPT ![VisitorOf[t]] = value] ELSE cookie
            /\ at' = [at EXCEPT ![t] = IF value # NoSession THEN "idle" ELSE "failed"]
    BY <1>8 DEF Receive
  <2>2. /\ UNCHANGED <<vars, settled, inflight, inflightKey, seen>>
        /\ at'[t] # "waiting" /\ at'[t] # "sent"
        /\ \A x \in Visit : x # t => at'[x] = at[x] /\ awaited'[x] = awaited[x]
    BY <1>8, <2>1 DEF Receive, WebTypes
  <2>3. value \in Of(VisitorOf[t]) \cup {NoSession}
    BY <1>8, <2>1 DEF Receive, WebInv, WaitsForItsUser
  <2>4. Cookies'
    BY <2>1, <2>2, <2>3 DEF Cookies, WebInv, WebTypes, vars, table, Of
  <2> QED BY <1>1, <1>3, <2>2, <2>4 DEF SentFor, WaitsForItsUser
<1>9. ASSUME NEW t \in Visit, NEW q \in Request, SignIn(t, q) PROVE WebInv'
  <2>1. /\ UNCHANGED <<cookie, seen, inflight, inflightKey>>
        /\ at'[t] = "waiting" /\ awaited'[t] = q
        /\ \A x \in Visit : x # t => at'[x] = at[x] /\ awaited'[x] = awaited[x]
        /\ settled'[q] = {} /\ \A r \in Request : r # q => settled'[r] = settled[r]
        /\ pc[q] = "idle" /\ \A x \in Visit : awaited[x] # q
    BY <1>9 DEF SignIn, Await, Free, WebTypes
  <2>2. /\ pc'[q] = "insert" /\ token'[q] = token[q] /\ user'[q] = VisitorOf[t]
        /\ \A r \in Request : r # q => pc'[r] = pc[r] /\ token'[r] = token[r] /\ user'[r] = user[r]
    BY <1>9 DEF SignIn, Login, SessionsInv, TypeOK
  <2>3. token[q] = NoSession
    BY <2>1 DEF SessionsInv, Slots
  <2>4. Memory'
    BY <2>1, <2>2 DEF Memory, WebInv
  <2>5. WaitsForItsUser(t)'
    BY <2>1, <2>2, <2>3 DEF WaitsForItsUser, For
  <2> QED BY <1>1, <2>1, <2>2, <2>4, <2>5 DEF SentFor
<1>10. ASSUME NEW t \in Visit, NEW q \in Request, CallRefresh(t, q) PROVE WebInv'
  <2>1. /\ UNCHANGED <<cookie, seen>> /\ inflight' = q /\ inflightKey' = seen[t]
        /\ at'[t] = "waiting" /\ awaited'[t] = q /\ at[t] = "sent"
        /\ \A x \in Visit : x # t => at'[x] = at[x] /\ awaited'[x] = awaited[x]
        /\ settled'[q] = {} /\ \A r \in Request : r # q => settled'[r] = settled[r]
        /\ pc[q] = "idle" /\ \A x \in Visit : awaited[x] # q
    BY <1>10 DEF CallRefresh, Await, Free, WebTypes
  <2>2. /\ pc'[q] = "find" /\ token'[q] = seen[t] /\ owner' = owner
        /\ \A r \in Request : r # q => pc'[r] = pc[r] /\ token'[r] = token[r] /\ user'[r] = user[r]
    BY <1>10 DEF CallRefresh, Refresh, SessionsInv, TypeOK, table
  <2>3. seen[t] \in Session /\ owner[seen[t]] = VisitorOf[t]
    BY <2>1 DEF WebInv, SentFor
  <2>4. Memory'
    BY <2>1, <2>2, <2>3 DEF Memory
  <2>5. WaitsForItsUser(t)'
    BY <2>1, <2>2, <2>3 DEF WaitsForItsUser, For
  <2> QED BY <1>1, <2>1, <2>2, <2>4, <2>5 DEF SentFor
<1>11. ASSUME NEW q \in Request, NEW value, Settle(q, value), settled[q] = {},
              \A t \in Visit : at[t] = "waiting" /\ awaited[t] = q =>
                    value \in Of(VisitorOf[t])' \cup {NoSession},
              \A r \in Request : r # q => pc'[r] = pc[r] /\ token'[r] = token[r] /\ user'[r] = user[r]
       PROVE WebInv'
  <2>1. /\ UNCHANGED <<cookie, at, seen, awaited>> /\ settled'[q] = {value}
        /\ \A r \in Request : r # q => settled'[r] = settled[r]
    BY <1>11 DEF Settle, WebTypes
  <2>2. Memory'
    BY <1>11, <2>1 DEF Settle, Memory, WebInv
  <2>3. ASSUME NEW t \in Visit PROVE SentFor(t)' /\ WaitsForItsUser(t)'
    <3>1. SentFor(t)' /\ WaitsForItsUser(t)
      BY <2>1, StillSent DEF WebInv
    <3>2. CASE at[t] = "waiting" /\ awaited[t] = q
      BY <1>11, <2>1, <3>1, <3>2 DEF WaitsForItsUser
    <3>3. CASE at[t] = "waiting" /\ awaited[t] # q
      <4>1. awaited[t] \in Request
        BY <3>1, <3>3 DEF WaitsForItsUser
      <4> QED BY <1>11, <2>1, <3>1, <3>3, <4>1, StillWaits
    <3>4. CASE at[t] # "waiting"
      BY <2>1, <3>1, <3>4 DEF WaitsForItsUser
    <3> QED BY <3>1, <3>2, <3>3, <3>4
  <2> QED BY <2>1, <2>2, <2>3, StillSent DEF WebInv
<1>12. ASSUME NEW q \in Request, ApiStep(q) PROVE WebInv'
  <2>1. Proceed(q) \/ Throws(q)
    BY <1>12 DEF ApiStep
  <2>2. CASE pc'[q] = "idle" /\ settled[q] = {}
    <3> DEFINE value == IF fresh[q] \in known' THEN fresh[q] ELSE NoSession
    <3>1. Settle(q, value)
      BY <1>12, <2>2 DEF ApiStep
    <3>2. ASSUME NEW t \in Visit, at[t] = "waiting", awaited[t] = q
          PROVE value \in Of(VisitorOf[t])' \cup {NoSession}
      <4>1. For(q, VisitorOf[t]) /\ VisitorOf[t] \in User
        BY <2>2, <3>2 DEF WebInv, WaitsForItsUser
      <4> QED BY <2>1, <2>2, <4>1, ValueOf
    <3> HIDE DEF value
    <3> QED BY <1>11, <2>1, <2>2, <3>1, <3>2, CallGoesOn
  <2>3. CASE ~(pc'[q] = "idle" /\ settled[q] = {})
    <3>1. UNCHANGED web
      BY <1>12, <2>3 DEF ApiStep
    <3>2. Memory'
      BY <2>1, <2>3, <3>1, CallGoesOn DEF web, Memory, WebInv
    <3>3. ASSUME NEW t \in Visit PROVE SentFor(t)' /\ WaitsForItsUser(t)'
      <4>1. SentFor(t)' /\ WaitsForItsUser(t)
        BY <3>1, StillSent DEF web, WebInv
      <4>2. at[t] = "waiting" => awaited[t] \in Request
        BY <4>1 DEF WaitsForItsUser
      <4> QED BY <2>1, <2>3, <3>1, <4>1, <4>2, CallGoesOn, StillWaits DEF web
    <3> QED BY <3>1, <3>2, <3>3, StillSent DEF WebInv, web
  <2> QED BY <2>2, <2>3
<1>13. ASSUME NEW q \in Request, NetworkFails(q) PROVE WebInv'
  BY <1>11, <1>13 DEF NetworkFails, requests
<1> QED BY <1>2, <1>4, <1>5, <1>6, <1>7, <1>8, <1>9, <1>10, <1>12, <1>13 DEF WebNext

\* The web server always keeps its types, and tokens with their users.
LEMMA WebHolds == WebSpec => [](WebTypes /\ WebInv)
<1>1. WebInit => WebTypes /\ WebInv
  BY VisitorAssumption DEF WebInit, WebTypes, WebInv, Memory, Cookies, SentFor, WaitsForItsUser
<1>2. SessionsInv /\ WebTypes /\ WebInv /\ [WebNext]_webVars => (WebTypes /\ WebInv)'
  BY WebTypesStep, WebInvStep
<1> QED BY <1>1, <1>2, SessionsBehindWeb, PTL DEF WebSpec

\* The web server and the browsers keep their types.
THEOREM WebTypeCorrect == WebSpec => []WebTypeOK
<1>1. SessionsInv /\ WebTypes => WebTypeOK
  BY DEF SessionsInv, WebTypes, WebTypeOK
<1> QED BY <1>1, WebHolds, SessionsBehindWeb, PTL

\* One memory of calls in flight serves all users, and no call ever hands the
\* tokens of one user to the browser of another.
THEOREM TokensStay == WebSpec => []TokensStayWithTheirUser
<1>1. WebInv => TokensStayWithTheirUser
  BY DEF WebInv, Cookies, WaitsForItsUser, TokensStayWithTheirUser
<1> QED BY <1>1, WebHolds, PTL

-----------------------------------------------------------------------------
(* The sessions behind the web server.                                     *)

\* To the sessions, a step of the web server is a step of a request, or nothing
\* but a fault.
LEMMA WebStepIsNext ==
    ASSUME SessionsInv, [WebNext]_webVars
    PROVE  [Next]_vars \/ (UNCHANGED <<table, requests, known, swept, racing>> /\ faults' # faults)
<1>1. ASSUME NEW t \in Visit, NEW q \in Request, SignIn(t, q) \/ CallRefresh(t, q) PROVE Next
  BY <1>1, VisitorAssumption DEF SignIn, CallRefresh, Refresh, SessionsInv, TypeOK, Next
<1>2. ASSUME NEW q \in Request, ApiStep(q) PROVE Next
  BY <1>2 DEF ApiStep, Next
<1>3. ASSUME NEW q \in Request, NetworkFails(q)
      PROVE  UNCHANGED <<table, requests, known, swept, racing>> /\ faults' # faults
  BY <1>3 DEF NetworkFails, SessionsInv, TypeOK
<1>4. ASSUME NEW t \in Visit, Send(t) \/ StillFresh(t) \/ Join(t) \/ Receive(t) \/ SignOut(t)
      PROVE  UNCHANGED vars
  BY <1>4 DEF Send, StillFresh, Join, Receive, SignOut
<1>5. ASSUME UNCHANGED webVars PROVE UNCHANGED vars
  BY <1>5 DEF webVars
<1> QED BY <1>1, <1>2, <1>3, <1>4, <1>5 DEF WebNext

\* Behind the web server, which gives up on calls and starts others, rotation
\* and reuse detection keep what they keep alone.
THEOREM SessionsHoldBehindWeb ==
    WebSpec => [](ReplacedIsRevoked /\ OneReplacementPerRequest /\ OnlyRacingRotationsEscape)
<1> USE DEF OneReplacementPerRequest, OnlyRacingRotationsEscape
<1>1. WebInit => Replacements /\ Sweeps
  BY DEF WebInit, Init, TypeOK, Stage, Replacements, Sweeps
<1>2. SessionsInv /\ Replacements /\ Sweeps /\ [WebNext]_webVars => Replacements' /\ Sweeps'
  <2> SUFFICES ASSUME SessionsInv, Replacements, Sweeps, [WebNext]_webVars
               PROVE  Replacements' /\ Sweeps'
    OBVIOUS
  <2>1. CASE [Next]_vars
    BY <2>1, ReplacementsStep, SweepsStep DEF SessionsInv
  <2>2. CASE UNCHANGED <<table, requests, known, swept, racing>>
    BY <2>2 DEF table, requests, Replacements, Sweeps
  <2> QED BY <2>1, <2>2, WebStepIsNext
<1>3. SessionsInv /\ Replacements /\ Sweeps =>
          ReplacedIsRevoked /\ OneReplacementPerRequest /\ OnlyRacingRotationsEscape
  BY DEF SessionsInv, Rows, Replacements, Sweeps
<1> QED BY <1>1, <1>2, <1>3, SessionsBehindWeb, PTL DEF WebSpec

\* Behind the web server a revoked session stays revoked, and a call that
\* presents one ends in the sweep of its user, unless it dies.
THEOREM ReuseIsSweptBehindWeb == WebSpec => RevokedForGood /\ ReuseSweeps
<1>1. SessionsInv /\ [WebNext]_webVars =>
        [\A s \in Session : revoked[s] => revoked'[s] /\ owner'[s] = owner[s]]_vars
  <2> SUFFICES ASSUME SessionsInv, [WebNext]_webVars, NEW s \in Session, revoked[s]
               PROVE  revoked'[s] /\ owner'[s] = owner[s]
    OBVIOUS
  <2>1. CASE [Next]_vars
    BY <2>1, RevokedStep DEF SessionsInv
  <2> QED BY <2>1, WebStepIsNext DEF table
<1>2. SessionsInv /\ [WebNext]_webVars =>
        [\A q \in Request, s \in Session :
            pc[q] \in {"find", "revokeAll"} /\ token[q] = s /\ revoked[s]
            => \/ pc'[q] \in {"find", "revokeAll"}
               \/ \A t \in Of(owner[s]) : revoked'[t]
               \/ faults' # faults]_vars
  <2> SUFFICES ASSUME SessionsInv, [WebNext]_webVars, NEW q \in Request, NEW s \in Session,
                      pc[q] \in {"find", "revokeAll"}, token[q] = s, revoked[s]
               PROVE  \/ pc'[q] \in {"find", "revokeAll"}
                      \/ \A t \in Of(owner[s]) : revoked'[t]
                      \/ faults' # faults
    OBVIOUS
  <2>1. CASE [Next]_vars
    BY <2>1, ReuseStep DEF SessionsInv
  <2> QED BY <2>1, WebStepIsNext
<1> QED BY <1>1, <1>2, SessionsBehindWeb, PTL DEF WebSpec, RevokedForGood, ReuseSweeps

-----------------------------------------------------------------------------
(* Users and the seeder (Identity), and the pages (AccountPages).          *)

StartStage == {"down", "up"} \cup Finds \cup Writes

\* A start that goes on, and the rivals that it leaves.
LEMMA GoesOn ==
    ASSUME IdentityTypeOK, NEW p \in Proc, NEW s \in StartStage, GoTo(p, s)
    PROVE  /\ step' \in [Proc -> StartStage] /\ orgRivals' \subseteq Proc
           /\ roleRivals' \in [Organization -> SUBSET Proc]
           /\ step'[p] = s /\ \A r \in Proc : r # p => step'[r] = step[r]
           /\ \A r \in Starting : r # p \/ s \notin {"up", "down"} =>
                 /\ db'.organizations # {} /\ (db.organizations = {} \/ r \in orgRivals) =>
                        r \in orgRivals'
                 /\ \A o \in Organization :
                        db'.roles[o] > 0 /\ (db.roles[o] = 0 \/ r \in roleRivals[o]) =>
                            r \in roleRivals'[o]
<1>1. Starting \subseteq Proc
  BY DEF Starting
<1>2. /\ step' \in [Proc -> StartStage]
      /\ step'[p] = s /\ \A r \in Proc : r # p => step'[r] = step[r]
  BY DEF GoTo, IdentityTypeOK, StartStage
<1> DEFINE gone == IF s \in {"up", "down"} THEN {p} ELSE {}
           rivals(o) == (IF db.roles[o] = 0 /\ db'.roles[o] > 0 THEN Starting ELSE roleRivals[o]) \ gone
           first == db'.organizations # {} /\ db.organizations = {}
<1>3. /\ orgRivals' = (IF first THEN Starting ELSE orgRivals) \ gone
      /\ roleRivals' = [o \in Organization |-> rivals(o)]
  BY DEF GoTo
<1>4. orgRivals' \subseteq Proc /\ roleRivals' \in [Organization -> SUBSET Proc]
  <2>1. \A o \in Organization : rivals(o) \in SUBSET Proc
    BY <1>1 DEF IdentityTypeOK
  <2> QED BY <1>1, <1>3, <2>1 DEF IdentityTypeOK
<1>5. ASSUME NEW r \in Starting, r # p \/ s \notin {"up", "down"}
      PROVE  /\ db'.organizations # {} /\ (db.organizations = {} \/ r \in orgRivals) =>
                    r \in orgRivals'
             /\ \A o \in Organization :
                    db'.roles[o] > 0 /\ (db.roles[o] = 0 \/ r \in roleRivals[o]) =>
                        r \in roleRivals'[o]
  <2>1. r \notin gone
    BY <1>5
  <2>2. \A o \in Organization : roleRivals'[o] = rivals(o)
    BY <1>3
  <2> HIDE DEF gone
  <2> QED BY <1>3, <2>1, <2>2
<1> QED BY <1>2, <1>4, <1>5

\* What a write of a start does to the tables.
LEMMA Writing ==
    ASSUME IdentityTypeOK, NEW p \in Proc, step[p] \in Writes, NEW d \in Written(p),
           \A o1, o2 \in mine[p] : o1 = o2
    PROVE  /\ d \in Database
           /\ \A e \in Email : e # Admin => d.user[e] = db.user[e]
           /\ \/ d.user[Admin] = db.user[Admin]
              \/ /\ step[p] = "saveAdmin" /\ db.user[Admin] = NoAccount
                 /\ d.user[Admin] = NewUser
              \/ /\ step[p] = "activate" /\ db.user[Admin] # NoAccount
                 /\ d.user[Admin] = [db.user[Admin] EXCEPT !.status = "ACTIVE"]
           /\ step[p] = "activate" => d.user[Admin] = [db.user[Admin] EXCEPT !.status = "ACTIVE"]
                                      /\ db.user[Admin] # NoAccount
           /\ IF step[p] = "newOrganization"
              THEN \E o \in Organization \ db.organizations :
                      d.organizations = db.organizations \cup {o}
              ELSE d.organizations = db.organizations
           /\ d.organizationMembers =
                 IF step[p] = "newOrganizationMember" THEN db.organizationMembers \cup mine[p]
                 ELSE db.organizationMembers
           /\ d.workspaces =
                 IF step[p] = "newWorkspace" THEN db.workspaces \cup mine[p] ELSE db.workspaces
           /\ d.members = IF step[p] = "newMember" THEN db.members \cup mine[p] ELSE db.members
           /\ \A o \in Organization : d.roles[o] =
                 IF step[p] = "newRole" /\ o \in mine[p] THEN db.roles[o] + 1 ELSE db.roles[o]
<1> USE AdminAssumption DEF IdentityTypeOK, Database
<1>1. CASE step[p] = "newTenant"
  <2>1. d = [db EXCEPT !["tenants"] = @ \cup {"system-root"}]
    BY <1>1 DEF Written, With
  <2> QED BY <1>1, <2>1
<1>2. CASE step[p] = "saveAdmin"
  <2>1. d = [db EXCEPT !.user[Admin] = NewUser] /\ db.user[Admin] = NoAccount
    BY <1>2 DEF Written
  <2>2. NewUser \in UserRow
    BY DEF NewUser, UserRow, Blank, Profile
  <2> QED BY <1>2, <2>1, <2>2
<1>3. CASE step[p] = "activate"
  <2>1. d = [db EXCEPT !.user[Admin].status = "ACTIVE"] /\ db.user[Admin] # NoAccount
    BY <1>3 DEF Written
  <2>2. [db.user[Admin] EXCEPT !.status = "ACTIVE"] \in UserRow
    BY <2>1 DEF UserRow
  <2> QED BY <1>3, <2>1, <2>2
<1>4. CASE step[p] = "newOrganization"
  <2>1. NewId \subseteq Organization \ db.organizations
    <3>1. CASE db.organizations = Organization
      BY <3>1 DEF NewId
    <3>2. CASE db.organizations # Organization
      <4>1. \E o \in Organization : o \notin db.organizations
        BY <3>2
      <4> QED BY <3>2, <4>1 DEF NewId
    <3> QED BY <3>1, <3>2
  <2>2. PICK o \in NewId : d = [db EXCEPT !["organizations"] = @ \cup {o}]
    BY <1>4 DEF Written, With
  <2> QED BY <1>4, <2>1, <2>2
<1>5. CASE step[p] = "newOrganizationMember"
  <2>1. PICK o \in mine[p] : d = [db EXCEPT !["organizationMembers"] = @ \cup {o}]
    BY <1>5 DEF Written, With
  <2>2. mine[p] = {o} /\ o \in Organization
    BY <2>1
  <2> QED BY <1>5, <2>1, <2>2
<1>6. CASE step[p] = "newWorkspace"
  <2>1. PICK o \in mine[p] : d = [db EXCEPT !["workspaces"] = @ \cup {o}]
    BY <1>6 DEF Written, With
  <2>2. mine[p] = {o} /\ o \in Organization
    BY <2>1
  <2> QED BY <1>6, <2>1, <2>2
<1>7. CASE step[p] = "newRole"
  <2>1. PICK o \in mine[p] : d = [db EXCEPT !.roles[o] = @ + 1]
    BY <1>7 DEF Written
  <2>2. mine[p] = {o} /\ o \in Organization
    BY <2>1
  <2> QED BY <1>7, <2>1, <2>2
<1>8. CASE step[p] = "newMember"
  <2>1. PICK o \in mine[p] : d = [db EXCEPT !["members"] = @ \cup {o}]
    BY <1>8 DEF Written, With
  <2>2. mine[p] = {o} /\ o \in Organization
    BY <2>1
  <2> QED BY <1>8, <2>1, <2>2
<1> QED BY <1>1, <1>2, <1>3, <1>4, <1>5, <1>6, <1>7, <1>8 DEF Writes

AdminIsActive == db.user[Admin] # NoAccount /\ db.user[Admin].status = "ACTIVE"

\* The steps of a start that has an organization, and what each may rely on.
Owning == {"newOrganizationMember", "findWorkspace", "newWorkspace", "findRole", "newRole",
           "findMember", "newMember", "up"}
Started(p) ==
    /\ step[p] \in Owning \cup {"findOrganization", "newOrganization"} => AdminIsActive
    /\ IF step[p] \in Owning THEN \E o \in db.organizations : mine[p] = {o} ELSE mine[p] = {}
    /\ step[p] \in {"findRole", "newRole", "findMember", "newMember", "up"} =>
           mine[p] \subseteq db.workspaces
    /\ step[p] \in {"findMember", "newMember", "up"} => \A o \in mine[p] : db.roles[o] > 0
    /\ step[p] = "up" => mine[p] \subseteq db.members
    /\ step[p] = "newOrganization" /\ db.organizations # {} => p \in orgRivals
    /\ step[p] = "newRole" => \A o \in mine[p] : db.roles[o] > 0 => p \in roleRivals[o]

\* Every default organization has its member, or will have one, or its maker died.
Joined ==
    \A o \in db.organizations \ (db.organizationMembers \cup orphaned) :
        \E r \in Proc : step[r] = "newOrganizationMember" /\ mine[r] = {o}

StartsInv == Joined /\ \A p \in Proc : Started(p)

\* p goes to step s with the organizations m, having written what it was about to
\* write, or not.
Moves(p, s, m) ==
    /\ s \in StartStage /\ m \subseteq Organization
    /\ GoTo(p, s)
    /\ mine' = [mine EXCEPT ![p] = m]
    /\ db' = db \/ (step[p] \in Writes /\ db' \in Written(p))

\* Nothing is lost from the tables.
LEMMA NothingIsUndone ==
    ASSUME IdentityTypeOK, NEW p \in Proc, Started(p), NEW s, NEW m, Moves(p, s, m)
    PROVE  /\ db' \in Database
           /\ db.organizations \subseteq db'.organizations
           /\ db.organizationMembers \subseteq db'.organizationMembers
           /\ db.workspaces \subseteq db'.workspaces /\ db.members \subseteq db'.members
           /\ \A o \in Organization : db'.roles[o] >= db.roles[o]
           /\ \A e \in Email : e # Admin => db'.user[e] = db.user[e]
           /\ AdminIsActive => AdminIsActive'
           /\ \/ db'.user[Admin] = db.user[Admin]
              \/ db.user[Admin] = NoAccount /\ db'.user[Admin] = NewUser
              \/ db.user[Admin] # NoAccount
                    /\ db'.user[Admin] = [db.user[Admin] EXCEPT !.status = "ACTIVE"]
<1>1. CASE db' = db
  <2>1. \A o \in Organization : db.roles[o] \in Nat
    BY DEF IdentityTypeOK, Database
  <2> QED BY <1>1, <2>1 DEF IdentityTypeOK, AdminIsActive
<1>2. CASE step[p] \in Writes /\ db' \in Written(p)
  <2>1. \A o1, o2 \in mine[p] : o1 = o2
    BY DEF Started
  <2>2. \A o \in Organization : db.roles[o] \in Nat
    BY DEF IdentityTypeOK, Database
  <2>3. db.user[Admin] \in UserRow \cup {NoAccount}
    BY AdminAssumption DEF IdentityTypeOK, Database
  <2>4. db.user[Admin] # NoAccount => [db.user[Admin] EXCEPT !.status = "ACTIVE"] # NoAccount
                                      /\ [db.user[Admin] EXCEPT !.status = "ACTIVE"].status = "ACTIVE"
    BY <2>3 DEF UserRow, NoAccount
  <2> DEFINE d == db'
  <2>a. d \in Written(p)
    BY <1>2
  <2> HIDE DEF d
  <2>5. /\ d \in Database
        /\ \A e \in Email : e # Admin => d.user[e] = db.user[e]
        /\ \/ d.user[Admin] = db.user[Admin]
           \/ db.user[Admin] = NoAccount /\ d.user[Admin] = NewUser
           \/ db.user[Admin] # NoAccount
                 /\ d.user[Admin] = [db.user[Admin] EXCEPT !.status = "ACTIVE"]
    BY <1>2, <2>1, <2>a, Writing
  <2>b. /\ IF step[p] = "newOrganization"
           THEN \E o \in Organization \ db.organizations :
                   d.organizations = db.organizations \cup {o}
           ELSE d.organizations = db.organizations
        /\ d.organizationMembers =
              IF step[p] = "newOrganizationMember" THEN db.organizationMembers \cup mine[p]
              ELSE db.organizationMembers
        /\ d.workspaces =
              IF step[p] = "newWorkspace" THEN db.workspaces \cup mine[p] ELSE db.workspaces
        /\ d.members = IF step[p] = "newMember" THEN db.members \cup mine[p] ELSE db.members
    BY <1>2, <2>1, <2>a, Writing
  <2>c. /\ db.organizations \subseteq d.organizations
        /\ db.organizationMembers \subseteq d.organizationMembers
        /\ db.workspaces \subseteq d.workspaces /\ db.members \subseteq d.members
    BY <2>b
  <2>6. \A o \in Organization : d.roles[o] >= db.roles[o]
    <3>1. \A o \in Organization : d.roles[o] =
              IF step[p] = "newRole" /\ o \in mine[p] THEN db.roles[o] + 1 ELSE db.roles[o]
      BY <1>2, <2>1, <2>a, Writing
    <3> QED BY <2>2, <3>1
  <2>7. AdminIsActive => d.user[Admin] # NoAccount /\ d.user[Admin].status = "ACTIVE"
    BY <2>4, <2>5 DEF AdminIsActive
  <2> QED BY <2>5, <2>c, <2>6, <2>7 DEF AdminIsActive, d
<1> QED BY <1>1, <1>2 DEF Moves

\* The other starts still can rely on what they relied on.
LEMMA OthersRely ==
    ASSUME IdentityTypeOK, NEW p \in Proc, Started(p), NEW s, NEW m, Moves(p, s, m),
           NEW r \in Proc, r # p, Started(r)
    PROVE  Started(r)'
<1>1. step'[r] = step[r] /\ mine'[r] = mine[r] /\ mine[r] \subseteq Organization
  BY GoesOn DEF Moves, IdentityTypeOK
<1>2. /\ step[r] = "newOrganization" /\ db'.organizations # {} => r \in orgRivals'
      /\ step[r] = "newRole" => \A o \in mine[r] : db'.roles[o] > 0 => r \in roleRivals'[o]
  <2>1. step[r] \in {"newOrganization", "newRole"} => r \in Starting
    BY DEF Starting
  <2>2. \A o \in mine[r] : o \in Organization /\ db.roles[o] \in Nat
    BY <1>1 DEF IdentityTypeOK, Database
  <2>3. step[r] = "newOrganization" /\ db'.organizations # {} => r \in orgRivals'
    BY <2>1, GoesOn DEF Moves, Started
  <2>4. ASSUME step[r] = "newRole", NEW o \in mine[r], db'.roles[o] > 0 PROVE r \in roleRivals'[o]
    <3>1. db.roles[o] = 0 \/ r \in roleRivals[o]
      BY <2>2, <2>4 DEF Started
    <3> QED BY <2>1, <2>2, <2>4, <3>1, GoesOn DEF Moves
  <2> QED BY <2>3, <2>4
<1>3. step[r] \in {"findMember", "newMember", "up"} => \A o \in mine[r] : db'.roles[o] > 0
  <2>1. \A o \in mine[r] : o \in Organization /\ db.roles[o] \in Nat /\ db'.roles[o] \in Nat
                           /\ db'.roles[o] >= db.roles[o]
    BY <1>1, NothingIsUndone DEF IdentityTypeOK, Database
  <2> QED BY <2>1 DEF Started
<1>4. /\ AdminIsActive => AdminIsActive'
      /\ db.organizations \subseteq db'.organizations
      /\ db.workspaces \subseteq db'.workspaces /\ db.members \subseteq db'.members
  BY NothingIsUndone
<1> QED BY <1>1, <1>2, <1>3, <1>4 DEF Started

\* A start that reads goes on.
LEMMA ReadingStarts ==
    ASSUME IdentityTypeOK, NEW p \in Proc, Started(p), Start(p) \/ FindOrganization(p) \/ Find(p)
    PROVE  /\ \E s, m : Moves(p, s, m)
           /\ UNCHANGED <<db, orphaned, serving, failures>>
           /\ Started(p)'
           /\ step[p] # "newOrganizationMember"
<1>1. mine \in [Proc -> SUBSET Organization] /\ step \in [Proc -> StartStage]
  BY DEF IdentityTypeOK, StartStage
<1>2. ASSUME NEW s \in StartStage, GoTo(p, s), UNCHANGED <<db, mine>>
      PROVE  Moves(p, s, mine[p]) /\ step'[p] = s /\ mine'[p] = mine[p]
             /\ (AdminIsActive <=> AdminIsActive')
  BY <1>1, <1>2, GoesOn DEF Moves, AdminIsActive
<1>3. CASE Start(p)
  <2>1. "exists" \in StartStage
    BY DEF StartStage, Finds
  <2> QED BY <1>2, <1>3, <2>1 DEF Start, Started, Owning
<1>4. CASE FindOrganization(p)
  <2>1. "findWorkspace" \in StartStage /\ "newOrganization" \in StartStage
    BY DEF StartStage, Finds, Writes
  <2>2. CASE db.organizations = {} /\ GoTo(p, "newOrganization") /\ UNCHANGED mine
    BY <1>2, <1>4, <2>1, <2>2 DEF FindOrganization, Started, Owning
  <2>3. ASSUME NEW o \in db.organizations, mine' = [mine EXCEPT ![p] = {o}], GoTo(p, "findWorkspace")
        PROVE  Moves(p, "findWorkspace", {o}) /\ Started(p)'
    <3>1. db' = db /\ o \in Organization
      BY <1>4 DEF FindOrganization, IdentityTypeOK, Database
    <3>2. Moves(p, "findWorkspace", {o})
      BY <2>1, <2>3, <3>1 DEF Moves
    <3>3. step'[p] = "findWorkspace" /\ mine'[p] = {o} /\ (AdminIsActive <=> AdminIsActive')
      BY <1>1, <2>1, <2>3, <3>1, GoesOn DEF AdminIsActive
    <3>4. AdminIsActive
      BY <1>4 DEF FindOrganization, Started
    <3>5. mine'[p] = {o} /\ o \in db'.organizations
      BY <3>1, <3>3
    <3> QED BY <3>2, <3>3, <3>4, <3>5 DEF Started, Owning
  <2> QED BY <1>4, <2>2, <2>3 DEF FindOrganization
<1>5. CASE Find(p)
  <2>1. step[p] \in Finds \ {"findOrganization"} /\ UNCHANGED <<db, mine>>
        /\ GoTo(p, AfterFind(p))
    BY <1>5 DEF Find
  <2> DEFINE s == AfterFind(p)
  <2>2. /\ step[p] = "exists" => s \in {"activate", "findTenant"}
        /\ step[p] = "findTenant" => s \in {"existsAgain", "newTenant"}
        /\ step[p] = "existsAgain" => s \in {"activate", "saveAdmin"}
        /\ step[p] = "findWorkspace" =>
               s = "newWorkspace" \/ (s = "findRole" /\ mine[p] \subseteq db.workspaces)
        /\ step[p] = "findRole" =>
               (s = "newRole" /\ ~HasRole(p)) \/ (s = "findMember" /\ HasRole(p))
        /\ step[p] = "findMember" =>
               s = "newMember" \/ (s = "up" /\ mine[p] \subseteq db.members)
    BY DEF AfterFind, Found
  <2> HIDE DEF s
  <2>3. s \in StartStage
    BY <2>1, <2>2 DEF Finds, Writes, StartStage
  <2>4. Moves(p, s, mine[p]) /\ step'[p] = s /\ mine'[p] = mine[p]
        /\ (AdminIsActive <=> AdminIsActive') /\ db' = db
    BY <1>2, <2>1, <2>3 DEF s
  <2>5. ASSUME step[p] \in {"exists", "findTenant", "existsAgain"} PROVE Started(p)'
    BY <2>2, <2>4, <2>5 DEF Started, Owning
  <2>6. ASSUME step[p] \in {"findWorkspace", "findMember"} PROVE Started(p)'
    BY <2>2, <2>4, <2>6 DEF Started, Owning
  <2>7. ASSUME step[p] = "findRole" PROVE Started(p)'
    <3>1. PICK o \in db.organizations : mine[p] = {o}
      BY <2>7 DEF Started, Owning
    <3>2. HasRole(p) <=> db.roles[o] > 0
      BY <3>1 DEF HasRole
    <3>3. AdminIsActive /\ mine[p] \subseteq db.workspaces
      BY <2>7 DEF Started, Owning
    <3> QED BY <2>2, <2>4, <2>7, <3>1, <3>2, <3>3 DEF Started, Owning
  <2>8. Started(p)'
    BY <2>1, <2>5, <2>6, <2>7 DEF Finds
  <2> QED BY <1>5, <2>1, <2>4, <2>8 DEF Find, Finds
<1> QED BY <1>3, <1>4, <1>5

\* A start that writes goes on, with what it has written.
LEMMA WritingStarts ==
    ASSUME IdentityTypeOK, NEW p \in Proc, Started(p), Write(p)
    PROVE  /\ \E s, m : Moves(p, s, m)
           /\ UNCHANGED <<orphaned, serving, failures>>
           /\ Started(p)'
           /\ step[p] = "newOrganizationMember" =>
                 mine[p] \subseteq db'.organizationMembers /\ db'.organizations = db.organizations
           /\ \A o \in db'.organizations \ db.organizations :
                 step'[p] = "newOrganizationMember" /\ mine'[p] = {o}
<1>1. mine \in [Proc -> SUBSET Organization] /\ step \in [Proc -> StartStage]
  BY DEF IdentityTypeOK, StartStage
<1>2. \A o1, o2 \in mine[p] : o1 = o2
  BY DEF Started
<1> DEFINE s == AfterWrite(p)
           d == db'
           m == IF step[p] = "newOrganization" THEN d.organizations \ db.organizations ELSE mine[p]
<1>3. step[p] \in Writes /\ d \in Written(p) /\ mine' = [mine EXCEPT ![p] = m] /\ GoTo(p, s)
  BY <1>1 DEF Write
<1>4. /\ step[p] = "newTenant" => s = "existsAgain"
      /\ step[p] = "saveAdmin" => s = "activate"
      /\ step[p] = "activate" => s = "findOrganization"
      /\ step[p] = "newOrganization" => s = "newOrganizationMember"
      /\ step[p] = "newOrganizationMember" => s = "findWorkspace"
      /\ step[p] = "newWorkspace" => s = "findRole"
      /\ step[p] = "newRole" => s = "findMember"
      /\ step[p] = "newMember" => s = "up"
  BY DEF AfterWrite
<1>5. db.user[Admin] \in UserRow \cup {NoAccount}
  BY AdminAssumption DEF IdentityTypeOK, Database
<1> HIDE DEF s, d
<1>6. /\ step[p] = "activate" => d.user[Admin] = [db.user[Admin] EXCEPT !.status = "ACTIVE"]
                                 /\ db.user[Admin] # NoAccount
      /\ IF step[p] = "newOrganization"
         THEN \E o \in Organization \ db.organizations :
                 d.organizations = db.organizations \cup {o}
         ELSE d.organizations = db.organizations
      /\ d.organizationMembers =
            IF step[p] = "newOrganizationMember" THEN db.organizationMembers \cup mine[p]
            ELSE db.organizationMembers
      /\ d.workspaces =
            IF step[p] = "newWorkspace" THEN db.workspaces \cup mine[p] ELSE db.workspaces
      /\ d.members = IF step[p] = "newMember" THEN db.members \cup mine[p] ELSE db.members
  BY <1>2, <1>3, Writing
<1>7. \A o \in Organization : d.roles[o] =
          IF step[p] = "newRole" /\ o \in mine[p] THEN db.roles[o] + 1 ELSE db.roles[o]
  BY <1>2, <1>3, Writing
<1>8. s \in StartStage
  BY <1>3, <1>4 DEF Writes, Finds, StartStage
<1>9. m \subseteq Organization
  BY <1>1, <1>6
<1>10. Moves(p, s, m)
  BY <1>3, <1>8, <1>9 DEF Moves, d
<1>11. step'[p] = s /\ mine'[p] = m /\ db' = d /\ (AdminIsActive => AdminIsActive')
  BY <1>1, <1>3, <1>8, <1>10, GoesOn, NothingIsUndone DEF d
<1>12. step[p] = "activate" => AdminIsActive'
  <2>1. db.user[Admin] # NoAccount => [db.user[Admin] EXCEPT !.status = "ACTIVE"] # NoAccount
             /\ [db.user[Admin] EXCEPT !.status = "ACTIVE"].status = "ACTIVE"
    BY <1>5 DEF UserRow, NoAccount
  <2> QED BY <1>6, <1>11, <2>1 DEF AdminIsActive
<1>13. Started(p)'
  <2>1. CASE step[p] \in {"newTenant", "saveAdmin", "activate"}
    BY <1>4, <1>11, <1>12, <2>1 DEF Started, Owning
  <2>2. CASE step[p] = "newOrganization"
    BY <1>4, <1>6, <1>11, <2>2 DEF Started, Owning
  <2>3. CASE step[p] \in {"newOrganizationMember", "newWorkspace"}
    BY <1>4, <1>6, <1>11, <2>3 DEF Started, Owning
  <2>4. CASE step[p] = "newRole"
    <3>1. \A o \in mine[p] : d.roles[o] > 0
      <4>1. \A o \in mine[p] : o \in Organization /\ db.roles[o] \in Nat
        BY <1>1 DEF IdentityTypeOK, Database
      <4> QED BY <1>7, <2>4, <4>1
    <3> QED BY <1>4, <1>6, <1>11, <2>4, <3>1 DEF Started, Owning
  <2>5. CASE step[p] = "newMember"
    <3>1. \A o \in mine[p] : d.roles[o] > 0
      <4>1. \A o \in mine[p] : o \in Organization
        BY <1>1
      <4> QED BY <1>7, <2>5, <4>1 DEF Started
    <3> QED BY <1>4, <1>6, <1>11, <2>5, <3>1 DEF Started, Owning
  <2> QED BY <1>3, <2>1, <2>2, <2>3, <2>4, <2>5 DEF Writes
<1>14. /\ step[p] = "newOrganizationMember" =>
             mine[p] \subseteq db'.organizationMembers /\ db'.organizations = db.organizations
       /\ \A o \in db'.organizations \ db.organizations :
             step'[p] = "newOrganizationMember" /\ mine'[p] = {o}
  BY <1>4, <1>6, <1>11
<1> QED BY <1>10, <1>13, <1>14 DEF Write

\* A start that dies is forgotten, but for an organization without a member.
LEMMA DyingStarts ==
    ASSUME IdentityTypeOK, NEW p \in Proc, Started(p),
           Refused(p) \/ StartFails(p) \/ Crash(p)
    PROVE  /\ Moves(p, "down", {})
           /\ orphaned \subseteq orphaned' /\ orphaned' \subseteq Organization
           /\ Started(p)'
           /\ step[p] = "newOrganizationMember" =>
                 mine[p] \subseteq orphaned' /\ db'.organizations = db.organizations
           /\ db'.organizations \ db.organizations \subseteq orphaned'
<1>1. Moves(p, "down", {})
  <2>1. "down" \in StartStage
    BY DEF StartStage
  <2> QED BY <2>1 DEF Moves, Refused, StartFails, Crash, Dies
<1>2. step'[p] = "down" /\ mine'[p] = {}
  BY <1>1, GoesOn DEF Moves, IdentityTypeOK
<1>3. Started(p)'
  BY <1>2 DEF Started, Owning
<1>4. db'.organizations \subseteq Organization
  BY <1>1, NothingIsUndone DEF Database
<1>5. step[p] = "newOrganizationMember" => db'.organizations = db.organizations
  <2>1. \A o1, o2 \in mine[p] : o1 = o2
    BY DEF Started
  <2>2. CASE db' \in Written(p) /\ step[p] \in Writes
    <3> DEFINE d == db'
    <3>1. d \in Written(p)
      BY <2>2
    <3> HIDE DEF d
    <3>2. IF step[p] = "newOrganization"
          THEN \E o \in Organization \ db.organizations :
                  d.organizations = db.organizations \cup {o}
          ELSE d.organizations = db.organizations
      BY <2>1, <2>2, <3>1, Writing
    <3> QED BY <3>2 DEF d
  <2> QED BY <1>1, <2>2 DEF Moves
<1>6. mine[p] \subseteq Organization /\ orphaned \subseteq Organization
  BY DEF IdentityTypeOK
<1>7. CASE Crash(p)
  BY <1>1, <1>3, <1>6, <1>7 DEF Crash
<1>8. CASE Dies(p)
  BY <1>1, <1>3, <1>4, <1>5, <1>6, <1>8 DEF Dies
<1> QED BY <1>7, <1>8 DEF Refused, StartFails

\* A step of a process keeps what starts rely on.
LEMMA StartsRely ==
    ASSUME IdentityTypeOK, StartsInv, NEW p \in Proc, Advance(p) \/ StartFails(p) \/ Crash(p)
    PROVE  /\ StartsInv'
           /\ \E s, m : Moves(p, s, m)
           /\ orphaned' \in SUBSET Organization
<1>1. /\ \E s, m : Moves(p, s, m)
      /\ Started(p)'
      /\ orphaned \subseteq orphaned' /\ orphaned' \in SUBSET Organization
      /\ \A o \in db'.organizations \ (db'.organizationMembers \cup orphaned') :
            \/ o \in db.organizations
                  /\ (step[p] = "newOrganizationMember" => mine[p] # {o})
            \/ step'[p] = "newOrganizationMember" /\ mine'[p] = {o}
  <2>1. Started(p) /\ orphaned \subseteq Organization
    BY DEF StartsInv, IdentityTypeOK
  <2>2. CASE Start(p) \/ FindOrganization(p) \/ Find(p)
    BY <2>1, <2>2, ReadingStarts
  <2>3. CASE Write(p)
    BY <2>1, <2>3, WritingStarts
  <2>4. CASE Refused(p) \/ StartFails(p) \/ Crash(p)
    BY <2>1, <2>4, DyingStarts
  <2> QED BY <2>2, <2>3, <2>4 DEF Advance
<1>2. PICK s, m : Moves(p, s, m)
  BY <1>1
<1>3. \A r \in Proc : Started(r)'
  BY <1>1, <1>2, OthersRely DEF StartsInv
<1>4. Joined'
  <2> SUFFICES ASSUME NEW o \in db'.organizations \ (db'.organizationMembers \cup orphaned')
               PROVE  \E r \in Proc : step'[r] = "newOrganizationMember" /\ mine'[r] = {o}
    BY DEF Joined
  <2>1. CASE o \in db.organizations /\ (step[p] = "newOrganizationMember" => mine[p] # {o})
    <3>1. db.organizationMembers \subseteq db'.organizationMembers
      BY <1>2, NothingIsUndone DEF StartsInv
    <3>2. PICK r \in Proc : step[r] = "newOrganizationMember" /\ mine[r] = {o}
      BY <1>1, <2>1, <3>1 DEF StartsInv, Joined
    <3>3. r # p
      BY <2>1, <3>2
    <3>4. step'[r] = step[r] /\ mine'[r] = mine[r]
      BY <1>2, <3>3, GoesOn DEF Moves, IdentityTypeOK
    <3> QED BY <3>2, <3>4
  <2> QED BY <1>1, <2>1
<1> QED BY <1>1, <1>3, <1>4 DEF StartsInv

-----------------------------------------------------------------------------

\* What a request that is served holds.
Served(q) ==
    /\ await[q] = "idle" <=> op[q] = NoCommand
    /\ await[q] # "idle" => AdminIsActive
    /\ await[q] \in {"systemTenant", "exists"} => op[q].kind = "register"
    /\ await[q] = "find" => op[q].kind # "register"
    /\ await[q] = "save" => IF op[q].kind = "register" THEN copy[q] = NewUser
                            ELSE /\ op[q].email = Admin
                                 /\ copy[q] \in UserRow /\ copy[q].status = "ACTIVE"
    /\ await[q] = "saveSession" => op[q].kind = "login" /\ op[q].email = Admin
    /\ op[q].kind = "profile" => op[q].email = Admin

AccountsInv == OnlyTheSeederActivates /\ \A q \in Client : Served(q)

IdentityInv == IdentityTypeOK /\ StartsInv /\ AccountsInv

\* Commands and what each names.
LEMMA CommandParts ==
    /\ \A c \in Command : c.kind \in {"register", "login", "profile"} /\ c.email \in Email
                          /\ (c.kind = "profile" => c.profile \in Profile)
                          /\ c # NoCommand
    /\ NoCommand.kind = "none"
BY DEF Command, NoCommand

\* The save of a request: a user who registers waits, the administrator stays
\* active.
LEMMA Upserting ==
    ASSUME IdentityTypeOK, AccountsInv, NEW q \in Client,
           await[q] = "save", ~Conflicts(q), Upsert(q)
    PROVE  /\ db' \in Database
           /\ db'.organizations = db.organizations /\ db'.workspaces = db.workspaces
           /\ db'.organizationMembers = db.organizationMembers
           /\ db'.members = db.members /\ db'.roles = db.roles
           /\ Changed(q) \in UserRow
           /\ \A e \in Email : db'.user[e] = IF e = op[q].email THEN Changed(q) ELSE db.user[e]
           /\ IF op[q].kind = "register"
              THEN op[q].email # Admin /\ Changed(q) = NewUser
              ELSE op[q].email = Admin /\ Changed(q).status = "ACTIVE"
           /\ AdminIsActive'
<1>1. op[q] \in Command /\ AdminIsActive /\ op[q].email \in Email
  BY CommandParts DEF AccountsInv, Served, IdentityTypeOK
<1>2. NewUser \in UserRow /\ NewUser.status = "PENDING" /\ NoAccount \notin UserRow
  BY DEF NewUser, UserRow, Blank, Profile, NoAccount
<1>3. /\ Changed(q) \in UserRow
      /\ IF op[q].kind = "register"
         THEN op[q].email # Admin /\ Changed(q) = NewUser
         ELSE op[q].email = Admin /\ Changed(q).status = "ACTIVE"
  <2>1. CASE op[q].kind = "register"
    <3>1. Changed(q) = NewUser /\ db.user[op[q].email] = NoAccount
      BY <2>1 DEF Changed, AccountsInv, Served, Conflicts
    <3> QED BY <1>1, <1>2, <2>1, <3>1 DEF AdminIsActive
  <2>2. CASE op[q].kind # "register"
    <3>1. op[q].email = Admin /\ copy[q] \in UserRow /\ copy[q].status = "ACTIVE"
      BY <2>2 DEF AccountsInv, Served
    <3>2. op[q].kind = "profile" => op[q].profile \in Profile
      BY <1>1, CommandParts
    <3>3. op[q].kind = "profile" => [copy[q] EXCEPT !.profile = op[q].profile] \in UserRow
              /\ [copy[q] EXCEPT !.profile = op[q].profile].status = "ACTIVE"
      BY <3>1, <3>2 DEF UserRow
    <3> QED BY <2>2, <3>1, <3>3 DEF Changed
  <2> QED BY <2>1, <2>2
<1> DEFINE w == Changed(q)
           e == op[q].email
<1>4. db' = [db EXCEPT !.user[e] = w] /\ db \in Database /\ w \in UserRow /\ e \in Email
  BY <1>1, <1>3 DEF Upsert, IdentityTypeOK
<1> HIDE DEF w, e
<1>5. /\ db' \in Database
      /\ db'.organizations = db.organizations /\ db'.workspaces = db.workspaces
      /\ db'.organizationMembers = db.organizationMembers
      /\ db'.members = db.members /\ db'.roles = db.roles
      /\ \A x \in Email : db'.user[x] = IF x = e THEN w ELSE db.user[x]
  BY <1>4 DEF Database
<1>6. AdminIsActive'
  <2>1. db'.user[Admin] = IF Admin = e THEN w ELSE db.user[Admin]
    BY <1>5, AdminAssumption
  <2>2. w # NoAccount
    BY <1>2, <1>4
  <2> QED BY <1>1, <1>3, <2>1, <2>2 DEF AdminIsActive, w, e
<1> QED BY <1>3, <1>5, <1>6 DEF w, e

\* A request that is served goes on or is over.
LEMMA ServingKeeps ==
    ASSUME IdentityInv, NEW q \in Client,
           \/ SystemTenant(q) \/ ExistsByEmail(q) \/ FindUser(q) \/ Save(q) \/ SaveSession(q)
           \/ StatementThrows(q)
    PROVE  /\ UNCHANGED <<startup, commands>> /\ failures' \in 0..MaxFaults
           /\ await[q] # "idle"
           /\ db' = db \/ (await[q] = "save" /\ ~Conflicts(q) /\ Upsert(q))
           /\ AdminIsActive'
           /\ signedIn \subseteq signedIn' /\ signedIn' \subseteq {Admin}
           /\ \/ \E s \in {"exists", "save", "saveSession"}, w \in UserRow \cup {NoAccount} :
                    GoOn(q, s, w)
              \/ Finish({q})
           /\ Served(q)'
<1> USE DEF IdentityInv
<1>1. /\ await[q] # "idle" /\ op[q] \in Command /\ op[q].email \in Email
      /\ AdminIsActive /\ Served(q)
  BY CommandParts DEF SystemTenant, ExistsByEmail, FindUser, Save, SaveSession, StatementThrows,
     AccountsInv, Served, IdentityTypeOK
<1>2. NewUser \in UserRow
  BY DEF NewUser, UserRow, Blank, Profile
<1>3. await \in [Client -> {"idle", "systemTenant", "exists", "find", "save", "saveSession"}]
      /\ op \in [Client -> Command \cup {NoCommand}]
      /\ copy \in [Client -> UserRow \cup {NoAccount}]
  BY DEF IdentityTypeOK
<1>4. db' = db \/ (await[q] = "save" /\ ~Conflicts(q) /\ Upsert(q))
  BY DEF SystemTenant, ExistsByEmail, FindUser, Save, SaveSession, StatementThrows
<1>5. AdminIsActive'
  BY <1>1, <1>4, Upserting DEF AdminIsActive
<1>6. /\ UNCHANGED <<startup, commands>> /\ failures' \in 0..MaxFaults
      /\ signedIn \subseteq signedIn' /\ signedIn' \subseteq {Admin}
  <2>1. UNCHANGED <<startup, commands>> /\ failures' \in 0..MaxFaults
    BY BoundsAssumption DEF SystemTenant, ExistsByEmail, FindUser, Save, SaveSession,
       StatementThrows, IdentityTypeOK
  <2>2. signedIn \subseteq {Admin} /\ (await[q] = "saveSession" => op[q].email = Admin)
    BY <1>1 DEF AccountsInv, OnlyTheSeederActivates, Served
  <2> QED BY <2>1, <2>2 DEF SystemTenant, ExistsByEmail, FindUser, Save, SaveSession, StatementThrows
<1>7. ASSUME Finish({q}) PROVE Served(q)'
  <2>1. await'[q] = "idle" /\ op'[q] = NoCommand
    BY <1>7 DEF Finish
  <2> QED BY <2>1, CommandParts DEF Served
<1>8. ASSUME NEW s \in {"exists", "save", "saveSession"}, NEW w, GoOn(q, s, w),
             \/ s = "exists" /\ op[q].kind = "register"
             \/ s = "save" /\ IF op[q].kind = "register" THEN w = NewUser
                              ELSE op[q].email = Admin /\ w \in UserRow /\ w.status = "ACTIVE"
             \/ s = "saveSession" /\ op[q].kind = "login" /\ op[q].email = Admin
      PROVE  Served(q)'
  <2>1. await'[q] = s /\ copy'[q] = w /\ op'[q] = op[q]
    BY <1>3, <1>8 DEF GoOn
  <2>2. op[q] # NoCommand /\ (op[q].kind = "profile" => op[q].email = Admin)
    BY <1>1 DEF Served
  <2> QED BY <1>5, <1>8, <2>1, <2>2 DEF Served
<1>9. CASE SystemTenant(q)
  <2>1. op[q].kind = "register"
    BY <1>1, <1>9 DEF SystemTenant, Served
  <2> QED BY <1>1, <1>4, <1>5, <1>6, <1>7, <1>8, <1>9, <2>1 DEF SystemTenant
<1>10. CASE ExistsByEmail(q)
  <2>1. op[q].kind = "register"
    BY <1>1, <1>10 DEF ExistsByEmail, Served
  <2> QED BY <1>1, <1>2, <1>4, <1>5, <1>6, <1>7, <1>8, <1>10, <2>1 DEF ExistsByEmail
<1>11. CASE FindUser(q)
  <2> DEFINE w == db.user[op[q].email]
  <2>1. op[q].kind # "register" /\ w \in UserRow \cup {NoAccount}
    BY <1>1, <1>11 DEF FindUser, Served, IdentityTypeOK, Database
  <2>2. CASE Finish({q})
    BY <1>1, <1>4, <1>5, <1>6, <1>7, <2>2
  <2>3. CASE MayGoOn(q, w) /\ GoOn(q, "save", w)
    <3>1. op[q].email = Admin /\ w # NoAccount /\ w.status = "ACTIVE"
      <4>1. op[q].kind = "login" \/ op[q].kind = "profile"
        BY <1>1, <2>1, CommandParts
      <4>2. CASE op[q].kind = "profile"
        BY <1>1, <4>2 DEF Served, AdminIsActive
      <4>3. CASE op[q].kind = "login"
        <5>1. w # NoAccount /\ w.status = "ACTIVE"
          BY <2>3, <4>3 DEF MayGoOn
        <5>2. op[q].email = Admin
          BY <1>1, <5>1 DEF AccountsInv, OnlyTheSeederActivates
        <5> QED BY <5>1, <5>2
      <4> QED BY <4>1, <4>2, <4>3
    <3> QED BY <1>1, <1>4, <1>5, <1>6, <1>8, <2>1, <2>3, <3>1
  <2> QED BY <1>11, <2>2, <2>3 DEF FindUser
<1>12. CASE Save(q)
  <2>1. CASE Finish({q})
    BY <1>1, <1>4, <1>5, <1>6, <1>7, <2>1
  <2>2. CASE op[q].kind = "login" /\ GoOn(q, "saveSession", NoAccount)
    <3>1. op[q].email = Admin
      BY <1>1, <1>12, <2>2 DEF Save, Served
    <3> QED BY <1>1, <1>4, <1>5, <1>6, <1>8, <2>2, <3>1
  <2> QED BY <1>12, <2>1, <2>2 DEF Save
<1>13. CASE SaveSession(q) \/ StatementThrows(q)
  BY <1>1, <1>4, <1>5, <1>6, <1>7, <1>13 DEF SaveSession, StatementThrows
<1> QED BY <1>9, <1>10, <1>11, <1>12, <1>13

\* When requests are over, what remains is served as before.
LEMMA Finishing ==
    ASSUME IdentityTypeOK, AccountsInv, NEW Q \in SUBSET Client, Finish(Q),
           AdminIsActive => AdminIsActive'
    PROVE  /\ await' \in [Client -> {"idle", "systemTenant", "exists", "find", "save", "saveSession"}]
           /\ op' \in [Client -> Command \cup {NoCommand}]
           /\ copy' \in [Client -> UserRow \cup {NoAccount}]
           /\ \A q \in Client : Served(q)'
<1>1. ASSUME NEW q \in Q PROVE await'[q] = "idle" /\ op'[q] = NoCommand
  BY <1>1 DEF Finish
<1>2. ASSUME NEW q \in Client \ Q
      PROVE  await'[q] = await[q] /\ op'[q] = op[q] /\ copy'[q] = copy[q]
  BY <1>2 DEF Finish
<1>3. ASSUME NEW q \in Client PROVE Served(q)'
  <2>1. CASE q \in Q
    BY <1>1, <2>1, CommandParts DEF Served
  <2>2. CASE q \notin Q
    <3>1. await'[q] = await[q] /\ op'[q] = op[q] /\ copy'[q] = copy[q] /\ Served(q)
      BY <1>2, <2>2 DEF AccountsInv
    <3> QED BY <3>1 DEF Served
  <2> QED BY <2>1, <2>2
<1>4. /\ await' \in [Client -> {"idle", "systemTenant", "exists", "find", "save", "saveSession"}]
      /\ op' \in [Client -> Command \cup {NoCommand}]
      /\ copy' \in [Client -> UserRow \cup {NoAccount}]
  BY DEF Finish, IdentityTypeOK
<1> QED BY <1>3, <1>4

\* A step of a process keeps the invariant.
LEMMA ProcessesKeep ==
    ASSUME IdentityInv, NEW p \in Proc, Advance(p) \/ StartFails(p) \/ Crash(p)
    PROVE  IdentityInv' /\ (AdminIsActive => AdminIsActive')
<1> USE DEF IdentityInv
<1>1. /\ StartsInv' /\ orphaned' \in SUBSET Organization
      /\ \E s, m : Moves(p, s, m)
  BY StartsRely
<1>2. PICK s, m : Moves(p, s, m)
  BY <1>1
<1>3. Started(p)
  BY DEF StartsInv
<1>4. /\ step' \in [Proc -> StartStage] /\ orgRivals' \subseteq Proc
      /\ roleRivals' \in [Organization -> SUBSET Proc]
      /\ mine' \in [Proc -> SUBSET Organization]
  BY <1>2, GoesOn DEF Moves, IdentityTypeOK
<1>5. /\ db' \in Database /\ (AdminIsActive => AdminIsActive')
      /\ \A e \in Email : e # Admin => db'.user[e] = db.user[e]
  BY <1>2, <1>3, NothingIsUndone
<1>6. UNCHANGED <<signedIn, commands>> /\ failures' \in 0..MaxFaults
  BY BoundsAssumption DEF Advance, Start, FindOrganization, Find, Write, Refused, StartFails, Crash, serving,
     IdentityTypeOK
<1>7. OnlyTheSeederActivates'
  BY <1>5, <1>6 DEF AccountsInv, OnlyTheSeederActivates, AdminIsActive
<1>8. /\ await' \in [Client -> {"idle", "systemTenant", "exists", "find", "save", "saveSession"}]
      /\ op' \in [Client -> Command \cup {NoCommand}]
      /\ copy' \in [Client -> UserRow \cup {NoAccount}]
      /\ \A q \in Client : Served(q)'
  <2>1. CASE UNCHANGED serving
    <3>1. UNCHANGED <<await, op, copy>>
      BY <2>1 DEF serving
    <3>2. ASSUME NEW q \in Client PROVE Served(q)'
      BY <1>5, <3>1 DEF AccountsInv, Served
    <3> QED BY <3>1, <3>2 DEF IdentityTypeOK
  <2>2. ASSUME NEW Q \in SUBSET InFlight, Finish(Q)
        PROVE  /\ await' \in [Client -> {"idle", "systemTenant", "exists", "find", "save", "saveSession"}]
               /\ op' \in [Client -> Command \cup {NoCommand}]
               /\ copy' \in [Client -> UserRow \cup {NoAccount}]
               /\ \A q \in Client : Served(q)'
    <3>1. Q \in SUBSET Client
      BY DEF InFlight
    <3> QED BY <1>5, <2>2, <3>1, Finishing
  <2>3. UNCHANGED serving \/ \E Q \in SUBSET InFlight : Finish(Q)
    BY DEF Advance, Start, FindOrganization, Find, Write, Refused, StartFails, Crash
  <2> QED BY <2>1, <2>2, <2>3
<1>9. IdentityTypeOK'
  BY <1>1, <1>4, <1>5, <1>6, <1>8 DEF IdentityTypeOK, StartStage
<1> QED BY <1>1, <1>5, <1>7, <1>8, <1>9 DEF AccountsInv

\* A step of a request keeps the invariant.
LEMMA ServesKeep ==
    ASSUME IdentityInv, NEW q \in Client,
           \/ SystemTenant(q) \/ ExistsByEmail(q) \/ FindUser(q) \/ Save(q) \/ SaveSession(q)
           \/ StatementThrows(q)
    PROVE  /\ IdentityInv'
           /\ \A r \in Client : r # q => await'[r] = await[r] /\ op'[r] = op[r] /\ copy'[r] = copy[r]
           /\ await'[q] # "idle" => op'[q] = op[q]
           /\ await'[q] = "idle" <=> op'[q] = NoCommand
<1> USE DEF IdentityInv
<1>1. /\ UNCHANGED <<startup, commands>> /\ failures' \in 0..MaxFaults
      /\ await[q] # "idle"
      /\ db' = db \/ (await[q] = "save" /\ ~Conflicts(q) /\ Upsert(q))
      /\ AdminIsActive'
      /\ signedIn \subseteq signedIn' /\ signedIn' \subseteq {Admin}
      /\ \/ \E s \in {"exists", "save", "saveSession"}, w \in UserRow \cup {NoAccount} :
               GoOn(q, s, w)
         \/ Finish({q})
      /\ Served(q)'
  BY ServingKeeps
<1>2. /\ await' \in [Client -> {"idle", "systemTenant", "exists", "find", "save", "saveSession"}]
      /\ op' \in [Client -> Command \cup {NoCommand}]
      /\ copy' \in [Client -> UserRow \cup {NoAccount}]
      /\ \A r \in Client : r # q => await'[r] = await[r] /\ op'[r] = op[r] /\ copy'[r] = copy[r]
      /\ await'[q] # "idle" => op'[q] = op[q]
  <2>1. CASE Finish({q})
    BY <2>1 DEF Finish, IdentityTypeOK
  <2>2. ASSUME NEW s \in {"exists", "save", "saveSession"}, NEW w \in UserRow \cup {NoAccount},
               GoOn(q, s, w)
        PROVE  <1>2!1 /\ <1>2!2 /\ <1>2!3 /\ <1>2!4 /\ <1>2!5
    BY <2>2 DEF GoOn, IdentityTypeOK
  <2> QED BY <1>1, <2>1, <2>2
<1>3. /\ db' \in Database
      /\ db'.organizations = db.organizations /\ db'.workspaces = db.workspaces
      /\ db'.organizationMembers = db.organizationMembers
      /\ db'.members = db.members /\ db'.roles = db.roles
      /\ \A e \in Email \ {Admin} : db'.user[e] = NoAccount \/ db'.user[e].status = "PENDING"
  <2>1. CASE db' = db
    BY <2>1 DEF IdentityTypeOK, AccountsInv, OnlyTheSeederActivates
  <2>2. CASE await[q] = "save" /\ ~Conflicts(q) /\ Upsert(q)
    <3>1. NewUser.status = "PENDING"
      BY DEF NewUser
    <3>2. \A e \in Email \ {Admin} :
              db'.user[e] = db.user[e] \/ db'.user[e] = NewUser
      BY <2>2, Upserting
    <3>3. \A e \in Email \ {Admin} : db'.user[e] = NoAccount \/ db'.user[e].status = "PENDING"
      BY <3>1, <3>2 DEF AccountsInv, OnlyTheSeederActivates
    <3> QED BY <2>2, <3>3, Upserting
  <2> QED BY <1>1, <2>1, <2>2
<1>4. OnlyTheSeederActivates'
  BY <1>1, <1>3 DEF OnlyTheSeederActivates, AdminIsActive
<1>5. \A r \in Client : Served(r)'
  <2> SUFFICES ASSUME NEW r \in Client, r # q PROVE Served(r)'
    BY <1>1
  <2>1. await'[r] = await[r] /\ op'[r] = op[r] /\ copy'[r] = copy[r] /\ Served(r)
    BY <1>2 DEF AccountsInv
  <2> QED BY <1>1, <2>1 DEF Served
<1>6. StartsInv'
  <2>1. UNCHANGED <<step, mine, orgRivals, roleRivals, orphaned>>
    BY <1>1 DEF startup
  <2>2. Joined'
    BY <1>3, <2>1 DEF StartsInv, Joined
  <2>3. ASSUME NEW p \in Proc PROVE Started(p)'
    BY <1>1, <1>3, <2>1 DEF StartsInv, Started
  <2> QED BY <2>2, <2>3 DEF StartsInv
<1>7. IdentityTypeOK'
  <2>1. UNCHANGED <<step, mine, orgRivals, roleRivals, orphaned, commands>>
    BY <1>1 DEF startup
  <2>2. signedIn' \subseteq Email
    BY <1>1, AdminAssumption
  <2> QED BY <1>1, <1>2, <1>3, <2>1, <2>2 DEF IdentityTypeOK
<1>8. await'[q] = "idle" <=> op'[q] = NoCommand
  BY <1>1 DEF Served
<1> QED BY <1>2, <1>4, <1>5, <1>6, <1>7, <1>8 DEF AccountsInv

\* A request that comes finds a process that has seeded.
LEMMA AcceptKeeps ==
    ASSUME IdentityInv, NEW q \in Client, NEW c \in Command, Accept(q, c)
    PROVE  /\ IdentityInv'
           /\ op'[q] = c /\ await'[q] # "idle" /\ AdminIsActive
           /\ \A r \in Client : r # q => await'[r] = await[r] /\ op'[r] = op[r]
<1> USE DEF IdentityInv
<1>1. AdminIsActive
  BY DEF Accept, Listening, StartsInv, Started, Owning
<1>2. UNCHANGED <<db, startup, copy, signedIn, failures>> /\ commands' \in 0..MaxCommands
  BY BoundsAssumption DEF Accept, IdentityTypeOK
<1>3. /\ await' \in [Client -> {"idle", "systemTenant", "exists", "find", "save", "saveSession"}]
      /\ op' \in [Client -> Command \cup {NoCommand}]
      /\ op'[q] = c /\ await'[q] = IF c.kind = "register" THEN "systemTenant" ELSE "find"
      /\ \A r \in Client : r # q => await'[r] = await[r] /\ op'[r] = op[r]
  BY DEF Accept, IdentityTypeOK
<1>4. c.kind = "profile" => c.email = Admin
  BY DEF Accept, AccountsInv, OnlyTheSeederActivates
<1>5. ASSUME NEW r \in Client PROVE Served(r)'
  <2>1. CASE r = q
    BY <1>1, <1>2, <1>3, <1>4, <2>1, CommandParts DEF Served, AdminIsActive
  <2>2. CASE r # q
    BY <1>2, <1>3, <2>2 DEF AccountsInv, Served, AdminIsActive
  <2> QED BY <2>1, <2>2
<1>6. StartsInv' /\ OnlyTheSeederActivates'
  BY <1>2 DEF StartsInv, Joined, Started, AccountsInv, OnlyTheSeederActivates, startup, AdminIsActive
<1>7. IdentityTypeOK'
  BY <1>2, <1>3 DEF IdentityTypeOK, startup
<1>8. await'[q] # "idle"
  BY <1>3
<1> QED BY <1>1, <1>3, <1>5, <1>6, <1>7, <1>8 DEF AccountsInv

-----------------------------------------------------------------------------
(* The pages.                                                              *)

\* A query that is at most one value, which is v unless saves are missing.
ReadAt(c, v) ==
    /\ c.data = {} \/ \E w \in Profile : c.data = {w}
    /\ IF c.fetch = "answered" THEN \E w \in Profile : c.answer = {w}
       ELSE c.answer = {} /\ c.late = {}
    /\ c.missing = {} => c.data \subseteq {v}
    /\ c.late = {} => c.answer \subseteq {v}

\* What the steps of a query leave of it.
LEMMA QuerySteps ==
    ASSUME NEW c \in Cached(Profile, Client), NEW v, NEW q \in Client, ReadAt(c, v)
    PROVE  /\ \A d \in {Sent(c), Failed(c), Invalidated(c, q)} :
                 d \in Cached(Profile, Client) /\ ReadAt(d, v) /\ d.data = c.data
           /\ LET d == Missing(c, q) IN
              /\ d \in Cached(Profile, Client) /\ d.data = c.data /\ d.fetch = c.fetch
              /\ \A w : ReadAt(d, w)
           /\ c.fetch = "sent" /\ v \in Profile =>
                 LET d == Answered(c, v) IN
                 d \in Cached(Profile, Client) /\ ReadAt(d, v) /\ d.data = c.data
           /\ c.fetch = "answered" =>
                 LET d == Arrived(c) IN
                 d \in Cached(Profile, Client) /\ ReadAt(d, v) /\ d.data = c.answer
<1> DEFINE idle == Idle(c)
<1>1. /\ idle \in Cached(Profile, Client) /\ idle.data = c.data /\ idle.missing = c.missing
      /\ idle.fetch = "idle" /\ idle.answer = {} /\ idle.late = {}
  BY DEF Idle, Cached
<1> HIDE DEF idle
<1>2. LET d == Sent(c) IN
      d \in Cached(Profile, Client) /\ ReadAt(d, v) /\ d.data = c.data
  <2>1. Sent(c) = [idle EXCEPT !.fetch = "sent"]
    BY DEF Sent, idle
  <2>2. /\ Sent(c) \in Cached(Profile, Client) /\ Sent(c).data = c.data
        /\ Sent(c).missing = c.missing /\ Sent(c).fetch = "sent" /\ Sent(c).answer = {}
        /\ Sent(c).late = {}
    BY <1>1, <2>1 DEF Cached
  <2> HIDE DEF Sent
  <2> QED BY <2>2 DEF ReadAt
<1>3. LET d == Failed(c) IN
      d \in Cached(Profile, Client) /\ ReadAt(d, v) /\ d.data = c.data
  <2>1. Failed(c) = [idle EXCEPT !.failed = TRUE]
    BY DEF Failed, idle
  <2>2. /\ Failed(c) \in Cached(Profile, Client) /\ Failed(c).data = c.data
        /\ Failed(c).missing = c.missing /\ Failed(c).fetch = "idle" /\ Failed(c).answer = {}
        /\ Failed(c).late = {}
    BY <1>1, <2>1 DEF Cached
  <2> QED BY <2>2 DEF ReadAt
<1>4. LET d == Invalidated(c, q) IN
      d \in Cached(Profile, Client) /\ ReadAt(d, v) /\ d.data = c.data
  <2> DEFINE deaf == [c EXCEPT !.deaf = @ \cup {q}]
  <2>1. /\ deaf \in Cached(Profile, Client) /\ deaf.data = c.data /\ deaf.missing = c.missing
        /\ deaf.fetch = c.fetch /\ deaf.answer = c.answer /\ deaf.late = c.late
    BY DEF Cached
  <2> HIDE DEF deaf
  <2>2. ReadAt(deaf, v)
    BY <2>1 DEF ReadAt
  <2>3. Invalidated(c, q) \in {Sent(c), deaf}
    BY DEF Invalidated, deaf
  <2> QED BY <1>2, <2>1, <2>2, <2>3
<1>5. LET d == Missing(c, q) IN
      /\ d \in Cached(Profile, Client) /\ d.data = c.data /\ d.fetch = c.fetch
      /\ \A w : ReadAt(d, w)
  <2> DEFINE d == Missing(c, q)
  <2>1. /\ d \in Cached(Profile, Client) /\ d.data = c.data /\ d.fetch = c.fetch
        /\ d.answer = c.answer
        /\ d.missing = IF c.data = {} THEN {} ELSE c.missing \cup {q}
        /\ d.late = IF c.fetch = "answered" THEN c.late \cup {q} ELSE c.late
    BY DEF Missing, Cached
  <2> HIDE DEF d
  <2>2. \A w : ReadAt(d, w)
    BY <2>1 DEF ReadAt
  <2> QED BY <2>1, <2>2 DEF d
<1>6. ASSUME c.fetch = "sent", v \in Profile
      PROVE  LET d == Answered(c, v) IN
             d \in Cached(Profile, Client) /\ ReadAt(d, v) /\ d.data = c.data
  <2> DEFINE d == Answered(c, v)
  <2>1. /\ d \in Cached(Profile, Client) /\ d.data = c.data /\ d.missing = c.missing
        /\ d.fetch = "answered" /\ d.answer = {v} /\ d.late = c.late
    BY <1>6 DEF Answered, Cached
  <2> HIDE DEF d
  <2>2. ReadAt(d, v)
    BY <1>6, <2>1 DEF ReadAt
  <2> QED BY <2>1, <2>2 DEF d
<1>7. ASSUME c.fetch = "answered"
      PROVE  LET d == Arrived(c) IN
             d \in Cached(Profile, Client) /\ ReadAt(d, v) /\ d.data = c.answer
  <2> DEFINE d == Arrived(c)
  <2>1. d = [idle EXCEPT !.data = c.answer, !.missing = c.late, !.failed = FALSE]
    BY DEF Arrived, idle
  <2>2. c.answer \in SUBSET Profile /\ c.late \in SUBSET Client
    BY DEF Cached
  <2> HIDE DEF d
  <2>3. /\ d \in Cached(Profile, Client) /\ d.data = c.answer /\ d.missing = c.late
        /\ d.fetch = "idle" /\ d.answer = {} /\ d.late = {}
    BY <1>1, <2>1, <2>2 DEF Cached
  <2>4. ReadAt(d, v)
    BY <1>7, <2>3 DEF ReadAt
  <2> QED BY <2>3, <2>4 DEF d
<1> QED BY <1>2, <1>3, <1>4, <1>5, <1>6, <1>7

\* A page stands where its request does, and says what is so.
PageOf(q) ==
    /\ page[q] = "registering" <=> op[q].kind = "register"
    /\ page[q] \in {"signingIn", "loggingIn"} <=> op[q].kind = "login"
    /\ op[q].kind \in {"register", "login"} => op[q].email = email[q]
    /\ op[q].kind = "profile" => page[q] = "home"
    /\ page[q] \in {"registered", "signingIn", "created"} => db.user[email[q]] # NoAccount
    /\ page[q] = "home" => email[q] = Admin /\ signedIn # {}

\* The settings show what was read, but for the fields that were touched.
Reads(q) ==
    /\ cache[q].fetch # "idle" \/ cache[q].data # {} => AdminIsActive
    /\ ReadAt(cache[q], db.user[Admin].profile)
    /\ \A v \in cache[q].data : \A f \in Field \ touched[q] : form[q][f] = v[f]

\* A save that misses no other writes what is there, but for the fields that
\* were touched.
Sends(q) ==
    /\ await[q] = "idle" => sent[q] = NoSave
    /\ op[q].kind # "profile" => sent[q].touched = {}
    /\ op[q].kind = "profile" /\ sent[q].missing = {} =>
           \A f \in Field \ sent[q].touched : op[q].profile[f] = db.user[Admin].profile[f]

PageTypes ==
    /\ seeded \in BOOLEAN /\ page \in [Client -> Page] /\ email \in [Client -> Email]
    /\ cache \in [Client -> Cached(Profile, Client)] /\ form \in [Client -> Profile]
    /\ touched \in [Client -> SUBSET Field]
    /\ sent \in [Client -> [touched : SUBSET Field, missing : SUBSET Client]]
    /\ edits \in 0..MaxEdits /\ typed \in Profile /\ behind \subseteq Field

TypedFirst == db.user[Admin] = NoAccount => typed = Blank

PagesInv ==
    /\ PageTypes /\ TypedFirst /\ FieldsHold
    /\ \A q \in Client : PageOf(q) /\ Reads(q) /\ Sends(q)

\* The invariant holds at the start, of the processes or of the settings.
LEMMA FirstStates ==
    /\ IdentityInit => IdentityInv
    /\ AccountInit => IdentityInv /\ PagesInv
<1>1. NoCommand.kind = "none" /\ Blank \in Profile /\ \A f \in Field : Blank[f] = {}
  BY DEF NoCommand, Blank, Profile
<1>2. ASSUME IdentityInit PROVE IdentityInv
  <2>1. IdentityTypeOK
    BY <1>2, BoundsAssumption DEF IdentityInit, IdentityTypeOK, Database
  <2>2. StartsInv
    BY <1>2 DEF IdentityInit, StartsInv, Joined, Started, Owning
  <2>3. AccountsInv
    BY <1>1, <1>2 DEF IdentityInit, AccountsInv, OnlyTheSeederActivates, Served
  <2> QED BY <2>1, <2>2, <2>3 DEF IdentityInv
<1>3. ASSUME Seed, Quiet PROVE IdentityInv /\ signedIn # {} /\ db.user[Admin].profile = Blank
  <2> DEFINE o == CHOOSE o \in Organization : TRUE
             w == [status |-> "ACTIVE", profile |-> Blank]
  <2>1. o \in Organization
    BY SeedAssumption
  <2>2. w \in UserRow /\ w # NoAccount /\ w.status = "ACTIVE" /\ w.profile = Blank
    BY <1>1 DEF UserRow, NoAccount
  <2> HIDE DEF o, w
  <2>3. /\ db = [tenants |-> {"system-root"},
                 user |-> [e \in Email |-> IF e = Admin THEN w ELSE NoAccount],
                 organizations |-> {o}, organizationMembers |-> {o}, workspaces |-> {o},
                 roles |-> [x \in Organization |-> IF x = o THEN 1 ELSE 0], members |-> {o}]
        /\ step = [p \in Proc |-> "up"] /\ mine = [p \in Proc |-> {o}]
        /\ signedIn = {Admin} /\ orgRivals = {} /\ roleRivals = [x \in Organization |-> {}]
        /\ orphaned = {}
    BY <1>3 DEF Seed, o, w
  <2>4. /\ db \in Database /\ db.user[Admin] = w /\ db.organizations = {o} /\ db.roles[o] = 1
        /\ db.organizationMembers = {o} /\ db.workspaces = {o} /\ db.members = {o}
        /\ \A e \in Email : e # Admin => db.user[e] = NoAccount
    BY <2>1, <2>2, <2>3, AdminAssumption DEF Database
  <2>5. IdentityTypeOK
    BY <1>3, <2>1, <2>3, <2>4, AdminAssumption, BoundsAssumption, SeedAssumption
       DEF Quiet, IdentityTypeOK
  <2>6. AdminIsActive
    BY <2>2, <2>4 DEF AdminIsActive
  <2>7. StartsInv
    BY <2>3, <2>4, <2>6 DEF StartsInv, Joined, Started, Owning
  <2>8. AccountsInv
    BY <1>1, <1>3, <2>2, <2>3, <2>4 DEF Quiet, AccountsInv, OnlyTheSeederActivates, Served
  <2> QED BY <2>2, <2>3, <2>4, <2>5, <2>7, <2>8 DEF IdentityInv
<1>4. ASSUME AccountInit PROVE IdentityInv /\ PagesInv
  <2>1. /\ IdentityInv /\ op = [q \in Client |-> NoCommand] /\ await = [q \in Client |-> "idle"]
        /\ page \in [Client -> {"form", "home"}]
        /\ \A q \in Client : page[q] = "home" => signedIn # {}
        /\ db.user[Admin] # NoAccount => db.user[Admin].profile = Blank
    BY <1>2, <1>3, <1>4, AdminAssumption DEF AccountInit, IdentityInit, Quiet
  <2>2. /\ NoData \in Cached(Profile, Client) /\ NoData.fetch = "idle" /\ NoData.data = {}
        /\ \A v : ReadAt(NoData, v)
    BY DEF NoData, Cached, ReadAt
  <2>3. NoSave \in [touched : SUBSET Field, missing : SUBSET Client] /\ NoSave.touched = {}
    BY DEF NoSave
  <2>4. PageTypes
    BY <1>1, <1>4, <2>1, <2>2, <2>3, AdminAssumption, EditsAssumption DEF AccountInit, PageTypes, Page
  <2>5. TypedFirst /\ FieldsHold
    BY <1>4, <2>1 DEF AccountInit, TypedFirst, FieldsHold
  <2>6. ASSUME NEW q \in Client PROVE PageOf(q) /\ Reads(q) /\ Sends(q)
    <3>1. /\ op[q] = NoCommand /\ await[q] = "idle" /\ email[q] = Admin /\ cache[q] = NoData
          /\ sent[q] = NoSave /\ page[q] \in {"form", "home"}
      BY <1>4, <2>1 DEF AccountInit
    <3>2. PageOf(q)
      BY <1>1, <2>1, <3>1 DEF PageOf
    <3>3. Reads(q) /\ Sends(q)
      BY <1>1, <2>2, <2>3, <3>1 DEF Reads, Sends
    <3> QED BY <3>2, <3>3
  <2> QED BY <2>1, <2>4, <2>5, <2>6 DEF PagesInv
<1> QED BY <1>2, <1>4

\* What a step must leave to those that it does not concern.
LeavesOthers ==
    /\ AdminIsActive => AdminIsActive' /\ db'.user[Admin].profile = db.user[Admin].profile
    /\ \A e \in Email : db.user[e] # NoAccount => db'.user[e] # NoAccount
    /\ signedIn \subseteq signedIn'

\* A page on which nothing happens.
LEMMA PageStays ==
    ASSUME PageTypes, NEW q \in Client, PageOf(q), LeavesOthers,
           op'[q] = op[q], page'[q] = page[q], email'[q] = email[q]
    PROVE  PageOf(q)'
<1>1. email[q] \in Email
  BY DEF PageTypes
<1>2. db.user[email[q]] # NoAccount => db'.user[email[q]] # NoAccount
  BY <1>1 DEF LeavesOthers
<1> QED BY <1>2 DEF PageOf, LeavesOthers

\* Settings in which nothing happens.
LEMMA ReadStays ==
    ASSUME NEW q \in Client, Reads(q), LeavesOthers,
           cache'[q] = cache[q], form'[q] = form[q], touched'[q] = touched[q]
    PROVE  Reads(q)'
<1>1. CASE AdminIsActive
  BY <1>1 DEF Reads, LeavesOthers
<1>2. CASE ~AdminIsActive
  <2>1. cache[q].data = {} /\ cache[q].fetch = "idle"
    BY <1>2 DEF Reads
  <2>2. cache[q].answer = {}
    BY <2>1 DEF Reads, ReadAt
  <2>3. \A v : ReadAt(cache[q], v)
    BY <2>1, <2>2 DEF Reads, ReadAt
  <2> QED BY <2>1, <2>3 DEF Reads
<1> QED BY <1>1, <1>2

\* A request to which nothing happens.
LEMMA SendStays ==
    ASSUME NEW q \in Client, Served(q), Sends(q), LeavesOthers,
           op'[q] = op[q], await'[q] = await[q], sent'[q] = sent[q]
    PROVE  Sends(q)'
<1>1. op[q].kind = "profile" => AdminIsActive
  BY CommandParts DEF Served
<1> QED BY <1>1 DEF Sends, LeavesOthers

\* A step of a start, in which the pages have no part.
LEMMA RunsKeep ==
    ASSUME IdentityInv, PagesInv, NEW p \in Proc, Runs(p)
    PROVE  PagesInv'
<1>1. PICK s, m : Moves(p, s, m)
  BY StartsRely DEF Runs, IdentityInv
<1>2. Started(p) /\ db.user[Admin] \in UserRow \cup {NoAccount}
  BY AdminAssumption DEF IdentityInv, StartsInv, IdentityTypeOK, Database
<1>3. /\ \A e \in Email : e # Admin => db'.user[e] = db.user[e]
      /\ AdminIsActive => AdminIsActive'
      /\ \/ db'.user[Admin] = db.user[Admin]
         \/ db.user[Admin] = NoAccount /\ db'.user[Admin] = NewUser
         \/ db.user[Admin] # NoAccount
               /\ db'.user[Admin] = [db.user[Admin] EXCEPT !.status = "ACTIVE"]
  BY <1>1, <1>2, NothingIsUndone DEF IdentityInv
<1>4. /\ db.user[Admin] # NoAccount =>
            [db.user[Admin] EXCEPT !.status = "ACTIVE"].profile = db.user[Admin].profile
            /\ [db.user[Admin] EXCEPT !.status = "ACTIVE"] # NoAccount
      /\ NewUser.profile = Blank /\ NewUser # NoAccount
  BY <1>2 DEF UserRow, NoAccount, NewUser
<1>5. UNCHANGED <<seeded, page, email, cache, form, touched, sent, edits, typed, behind>>
      /\ UNCHANGED <<await, op, signedIn>>
  BY DEF Runs, pageVars, Advance, Start, FindOrganization, Find, Write, Refused, StartFails, serving
<1>6. LeavesOthers
  BY <1>3, <1>4, <1>5 DEF LeavesOthers, AdminIsActive
<1>7. ASSUME NEW q \in Client PROVE PageOf(q)' /\ Reads(q)' /\ Sends(q)'
  BY <1>5, <1>6, PageStays, ReadStays, SendStays DEF PagesInv, IdentityInv, AccountsInv
<1>8. TypedFirst' /\ FieldsHold'
  BY <1>3, <1>4, <1>5 DEF PagesInv, TypedFirst, FieldsHold
<1>9. PageTypes'
  BY <1>5 DEF PagesInv, PageTypes
<1> QED BY <1>7, <1>8, <1>9 DEF PagesInv

\* An answer moves the page of its browser.
LEMMA AfterAnswers ==
    ASSUME PageTypes, NEW q \in Client, PageOf(q), Served(q), await[q] # "idle",
           db.user[email[q]] # NoAccount => db'.user[email[q]] # NoAccount, signedIn \subseteq signedIn',
           NEW ok \in BOOLEAN, page'[q] = AfterAnswer(page[q], ok), email'[q] = email[q],
           op'[q] = NoCommand,
           ok /\ op[q].kind = "register" => db'.user[op[q].email] # NoAccount,
           ok /\ op[q].kind = "login" => op[q].email = Admin /\ signedIn' # {}
    PROVE  PageOf(q)' /\ page'[q] \in Page
<1>1. email[q] \in Email /\ page[q] \in Page
  BY DEF PageTypes
<1>2. op'[q].kind = "none"
  BY CommandParts
<1>3. CASE page[q] = "registering"
  <2>1. page'[q] = IF ok THEN "registered" ELSE "form"
    BY <1>3 DEF AfterAnswer
  <2> QED BY <1>2, <1>3, <2>1 DEF PageOf, Page
<1>4. CASE page[q] = "signingIn"
  <2>1. page'[q] = IF ok THEN "home" ELSE "created"
    BY <1>4 DEF AfterAnswer
  <2> QED BY <1>2, <1>4, <2>1 DEF PageOf, Page
<1>5. CASE page[q] = "loggingIn"
  <2>1. page'[q] = IF ok THEN "home" ELSE "form"
    BY <1>5 DEF AfterAnswer
  <2> QED BY <1>2, <1>5, <2>1 DEF PageOf, Page
<1>6. CASE page[q] \in Page \ {"registering", "signingIn", "loggingIn"}
  <2>1. page'[q] = page[q]
    BY <1>6 DEF AfterAnswer
  <2> QED BY <1>1, <1>2, <1>6, <2>1 DEF PageOf
<1> QED BY <1>1, <1>3, <1>4, <1>5, <1>6

\* A listening process dies with its requests, and their pages are told.
LEMMA CrashesKeep ==
    ASSUME IdentityInv, PagesInv, NEW p \in Proc, Crashes(p)
    PROVE  PagesInv'
<1>1. UNCHANGED <<db, signedIn, seeded, email, cache, form, touched, edits, typed, behind>>
  BY DEF Crashes, Crash
<1>2. LeavesOthers
  BY <1>1 DEF LeavesOthers, AdminIsActive
<1>3. PICK Q \in SUBSET InFlight : Finish(Q)
  BY DEF Crashes, Crash
<1>4. \A q \in Q : q \in Client /\ await[q] # "idle" /\ await'[q] = "idle" /\ op'[q] = NoCommand
  BY <1>3 DEF Finish, InFlight
<1>5. \A q \in Client \ Q : await'[q] = await[q] /\ op'[q] = op[q]
  BY <1>3 DEF Finish
<1>6. Over = Q
  BY <1>4, <1>5 DEF Over
<1>7. /\ page' = [r \in Client |-> IF r \in Q THEN AfterAnswer(page[r], FALSE) ELSE page[r]]
      /\ sent' = [r \in Client |-> IF r \in Q THEN NoSave ELSE sent[r]]
  BY <1>6 DEF Crashes
<1>8. ASSUME NEW q \in Client PROVE PageOf(q)' /\ Reads(q)' /\ Sends(q)' /\ page'[q] \in Page
  <2>1. PageOf(q) /\ Reads(q) /\ Sends(q) /\ Served(q) /\ PageTypes
    BY DEF PagesInv, IdentityInv, AccountsInv
  <2>2. CASE q \in Q
    <3>1. PageOf(q)' /\ page'[q] \in Page
      <4>1. db.user[email[q]] # NoAccount => db'.user[email[q]] # NoAccount
        BY <1>1
      <4> QED BY <1>1, <1>4, <1>7, <2>1, <2>2, <4>1, AfterAnswers
    <3>2. Sends(q)'
      BY <1>4, <1>7, <2>2, CommandParts DEF Sends, NoSave
    <3> QED BY <1>1, <1>2, <2>1, <3>1, <3>2, ReadStays
  <2>3. CASE q \notin Q
    BY <1>1, <1>2, <1>5, <1>7, <2>1, <2>3, PageStays, ReadStays, SendStays DEF PageTypes
  <2> QED BY <2>2, <2>3
<1>9. PageTypes'
  <2>1. page' \in [Client -> Page]
    BY <1>7, <1>8
  <2>2. sent' \in [Client -> [touched : SUBSET Field, missing : SUBSET Client]]
    BY <1>7 DEF PagesInv, PageTypes, NoSave
  <2> QED BY <1>1, <2>1, <2>2 DEF PagesInv, PageTypes
<1>10. TypedFirst' /\ FieldsHold'
  BY <1>1 DEF PagesInv, TypedFirst, FieldsHold
<1> QED BY <1>8, <1>9, <1>10 DEF PagesInv

-----------------------------------------------------------------------------

\* A form is sent, or the settings are.
LEMMA SendingKeeps ==
    ASSUME IdentityInv, PagesInv, NEW q \in Client,
           \/ \E k \in {"register", "login"}, e \in Email : SubmitForm(q, k, e)
           \/ SignInAfter(q) \/ Submit(q)
    PROVE  IdentityInv' /\ PagesInv'
<1>1. \A r \in Client : PageOf(r) /\ Reads(r) /\ Sends(r) /\ Served(r)
  BY DEF PagesInv, IdentityInv, AccountsInv
<1>2. await[q] = "idle" /\ sent[q] = NoSave /\ PageTypes
  BY <1>1 DEF SubmitForm, SignInAfter, Submit, Accept, Sends, PagesInv
<1>3. UNCHANGED <<db, signedIn, seeded, cache, form, touched, edits, typed, behind>>
  BY DEF SubmitForm, SignInAfter, Submit, Accept
<1>4. LeavesOthers
  BY <1>3 DEF LeavesOthers, AdminIsActive
<1>5. TypedFirst' /\ FieldsHold' /\ \A r \in Client : Reads(r)'
  BY <1>1, <1>3, <1>4, ReadStays DEF PagesInv, TypedFirst, FieldsHold
<1>6. ASSUME NEW k \in {"register", "login"}, NEW e \in Email,
             Accept(q, [kind |-> k, email |-> e]),
             NEW s \in Page, page' = [page EXCEPT ![q] = s], email' = [email EXCEPT ![q] = e],
             UNCHANGED sent,
             s \in IF k = "register" THEN {"registering"} ELSE {"signingIn", "loggingIn"},
             s = "signingIn" => db.user[e] # NoAccount
      PROVE  IdentityInv' /\ PagesInv'
  <2> DEFINE c == [kind |-> k, email |-> e]
  <2>1. c \in Command /\ c.kind = k /\ c.email = e
    BY DEF Command
  <2> HIDE DEF c
  <2>2. /\ IdentityInv' /\ op'[q] = c /\ await'[q] # "idle"
        /\ \A r \in Client : r # q => await'[r] = await[r] /\ op'[r] = op[r]
    BY <1>6, <2>1, AcceptKeeps DEF c
  <2>3. ASSUME NEW r \in Client, r # q PROVE PageOf(r)' /\ Sends(r)'
    BY <1>1, <1>2, <1>4, <1>6, <2>2, <2>3, PageStays, SendStays DEF PageTypes
  <2>4. page'[q] = s /\ email'[q] = e /\ sent'[q] = NoSave
    BY <1>2, <1>6 DEF PageTypes
  <2>5. PageOf(q)'
    BY <1>3, <1>6, <2>1, <2>2, <2>4 DEF PageOf
  <2>6. Sends(q)'
    BY <1>6, <2>1, <2>2, <2>4 DEF Sends, NoSave
  <2>7. PageTypes'
    BY <1>2, <1>3, <1>6 DEF PageTypes
  <2> QED BY <1>5, <2>2, <2>3, <2>5, <2>6, <2>7 DEF PagesInv
<1>7. ASSUME NEW k \in {"register", "login"}, NEW e \in Email, SubmitForm(q, k, e)
      PROVE  IdentityInv' /\ PagesInv'
  <2> DEFINE s == IF k = "register" THEN "registering" ELSE "loggingIn"
  <2>1. s \in Page /\ s \in (IF k = "register" THEN {"registering"} ELSE {"signingIn", "loggingIn"})
        /\ s # "signingIn"
    BY DEF Page
  <2>2. /\ Accept(q, [kind |-> k, email |-> e]) /\ page' = [page EXCEPT ![q] = s]
        /\ email' = [email EXCEPT ![q] = e] /\ UNCHANGED sent
    BY <1>7 DEF SubmitForm
  <2> HIDE DEF s
  <2> QED BY <1>6, <2>1, <2>2
<1>8. CASE SignInAfter(q)
  <2>1. email[q] \in Email /\ email' = [email EXCEPT ![q] = email[q]]
    BY <1>2, <1>8 DEF PageTypes, SignInAfter
  <2>2. db.user[email[q]] # NoAccount
    BY <1>1, <1>8 DEF SignInAfter, PageOf
  <2>3. /\ Accept(q, [kind |-> "login", email |-> email[q]])
        /\ page' = [page EXCEPT ![q] = "signingIn"] /\ UNCHANGED sent /\ "signingIn" \in Page
    BY <1>8 DEF SignInAfter, Page
  <2> QED BY <1>6, <2>1, <2>2, <2>3
<1>9. CASE Submit(q)
  <2> DEFINE c == [kind |-> "profile", email |-> Admin, profile |-> form[q]]
             missing == IF cache[q].data = {} THEN Client ELSE cache[q].missing
             knew == [touched |-> touched[q], missing |-> missing]
  <2>1. c \in Command /\ c.kind = "profile" /\ c.email = Admin /\ c.profile = form[q]
    BY <1>2, AdminAssumption DEF Command, PageTypes
  <2>2. Accept(q, c) /\ UNCHANGED <<page, email>> /\ sent' = [sent EXCEPT ![q] = knew]
    BY <1>9 DEF Submit
  <2> HIDE DEF c
  <2>3. /\ IdentityInv' /\ op'[q] = c /\ await'[q] # "idle"
        /\ \A r \in Client : r # q => await'[r] = await[r] /\ op'[r] = op[r]
    BY <2>1, <2>2, AcceptKeeps
  <2>4. knew \in [touched : SUBSET Field, missing : SUBSET Client]
    BY <1>2 DEF PageTypes, Cached
  <2>5. knew.touched = touched[q] /\ knew.missing = missing
    OBVIOUS
  <2> HIDE DEF knew
  <2>6. ASSUME NEW r \in Client, r # q PROVE PageOf(r)' /\ Sends(r)'
    BY <1>1, <1>2, <1>4, <2>2, <2>3, <2>6, PageStays, SendStays DEF PageTypes
  <2>7. sent'[q] = knew
    BY <1>2, <2>2 DEF PageTypes
  <2>8. page[q] = "home"
    BY <1>9 DEF Submit, Shown, Settings
  <2>9. PageOf(q)'
    BY <1>1, <1>3, <2>1, <2>2, <2>3, <2>8 DEF PageOf
  <2>10. missing = {} => \A f \in Field \ touched[q] : form[q][f] = db.user[Admin].profile[f]
    <3>1. ASSUME missing = {} PROVE \A f \in Field \ touched[q] : form[q][f] = db.user[Admin].profile[f]
      <4>1. cache[q].data # {} /\ cache[q].missing = {}
        BY <3>1
      <4>2. db.user[Admin].profile \in cache[q].data
        BY <1>1, <4>1 DEF Reads, ReadAt
      <4> QED BY <1>1, <4>2 DEF Reads
    <3> QED BY <3>1
  <2>11. Sends(q)'
    BY <1>3, <2>1, <2>3, <2>5, <2>7, <2>10 DEF Sends
  <2>12. PageTypes'
    BY <1>2, <1>3, <2>2, <2>4 DEF PageTypes
  <2> QED BY <1>5, <2>3, <2>6, <2>9, <2>11, <2>12 DEF PagesInv
<1> QED BY <1>7, <1>8, <1>9

\* What is read from the table is a profile.
LEMMA ProfileRead ==
    ASSUME IdentityInv, AdminIsActive
    PROVE  db.user[Admin] \in UserRow /\ db.user[Admin].profile \in Profile
BY AdminAssumption DEF IdentityInv, IdentityTypeOK, Database, AdminIsActive, UserRow

\* The settings are shown, fetched and edited.
LEMMA SettingsKeep ==
    ASSUME IdentityInv, PagesInv, NEW q \in Client,
           \/ Open(q) \/ GetMe(q) \/ GetMeFails(q) \/ Arrive(q)
           \/ Type(q) \/ Upload(q) \/ Remove(q)
    PROVE  IdentityInv' /\ PagesInv'
<1>1. /\ UNCHANGED <<db, startup, serving>> /\ failures' \in 0..MaxFaults
      /\ UNCHANGED <<seeded, page, email, sent, typed, behind>>
  BY BoundsAssumption DEF Open, GetMe, GetMeFails, Arrive, Type, Upload, Remove, Edit,
     identityVars, IdentityInv, IdentityTypeOK
<1>2. UNCHANGED <<await, op, copy, signedIn, commands, step, mine, orgRivals, roleRivals, orphaned>>
  BY <1>1 DEF serving, startup
<1>3. IdentityInv'
  <2>1. IdentityTypeOK'
    BY <1>1, <1>2 DEF IdentityInv, IdentityTypeOK
  <2>2. StartsInv'
    BY <1>1, <1>2 DEF IdentityInv, StartsInv, Joined, Started, AdminIsActive
  <2>3. AccountsInv'
    BY <1>1, <1>2 DEF IdentityInv, AccountsInv, OnlyTheSeederActivates, Served, AdminIsActive
  <2> QED BY <2>1, <2>2, <2>3 DEF IdentityInv
<1>4. LeavesOthers
  BY <1>1, <1>2 DEF LeavesOthers, AdminIsActive
<1>5. ASSUME NEW r \in Client PROVE PageOf(r)' /\ Sends(r)'
  BY <1>1, <1>2, <1>4, PageStays, SendStays DEF PagesInv, IdentityInv, AccountsInv
<1>6. TypedFirst' /\ FieldsHold'
  BY <1>1 DEF PagesInv, TypedFirst, FieldsHold
<1>7. Reads(q) /\ PageTypes /\ cache[q] \in Cached(Profile, Client)
      /\ form[q] \in Profile /\ touched[q] \in SUBSET Field /\ Blank \in Profile
  BY DEF PagesInv, PageTypes, Blank, Profile
<1> DEFINE v == db.user[Admin].profile
<1> DEFINE shows(c, w, T) ==
        /\ c \in Cached(Profile, Client) /\ cache' = [cache EXCEPT ![q] = c]
        /\ w \in Profile /\ form' = [form EXCEPT ![q] = w]
        /\ T \in SUBSET Field /\ touched' = [touched EXCEPT ![q] = T]
        /\ edits' \in 0..MaxEdits
        /\ c.fetch # "idle" \/ c.data # {} => AdminIsActive
        /\ ReadAt(c, v)
        /\ \A x \in c.data : \A f \in Field \ T : w[f] = x[f]
<1>8. ASSUME NEW c, NEW w, NEW T, shows(c, w, T) PROVE PagesInv'
  <2>1. PageTypes'
    BY <1>1, <1>7, <1>8 DEF PageTypes, shows
  <2>2. ASSUME NEW r \in Client, r # q PROVE Reads(r)'
    BY <1>4, <1>7, <1>8, <2>2, ReadStays DEF PagesInv, PageTypes, shows
  <2>3. cache'[q] = c /\ form'[q] = w /\ touched'[q] = T
    BY <1>7, <1>8 DEF PageTypes, shows
  <2>4. Reads(q)'
    BY <1>1, <1>8, <2>3 DEF Reads, AdminIsActive, shows, v
  <2> QED BY <1>5, <1>6, <2>1, <2>2, <2>4 DEF PagesInv
<1>9. /\ cache = [cache EXCEPT ![q] = cache[q]] /\ form = [form EXCEPT ![q] = form[q]]
      /\ touched = [touched EXCEPT ![q] = touched[q]] /\ edits \in 0..MaxEdits
      /\ ReadAt(cache[q], v)
      /\ (cache[q].fetch # "idle" \/ cache[q].data # {} => AdminIsActive)
      /\ \A x \in cache[q].data : \A f \in Field \ touched[q] : form[q][f] = x[f]
  BY <1>7 DEF PageTypes, Reads
<1> HIDE DEF v, shows
<1>10. \A d \in {Sent(cache[q]), Failed(cache[q])} :
           d \in Cached(Profile, Client) /\ ReadAt(d, v) /\ d.data = cache[q].data
  <2>1. \A d \in {Sent(cache[q]), Failed(cache[q]), Invalidated(cache[q], q)} :
            d \in Cached(Profile, Client) /\ ReadAt(d, v) /\ d.data = cache[q].data
    <3>1. cache[q] \in Cached(Profile, Client) /\ ReadAt(cache[q], v)
      BY <1>7, <1>9
    <3> QED BY <3>1, QuerySteps
  <2> QED BY <2>1
<1>11. CASE Open(q)
  <2> DEFINE w == IF cache[q].data = {} THEN Blank ELSE CHOOSE x \in cache[q].data : TRUE
  <2>1. w \in Profile /\ \A x \in cache[q].data : w = x
    <3>1. cache[q].data = {} \/ \E x \in Profile : cache[q].data = {x}
      BY <1>9 DEF ReadAt
    <3> QED BY <1>7, <3>1
  <2>2. form' = [form EXCEPT ![q] = w] /\ touched' = [touched EXCEPT ![q] = {}] /\ edits' = edits
    BY <1>11 DEF Open
  <2>3. AdminIsActive
    BY <1>11 DEF Open, Settings, PagesInv, PageOf, IdentityInv, AccountsInv, OnlyTheSeederActivates,
       AdminIsActive
  <2>4. PICK c \in {Sent(cache[q]), cache[q]} : cache' = [cache EXCEPT ![q] = c]
    BY <1>9, <1>11 DEF Open
  <2>5. c \in Cached(Profile, Client) /\ ReadAt(c, v) /\ c.data = cache[q].data
    BY <1>7, <1>9, <1>10, <2>4
  <2> HIDE DEF w
  <2>9. shows(c, w, {})
    BY <1>9, <2>1, <2>2, <2>3, <2>4, <2>5 DEF shows
  <2> QED BY <1>3, <1>8, <2>9
<1>12. CASE GetMe(q)
  <2> DEFINE c == Answered(cache[q], v)
  <2>1. AdminIsActive
    BY <1>12 DEF GetMe, Listening, IdentityInv, StartsInv, Started, Owning
  <2>2. v \in Profile
    BY <2>1, ProfileRead DEF v
  <2>3. c \in Cached(Profile, Client) /\ ReadAt(c, v) /\ c.data = cache[q].data
    BY <1>7, <1>9, <1>12, <2>2, QuerySteps DEF GetMe
  <2>4. cache' = [cache EXCEPT ![q] = c] /\ UNCHANGED <<form, touched, edits>>
    BY <1>12 DEF GetMe, v
  <2> HIDE DEF c
  <2>9. shows(c, form[q], touched[q])
    BY <1>7, <1>9, <2>1, <2>3, <2>4 DEF shows
  <2> QED BY <1>3, <1>8, <2>9
<1>13. CASE GetMeFails(q)
  <2> DEFINE c == Failed(cache[q])
  <2>1. AdminIsActive
    BY <1>9, <1>13 DEF GetMeFails
  <2>2. cache' = [cache EXCEPT ![q] = c] /\ UNCHANGED <<form, touched, edits>>
    BY <1>13 DEF GetMeFails
  <2>3. c \in Cached(Profile, Client) /\ ReadAt(c, v) /\ c.data = cache[q].data
    BY <1>10
  <2> HIDE DEF c
  <2>9. shows(c, form[q], touched[q])
    BY <1>7, <1>9, <2>1, <2>2, <2>3 DEF shows
  <2> QED BY <1>3, <1>8, <2>9
<1>14. CASE Arrive(q)
  <2> DEFINE c == Arrived(cache[q])
  <2>1. c \in Cached(Profile, Client) /\ ReadAt(c, v) /\ c.data = cache[q].answer
    BY <1>7, <1>9, <1>14, QuerySteps DEF Arrive
  <2>2. cache' = [cache EXCEPT ![q] = c] /\ edits' = edits
    BY <1>14 DEF Arrive
  <2>3. AdminIsActive
    BY <1>9, <1>14 DEF Arrive
  <2>4. PICK x \in Profile : cache[q].answer = {x}
    BY <1>9, <1>14 DEF Arrive, ReadAt
  <2> HIDE DEF c
  <2>5. CASE Fills(q)
    <3>1. form' = [form EXCEPT ![q] = x] /\ touched' = [touched EXCEPT ![q] = {}]
      <4>1. (CHOOSE y \in cache[q].answer : TRUE) = x
        BY <2>4
      <4> QED BY <1>14, <2>5, <4>1 DEF Arrive
    <3>9. shows(c, x, {})
      BY <1>9, <2>1, <2>2, <2>3, <2>4, <3>1 DEF shows
    <3> QED BY <1>3, <1>8, <3>9
  <2>6. CASE ~Fills(q)
    <3>1. UNCHANGED <<form, touched>> /\ cache[q].data = cache[q].answer
      BY <1>14, <2>6 DEF Arrive, Fills
    <3>9. shows(c, form[q], touched[q])
      BY <1>7, <1>9, <2>1, <2>2, <2>3, <3>1 DEF shows
    <3> QED BY <1>3, <1>8, <3>9
  <2> QED BY <2>5, <2>6
<1>15. ASSUME NEW f \in Field, NEW t \in {{}, {q}}, Edit(q, f, t) PROVE PagesInv'
  <2> DEFINE w == [form[q] EXCEPT ![f] = t]
             T == touched[q] \cup {f}
  <2>1. cache' = cache /\ form' = [form EXCEPT ![q] = w] /\ touched' = [touched EXCEPT ![q] = T]
    BY <1>15 DEF Edit
  <2>2. edits' \in 0..MaxEdits
    BY <1>9, <1>15, EditsAssumption DEF Edit
  <2>3. w \in Profile /\ \A g \in Field \ T : w[g] = form[q][g]
    BY <1>7 DEF Profile
  <2>4. T \in SUBSET Field
    BY <1>7
  <2>5. \A x \in cache[q].data : \A g \in Field \ T : w[g] = x[g]
    BY <1>9, <2>3
  <2> HIDE DEF w, T
  <2>9. shows(cache[q], w, T)
    BY <1>7, <1>9, <2>1, <2>2, <2>3, <2>4, <2>5 DEF shows
  <2> QED BY <1>3, <1>8, <2>9
<1>16. CASE Type(q) \/ Upload(q) \/ Remove(q)
  BY <1>3, <1>15, <1>16 DEF Type, Upload, Remove, Field
<1> QED BY <1>11, <1>12, <1>13, <1>14, <1>16

\* What a request does to the profile that the settings show: it applies its
\* save, or changes nothing.
LEMMA AppliesOrNot ==
    ASSUME IdentityInv, NEW q \in Client,
           \/ SystemTenant(q) \/ ExistsByEmail(q) \/ FindUser(q) \/ Save(q) \/ SaveSession(q)
           \/ StatementThrows(q)
    PROVE  /\ AdminIsActive /\ AdminIsActive'
           /\ \A e \in Email : db.user[e] # NoAccount => db'.user[e] # NoAccount
           /\ Applies(q) =>
                 /\ op[q] \in Command /\ op[q].kind # "register" /\ copy[q] \in UserRow
                 /\ db'.user[Admin].profile =
                       IF op[q].kind = "profile" THEN op[q].profile ELSE copy[q].profile
                 /\ op[q].kind = "profile" => await'[q] = "idle"
           /\ ~Applies(q) => db'.user[Admin] = db.user[Admin]
<1> USE DEF IdentityInv
<1>1. /\ await[q] # "idle" /\ op[q] \in Command /\ op[q].email \in Email
      /\ AdminIsActive /\ Served(q) /\ OnlyTheSeederActivates
  BY CommandParts DEF SystemTenant, ExistsByEmail, FindUser, Save, SaveSession, StatementThrows,
     AccountsInv, Served, IdentityTypeOK
<1>2. /\ db' = db \/ (await[q] = "save" /\ ~Conflicts(q) /\ Upsert(q))
      /\ AdminIsActive'
  BY ServingKeeps
<1>3. ASSUME await[q] = "save", ~Conflicts(q), Upsert(q)
      PROVE  /\ Changed(q) \in UserRow /\ NoAccount \notin UserRow
             /\ \A e \in Email : db'.user[e] = IF e = op[q].email THEN Changed(q) ELSE db.user[e]
  BY <1>3, Upserting DEF UserRow, NoAccount
<1>4. \A e \in Email : db.user[e] # NoAccount => db'.user[e] # NoAccount
  BY <1>2, <1>3
<1>5. ASSUME Applies(q)
      PROVE  /\ op[q].kind # "register" /\ copy[q] \in UserRow
             /\ db'.user[Admin].profile =
                   IF op[q].kind = "profile" THEN op[q].profile ELSE copy[q].profile
             /\ op[q].kind = "profile" => await'[q] = "idle"
  <2>1. await[q] = "save" /\ ~Conflicts(q) /\ op[q].email = Admin /\ db'.user[Admin] = Changed(q)
    BY <1>5 DEF Applies
  <2>2. op[q].kind # "register"
    BY <1>1, <2>1 DEF Conflicts, AdminIsActive
  <2>3. copy[q] \in UserRow
    BY <1>1, <2>1, <2>2 DEF Served
  <2>4. db'.user[Admin].profile =
            IF op[q].kind = "profile" THEN op[q].profile ELSE copy[q].profile
    <3>1. [copy[q] EXCEPT !.profile = op[q].profile].profile = op[q].profile
      BY <2>3 DEF UserRow
    <3> QED BY <2>1, <3>1 DEF Changed
  <2>5. op[q].kind = "profile" => await'[q] = "idle"
    <3>1. op[q].kind = "profile" => Finish({q})
      BY <2>1 DEF SystemTenant, ExistsByEmail, FindUser, Save, SaveSession, StatementThrows
    <3> QED BY <3>1 DEF Finish
  <2> QED BY <2>2, <2>3, <2>4, <2>5
<1>6. ASSUME ~Applies(q) PROVE db'.user[Admin] = db.user[Admin]
  BY <1>2, <1>3, <1>6, AdminAssumption DEF Applies
<1> QED BY <1>1, <1>2, <1>4, <1>5, <1>6

\* An answer that says that it went well tells the truth.
LEMMA AnswersAreTrue ==
    ASSUME IdentityInv, NEW q \in Client,
           SystemTenant(q) \/ ExistsByEmail(q) \/ FindUser(q) \/ Save(q) \/ SaveSession(q),
           await'[q] = "idle",
           await[q] = "saveSession" \/ (await[q] = "save" /\ ~Conflicts(q))
    PROVE  /\ op[q].kind = "register" => db'.user[op[q].email] # NoAccount
           /\ op[q].kind = "login" => op[q].email = Admin /\ signedIn' # {}
<1> USE DEF IdentityInv
<1>1. op[q] \in Command /\ op[q].email \in Email /\ Served(q)
  BY CommandParts DEF AccountsInv, Served, IdentityTypeOK
<1>2. CASE await[q] = "saveSession"
  <2>1. SaveSession(q) /\ op[q].kind = "login" /\ op[q].email = Admin
    BY <1>1, <1>2 DEF SystemTenant, ExistsByEmail, FindUser, Save, Served
  <2> QED BY <2>1 DEF SaveSession
<1>3. CASE await[q] = "save" /\ ~Conflicts(q)
  <2>1. Save(q) /\ Upsert(q)
    BY <1>3 DEF SystemTenant, ExistsByEmail, FindUser, Save, SaveSession
  <2>2. op[q].kind # "login"
    <3>1. op[q].kind = "login" => await'[q] = "saveSession"
      BY <1>3, <2>1 DEF Save, GoOn, IdentityTypeOK
    <3> QED BY <3>1
  <2>3. db'.user[op[q].email] = Changed(q) /\ Changed(q) \in UserRow
    BY <1>1, <1>3, <2>1, Upserting
  <2> QED BY <2>2, <2>3 DEF UserRow, NoAccount
<1> QED BY <1>2, <1>3

\* A step of a request, with what its browser and the others make of it.
LEMMA ServedPages ==
    ASSUME IdentityInv, PagesInv, NEW q \in Client,
           \/ SystemTenant(q) \/ ExistsByEmail(q) \/ FindUser(q) \/ Save(q) \/ SaveSession(q)
           \/ StatementThrows(q),
           NEW ok \in BOOLEAN, Reply(Over, ok, q), Note(q),
           UNCHANGED <<seeded, email, form, touched, edits>>,
           ok /\ await'[q] = "idle" =>
              /\ op[q].kind = "register" => db'.user[op[q].email] # NoAccount
              /\ op[q].kind = "login" => op[q].email = Admin /\ signedIn' # {}
    PROVE  IdentityInv' /\ PagesInv'
<1>1. /\ IdentityInv'
      /\ \A r \in Client : r # q => await'[r] = await[r] /\ op'[r] = op[r] /\ copy'[r] = copy[r]
      /\ await'[q] # "idle" => op'[q] = op[q]
      /\ await'[q] = "idle" <=> op'[q] = NoCommand
  BY ServesKeep
<1>2. await[q] # "idle" /\ signedIn \subseteq signedIn'
  BY ServingKeeps
<1>3. /\ AdminIsActive /\ AdminIsActive'
      /\ \A e \in Email : db.user[e] # NoAccount => db'.user[e] # NoAccount
      /\ Applies(q) =>
            /\ op[q] \in Command /\ op[q].kind # "register" /\ copy[q] \in UserRow
            /\ db'.user[Admin].profile =
                  IF op[q].kind = "profile" THEN op[q].profile ELSE copy[q].profile
            /\ op[q].kind = "profile" => await'[q] = "idle"
      /\ ~Applies(q) => db'.user[Admin] = db.user[Admin]
  BY AppliesOrNot
<1>4. Over = IF await'[q] = "idle" THEN {q} ELSE {}
  BY <1>1, <1>2 DEF Over
<1>5. \A r \in Client : PageOf(r) /\ Reads(r) /\ Sends(r) /\ Served(r)
  BY DEF PagesInv, IdentityInv, AccountsInv
<1>6. PageTypes /\ db.user[Admin].profile \in Profile /\ db'.user[Admin].profile \in Profile
  <2>1. db.user[Admin].profile \in Profile
    BY <1>3, ProfileRead
  <2>2. Applies(q) /\ op[q].kind = "profile" => op[q].profile \in Profile
    BY <1>3, CommandParts
  <2>3. Applies(q) => copy[q].profile \in Profile
    BY <1>3 DEF UserRow
  <2> QED BY <1>3, <2>1, <2>2, <2>3 DEF PagesInv
<1> DEFINE old == db.user[Admin].profile
           new == db'.user[Admin].profile
<1>7. UNCHANGED <<seeded, email, form, touched, edits>>
  OBVIOUS
\* its page, and the others
<1>8. ASSUME NEW r \in Client PROVE PageOf(r)' /\ page'[r] \in Page
  <2>1. page'[r] = IF r \in Over THEN AfterAnswer(page[r], ok) ELSE page[r]
    BY DEF Reply
  <2>2. email[r] \in Email /\ page[r] \in Page
    BY <1>6 DEF PageTypes
  <2>3. db.user[email[r]] # NoAccount => db'.user[email[r]] # NoAccount
    BY <1>3, <2>2
  <2>4. CASE r \in Over
    <3>1. r = q /\ await'[q] = "idle" /\ op'[q] = NoCommand
      BY <1>1, <1>4, <2>4
    <3>2. op'[q].kind = "none" /\ page'[q] = AfterAnswer(page[q], ok)
      BY <2>1, <2>4, <3>1, CommandParts
    <3>3. /\ PageOf(q) /\ Served(q) /\ email'[q] = email[q]
          /\ db.user[email[q]] # NoAccount => db'.user[email[q]] # NoAccount
      BY <1>5, <1>7, <2>3, <3>1
    <3>4. /\ ok /\ op[q].kind = "register" => db'.user[op[q].email] # NoAccount
          /\ ok /\ op[q].kind = "login" => op[q].email = Admin /\ signedIn' # {}
      BY <3>1
    <3> QED BY <1>2, <1>6, <3>1, <3>2, <3>3, <3>4, AfterAnswers
  <2>5. CASE r \notin Over
    <3>1. op'[r] = op[r] /\ page'[r] = page[r]
      BY <1>1, <1>4, <2>1, <2>5
    <3> QED BY <1>2, <1>5, <1>7, <2>2, <2>3, <3>1 DEF PageOf
  <2> QED BY <2>4, <2>5
\* the caches
<1>9. ASSUME NEW r \in Client PROVE Reads(r)' /\ cache'[r] \in Cached(Profile, Client)
  <2> DEFINE c == IF Applies(q) THEN Missing(cache[r], q) ELSE cache[r]
  <2>1. cache'[r] \in {c, Invalidated(c, r)}
    BY DEF Reply
  <2>2. cache[r] \in Cached(Profile, Client) /\ ReadAt(cache[r], old)
    BY <1>5, <1>6 DEF PageTypes, Reads
  <2>3. c \in Cached(Profile, Client) /\ c.data = cache[r].data /\ ReadAt(c, new)
    <3>1. CASE Applies(q)
      BY <2>2, <3>1, QuerySteps
    <3>2. CASE ~Applies(q)
      BY <1>3, <2>2, <3>2
    <3> QED BY <3>1, <3>2
  <2> HIDE DEF c, new
  <2>4. /\ cache'[r] \in Cached(Profile, Client) /\ cache'[r].data = cache[r].data
        /\ ReadAt(cache'[r], new)
    BY <2>1, <2>3, QuerySteps
  <2>5. \A v \in cache[r].data : \A f \in Field \ touched[r] : form[r][f] = v[f]
    BY <1>5 DEF Reads
  <2> QED BY <1>3, <1>7, <2>4, <2>5 DEF Reads, new
\* the saves that are out
<1>10. ASSUME NEW r \in Client
       PROVE  Sends(r)' /\ sent'[r] \in [touched : SUBSET Field, missing : SUBSET Client]
  <2>1. sent'[r] = IF r \in Over THEN NoSave
                   ELSE IF Applies(q) /\ await[r] # "idle" /\ r # q
                        THEN [sent[r] EXCEPT !.missing = @ \cup {q}]
                   ELSE sent[r]
    BY DEF Reply
  <2>2. sent[r] \in [touched : SUBSET Field, missing : SUBSET Client]
    BY <1>6 DEF PageTypes
  <2>3. CASE r \in Over
    <3>1. op'[r] = NoCommand /\ sent'[r] = NoSave
      BY <1>1, <1>4, <2>1, <2>3
    <3> QED BY <3>1, CommandParts DEF Sends, NoSave
  <2>4. CASE r \notin Over /\ Applies(q) /\ await[r] # "idle" /\ r # q
    <3>1. sent'[r] = [sent[r] EXCEPT !.missing = @ \cup {q}] /\ op'[r] = op[r] /\ await'[r] = await[r]
      BY <1>1, <2>1, <2>4
    <3>2. /\ sent'[r] \in [touched : SUBSET Field, missing : SUBSET Client]
          /\ sent'[r].touched = sent[r].touched /\ sent'[r].missing # {}
      BY <2>2, <3>1
    <3> QED BY <1>5, <2>4, <3>1, <3>2 DEF Sends
  <2>5. CASE r \notin Over /\ ~(Applies(q) /\ await[r] # "idle" /\ r # q)
    <3>1. sent'[r] = sent[r] /\ op'[r] = op[r]
      BY <1>1, <1>4, <2>1, <2>5
    <3>2. await'[r] = "idle" => await[r] = "idle"
      BY <1>1, <1>4, <2>5
    <3>3. op[r].kind = "profile" => ~Applies(q)
      <4>1. op[r].kind = "profile" => await[r] # "idle"
        BY <1>5, CommandParts DEF Served
      <4>2. op[q].kind = "profile" /\ Applies(q) => q \in Over
        BY <1>3, <1>4
      <4> QED BY <2>5, <4>1, <4>2
    <3> QED BY <1>3, <1>5, <2>2, <3>1, <3>2, <3>3 DEF Sends
  <2> QED BY <2>3, <2>4, <2>5
\* what was typed
<1>11. /\ typed' \in Profile /\ behind' \subseteq Field
       /\ \A f \in Field \ behind' : new[f] = typed'[f]
  <2>1. \A f \in Field \ behind : old[f] = typed[f]
    BY <1>3 DEF PagesInv, FieldsHold, AdminIsActive
  <2>2. CASE ~Applies(q)
    BY <1>3, <1>6, <2>1, <2>2 DEF Note, PageTypes
  <2>3. CASE Applies(q)
    <3> DEFINE T == sent[q].touched
    <3>1. /\ typed' = [f \in Field |-> IF f \in T THEN op[q].profile[f] ELSE typed[f]]
          /\ behind' = (behind \ T) \cup LeftBehind(q)
      BY <2>3 DEF Note
    <3>2. T \subseteq Field /\ typed \in Profile /\ behind \subseteq Field
      BY <1>6 DEF PageTypes
    <3>3. LeftBehind(q) \subseteq Field
      BY DEF LeftBehind
    <3>4. CASE op[q].kind = "profile"
      <4>1. new = op[q].profile /\ new \in Profile
        BY <1>3, <1>6, <2>3, <3>4
      <4>2. \A f \in Field \ T : f \in LeftBehind(q) \/ new[f] = old[f]
        <5>1. LeftBehind(q) = {f \in Field \ T : sent[q].missing # {}}
          BY <3>4 DEF LeftBehind
        <5>2. sent[q].missing = {} => \A f \in Field \ T : op[q].profile[f] = old[f]
          BY <1>5, <3>4 DEF Sends
        <5> HIDE DEF T, old, new
        <5> QED BY <4>1, <5>1, <5>2
      <4> HIDE DEF T, old, new
      <4>3. typed' \in Profile
        BY <3>1, <3>2, <4>1 DEF Profile
      <4>4. \A f \in Field \ behind' : new[f] = typed'[f]
        BY <2>1, <3>1, <3>2, <4>1, <4>2
      <4> QED BY <3>1, <3>2, <3>3, <4>3, <4>4
    <3>5. CASE op[q].kind # "profile"
      <4>1. T = {} /\ new = copy[q].profile
        BY <1>3, <1>5, <2>3, <3>5 DEF Sends
      <4>2. LeftBehind(q) = {f \in Field : copy[q].profile[f] # old[f]}
        BY <3>5 DEF LeftBehind
      <4> HIDE DEF T, old, new
      <4>3. typed' = typed
        BY <3>1, <3>2, <4>1 DEF Profile
      <4>4. \A f \in Field \ behind' : new[f] = typed'[f]
        BY <2>1, <3>1, <4>1, <4>2, <4>3
      <4> QED BY <3>1, <3>2, <3>3, <4>3, <4>4
    <3> QED BY <3>4, <3>5
  <2> QED BY <2>2, <2>3
<1>12. PageTypes'
  <2>1. page' \in [Client -> Page] /\ cache' \in [Client -> Cached(Profile, Client)]
        /\ sent' \in [Client -> [touched : SUBSET Field, missing : SUBSET Client]]
    BY <1>8, <1>9, <1>10 DEF Reply
  <2> QED BY <1>6, <1>7, <1>11, <2>1 DEF PageTypes
<1>13. TypedFirst' /\ FieldsHold'
  BY <1>3, <1>11 DEF TypedFirst, FieldsHold, AdminIsActive
<1> QED BY <1>1, <1>8, <1>9, <1>10, <1>12, <1>13 DEF PagesInv

\* The invariant is kept by every step of the pages and of the API.
LEMMA AccountStepsKeep ==
    ASSUME IdentityInv, PagesInv, [AccountNext]_accountVars
    PROVE  IdentityInv' /\ PagesInv'
<1>1. ASSUME NEW p \in Proc, Runs(p) PROVE IdentityInv' /\ PagesInv'
  BY <1>1, ProcessesKeep, RunsKeep DEF Runs
<1>2. ASSUME NEW p \in Proc, Crashes(p) PROVE IdentityInv' /\ PagesInv'
  BY <1>2, ProcessesKeep, CrashesKeep DEF Crashes
<1>3. ASSUME NEW q \in Client, Browse(q) PROVE IdentityInv' /\ PagesInv'
  BY <1>3, SendingKeeps, SettingsKeep DEF Browse
<1>4. ASSUME NEW q \in Client, Serves(q) PROVE IdentityInv' /\ PagesInv'
  <2> DEFINE ok == await[q] = "saveSession" \/ (await[q] = "save" /\ ~Conflicts(q))
  <2>1. /\ SystemTenant(q) \/ ExistsByEmail(q) \/ FindUser(q) \/ Save(q) \/ SaveSession(q)
        /\ Reply(Over, ok, q) /\ Note(q) /\ UNCHANGED <<seeded, email, form, touched, edits>>
    BY <1>4 DEF Serves
  <2>2. ok \in BOOLEAN
    BY DEF Conflicts
  <2>3. ok /\ await'[q] = "idle" =>
           /\ op[q].kind = "register" => db'.user[op[q].email] # NoAccount
           /\ op[q].kind = "login" => op[q].email = Admin /\ signedIn' # {}
    BY <2>1, AnswersAreTrue
  <2> HIDE DEF ok
  <2> QED BY <2>1, <2>2, <2>3, ServedPages
<1>5. ASSUME NEW q \in Client, FailsToServe(q) PROVE IdentityInv' /\ PagesInv'
  <2>1. /\ StatementThrows(q) /\ Reply(Over, FALSE, q) /\ Note(q)
        /\ UNCHANGED <<seeded, email, form, touched, edits>>
    BY <1>5 DEF FailsToServe
  <2> QED BY <2>1, ServedPages
<1>6. ASSUME UNCHANGED accountVars PROVE IdentityInv' /\ PagesInv'
  <2>1. UNCHANGED <<db, step, mine, orgRivals, roleRivals, orphaned, await, op, copy, signedIn,
                    commands, failures>>
    BY <1>6 DEF accountVars, identityVars, startup, serving
  <2>2. UNCHANGED <<seeded, page, email, cache, form, touched, sent, edits, typed, behind>>
    BY <1>6 DEF accountVars, pageVars
  <2>3. IdentityTypeOK' /\ StartsInv'
    BY <2>1 DEF IdentityInv, IdentityTypeOK, StartsInv, Joined, Started, AdminIsActive
  <2>4. AccountsInv'
    BY <2>1 DEF IdentityInv, AccountsInv, OnlyTheSeederActivates, Served, AdminIsActive
  <2>5. PageTypes' /\ TypedFirst' /\ FieldsHold'
    BY <2>1, <2>2 DEF PagesInv, PageTypes, TypedFirst, FieldsHold
  <2>6. ASSUME NEW q \in Client PROVE PageOf(q)' /\ Reads(q)' /\ Sends(q)'
    <3>1. PageOf(q) /\ Reads(q) /\ Sends(q)
      BY DEF PagesInv
    <3> QED BY <2>1, <2>2, <3>1 DEF PageOf, Reads, Sends, AdminIsActive
  <2> QED BY <2>3, <2>4, <2>5, <2>6 DEF IdentityInv, PagesInv
<1> QED BY <1>1, <1>2, <1>3, <1>4, <1>5, <1>6 DEF AccountNext

LEMMA AccountsHold == AccountSpec => [](IdentityInv /\ PagesInv)
<1>1. AccountInit => IdentityInv /\ PagesInv
  BY FirstStates
<1>2. IdentityInv /\ PagesInv /\ [AccountNext]_accountVars => IdentityInv' /\ PagesInv'
  BY AccountStepsKeep
<1> QED BY <1>1, <1>2, PTL DEF AccountSpec

\* The types of the pages and of what they send their requests to.
THEOREM AccountTypesCorrect == AccountSpec => []AccountTypeOK
<1>1. IdentityInv /\ PagesInv => AccountTypeOK
  BY DEF IdentityInv, PagesInv, PageTypes, AccountTypeOK
<1> QED BY <1>1, AccountsHold, PTL

\* An account is active only by the seeder, and a page that says that one was
\* created, or that welcomes its user, tells the truth.
THEOREM PagesTellTheTruth == AccountSpec => []PagesAreTrue
<1>1. IdentityInv /\ PagesInv => PagesAreTrue
  <2> SUFFICES ASSUME IdentityInv, PagesInv PROVE PagesAreTrue
    OBVIOUS
  <2>1. OnlyTheSeederActivates
    BY DEF IdentityInv, AccountsInv
  <2>2. ASSUME NEW q \in Client
        PROVE  /\ page[q] \in {"registered", "signingIn", "created"} => db.user[email[q]] # NoAccount
               /\ page[q] = "created" /\ email[q] # Admin => db.user[email[q]].status = "PENDING"
               /\ page[q] = "home" => email[q] = Admin /\ db.user[Admin].status = "ACTIVE"
    BY <2>1 DEF PagesInv, PageOf, PageTypes, OnlyTheSeederActivates
  <2> QED BY <2>1, <2>2 DEF PagesAreTrue
<1> QED BY <1>1, AccountsHold, PTL

\* A field of the profile keeps what was typed and saved last, unless a save
\* wrote it from a form or a copy left behind.
THEOREM FieldsKept == AccountSpec => []FieldsHold
<1>1. PagesInv => FieldsHold
  BY DEF PagesInv
<1> QED BY <1>1, AccountsHold, PTL

\* A process that listens has seeded, wherever other starts have died.
THEOREM SeededFirst == AccountSpec => []ListeningMeansSeeded
<1>1. IdentityInv => ListeningMeansSeeded
  <2> SUFFICES ASSUME IdentityInv, NEW p \in Proc, step[p] = "up"
               PROVE  /\ db.user[Admin] # NoAccount /\ db.user[Admin].status = "ACTIVE"
                      /\ mine[p] # {}
                      /\ mine[p] \subseteq db.organizations \cap db.workspaces \cap db.members
                      /\ \A o \in mine[p] : db.roles[o] > 0
                      /\ \A o \in db.organizations \ (db.organizationMembers \cup orphaned) :
                            \E r \in Proc : step[r] = "newOrganizationMember" /\ mine[r] = {o}
    BY DEF ListeningMeansSeeded
  <2>1. Started(p) /\ Joined
    BY DEF IdentityInv, StartsInv
  <2> QED BY <2>1 DEF Started, Joined, Owning, AdminIsActive
<1> QED BY <1>1, AccountsHold, PTL

\* What a step may do to the default organizations and the roles of their
\* workspaces.
Overlap ==
    /\ db.organizations # {} /\ db'.organizations # db.organizations =>
          \E p \in orgRivals : step[p] = "newOrganization"
    /\ \A o \in Organization : db.roles[o] > 0 /\ db'.roles[o] # db.roles[o] =>
          \E p \in roleRivals[o] : step[p] = "newRole"

\* A second default organization, or a second role ADMIN of a workspace, is made
\* only by a start that was under way when the first was.
THEOREM SecondsByOverlap == AccountSpec => DefaultsDoubleByOverlap
<1>1. ASSUME IdentityInv, [AccountNext]_accountVars PROVE [Overlap]_identityVars
  <2>1. ASSUME NEW p \in Proc, Advance(p) \/ StartFails(p) \/ Crash(p) PROVE Overlap
    <3>1. PICK s, m : Moves(p, s, m)
      BY <1>1, <2>1, StartsRely DEF IdentityInv
    <3>2. Started(p) /\ mine[p] \subseteq Organization /\ \A o1, o2 \in mine[p] : o1 = o2
      BY <1>1 DEF IdentityInv, StartsInv, IdentityTypeOK, Started
    <3>3. CASE step[p] \in Writes /\ db' \in Written(p)
      <4> DEFINE d == db'
      <4>1. d \in Written(p) /\ step[p] \in Writes /\ IdentityTypeOK
        BY <1>1, <3>3 DEF IdentityInv
      <4> HIDE DEF d
      <4>2. step[p] = "newOrganization" \/ d.organizations = db.organizations
        <5>1. IF step[p] = "newOrganization"
              THEN \E o \in Organization \ db.organizations :
                      d.organizations = db.organizations \cup {o}
              ELSE d.organizations = db.organizations
          BY <3>2, <4>1, Writing
        <5> QED BY <5>1
      <4>3. \A o \in Organization : d.roles[o] =
                IF step[p] = "newRole" /\ o \in mine[p] THEN db.roles[o] + 1 ELSE db.roles[o]
        BY <3>2, <4>1, Writing
      <4> QED BY <3>2, <4>2, <4>3 DEF Overlap, Started, d
    <3> QED BY <3>1, <3>3 DEF Moves, Overlap
  <2>2. ASSUME NEW q \in Client, Browse(q) PROVE Overlap
    <3>1. db' = db
      BY <2>2 DEF Browse, SubmitForm, SignInAfter, Submit, Accept, Open, GetMe, GetMeFails, Arrive,
         Type, Upload, Remove, Edit, identityVars
    <3> QED BY <3>1 DEF Overlap
  <2>3. ASSUME NEW q \in Client,
               \/ SystemTenant(q) \/ ExistsByEmail(q) \/ FindUser(q) \/ Save(q) \/ SaveSession(q)
               \/ StatementThrows(q)
        PROVE  Overlap
    <3>1. db' = db \/ (await[q] = "save" /\ ~Conflicts(q) /\ Upsert(q))
      BY <1>1, <2>3, ServingKeeps
    <3>2. db'.organizations = db.organizations /\ db'.roles = db.roles
      BY <1>1, <3>1, Upserting DEF IdentityInv
    <3> QED BY <3>2 DEF Overlap
  <2>4. ASSUME UNCHANGED accountVars PROVE UNCHANGED identityVars
    BY <2>4 DEF accountVars
  <2> QED BY <1>1, <2>1, <2>2, <2>3, <2>4 DEF AccountNext, Runs, Crashes, Serves, FailsToServe
<1>2. AccountSpec => [][Overlap]_identityVars
  BY <1>1, AccountsHold, PTL DEF AccountSpec
<1> QED BY <1>2 DEF Overlap, DefaultsDoubleByOverlap
=============================================================================
