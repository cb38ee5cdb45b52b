----------------------------- MODULE WebRefresh -----------------------------
(***************************************************************************)
(* The web server in front of Sessions.  Every page request and every      *)
(* getSession call of a browser carries the user's cookie and runs the jwt *)
(* callback; when the access token is about to expire, dedupRefreshToken   *)
(* calls the API, or joins the call in flight for the same refresh token,  *)
(* of which it remembers one.  A Visit is a slot for requests of one       *)
(* browser; a Request of Sessions is here a call of the web server.        *)
(***************************************************************************)
EXTENDS Sessions

CONSTANTS
    Visit,
    VisitorOf,  \* VisitorOf[t]: the user whose browser sends t
    NoCall      \* null

ASSUME VisitorAssumption == VisitorOf \in [Visit -> User]
ASSUME NoCallAssumption == NoCall \notin Request

VARIABLES
    cookie,       \* the refresh token in a user's cookie, NoSession: signed out
    at,           \* what a visit is doing
    seen,         \* the refresh token in the cookie it was sent with
    awaited,      \* the call whose promise it waits for
    settled,      \* what a call resolved to: {}, {token} or {NoSession} for null
    inflight,     \* inflightRefresh
    inflightKey

web     == <<cookie, at, seen, awaited, settled, inflight, inflightKey>>
webVars == <<vars, web>>

WebInit ==
    /\ Init
    /\ cookie = [u \in User |-> NoSession]
    /\ at = [t \in Visit |-> "idle"]
    /\ seen = [t \in Visit |-> NoSession]
    /\ awaited = [t \in Visit |-> NoCall]
    /\ settled = [q \in Request |-> {}]
    /\ inflight = NoCall
    /\ inflightKey = NoSession

-----------------------------------------------------------------------------

\* a slot whose last call is over and was received by all who waited for it
Free(q) == pc[q] = "idle" /\ \A t \in Visit : awaited[t] # q

Await(t, q) ==
    /\ at' = [at EXCEPT ![t] = "waiting"]
    /\ awaited' = [awaited EXCEPT ![t] = q]

\* authorize: the user signs in
SignIn(t, q) ==
    /\ at[t] = "idle" /\ cookie[VisitorOf[t]] = NoSession
    /\ Free(q)
    /\ Login(q, VisitorOf[t])
    /\ Await(t, q)
    /\ settled' = [settled EXCEPT ![q] = {}]
    /\ UNCHANGED <<cookie, seen, inflight, inflightKey>>

\* The browser sends a request with the cookie it has now.
Send(t) ==
    /\ at[t] = "idle" /\ cookie[VisitorOf[t]] # NoSession
    /\ at' = [at EXCEPT ![t] = "sent"]
    /\ seen' = [seen EXCEPT ![t] = cookie[VisitorOf[t]]]
    /\ UNCHANGED <<vars, cookie, awaited, settled, inflight, inflightKey>>

\* jwt: the access token is good for a while.
StillFresh(t) ==
    /\ at[t] = "sent"
    /\ at' = [at EXCEPT ![t] = "idle"]
    /\ UNCHANGED <<vars, cookie, seen, awaited, settled, inflight, inflightKey>>

\* Mutant of Joins: whatever call is in flight is joined.
MutJoinsAny(t) == inflight # NoCall

Joins(t) == inflight # NoCall /\ inflightKey = seen[t]

\* jwt and dedupRefreshToken: the promise of the call in flight is shared.
Join(t) ==
    /\ at[t] = "sent"
    /\ Joins(t)
    /\ Await(t, inflight)
    /\ UNCHANGED <<vars, cookie, seen, settled, inflight, inflightKey>>

\* jwt and dedupRefreshToken: a call of its own, remembered instead of the one
\* in flight, if any.
CallRefresh(t, q) ==
    /\ at[t] = "sent"
    /\ ~Joins(t)
    /\ Free(q)
    /\ Refresh(q, seen[t])
    /\ Await(t, q)
    /\ settled' = [settled EXCEPT ![q] = {}]
    /\ inflight' = q
    /\ inflightKey' = seen[t]
    /\ UNCHANGED <<cookie, seen>>

\* The promise of call q resolves; finally of a refresh clears the memory,
\* whichever call it holds by now.
Settle(q, value) ==
    /\ settled' = [settled EXCEPT ![q] = {value}]
    /\ inflight' = IF token[q] = NoSession THEN inflight ELSE NoCall
    /\ inflightKey' = IF token[q] = NoSession THEN inflightKey ELSE NoSession
    /\ UNCHANGED <<cookie, at, seen, awaited>>

\* The API works on call q; when it answers, the promise resolves, unless the
\* web server has given up on it.
ApiStep(q) ==
    /\ Proceed(q) \/ Throws(q)
    /\ IF pc'[q] = "idle" /\ settled[q] = {}
       THEN Settle(q, IF fresh[q] \in known' THEN fresh[q] ELSE NoSession)
       ELSE UNCHANGED web

\* fetch fails while the API works on: the promise resolves to null.
NetworkFails(q) ==
    /\ pc[q] # "idle" /\ settled[q] = {}
    /\ faults < MaxFault
    /\ faults' = faults + 1
    /\ Settle(q, NoSession)
    /\ UNCHANGED <<table, requests, known, swept, racing>>

\* The promise a visit waits for has resolved: its response sets the cookie,
\* or carries RefreshTokenError.
Receive(t) ==
    /\ at[t] = "waiting"
    /\ \E value \in settled[awaited[t]] :
        /\ cookie' = IF value # NoSession
                     THEN [cookie EXCEPT ![VisitorOf[t]] = value] ELSE cookie
        /\ at' = [at EXCEPT ![t] = IF value # NoSession THEN "idle" ELSE "failed"]
    /\ awaited' = [awaited EXCEPT ![t] = NoCall]
    /\ UNCHANGED <<vars, seen, settled, inflight, inflightKey>>

\* useAuthSession: RefreshTokenError signs the browser out.  The API is not
\* told.
SignOut(t) ==
    /\ at[t] = "failed"
    /\ at' = [at EXCEPT ![t] = "idle"]
    /\ cookie' = [cookie EXCEPT ![VisitorOf[t]] = NoSession]
    /\ UNCHANGED <<vars, seen, awaited, settled, inflight, inflightKey>>

-----------------------------------------------------------------------------

WebNext ==
    \/ \E t \in Visit :
        \/ Send(t) \/ StillFresh(t) \/ Join(t) \/ Receive(t) \/ SignOut(t)
        \/ \E q \in Request : SignIn(t, q) \/ CallRefresh(t, q)
    \/ \E q \in Request : ApiStep(q) \/ NetworkFails(q)

WebSpec == WebInit /\ [][WebNext]_webVars

-----------------------------------------------------------------------------

WebTypeOK ==
    /\ TypeOK
    /\ cookie \in [User -> Session \cup {NoSession}]
    /\ at \in [Visit -> {"idle", "sent", "waiting", "failed"}]
    /\ seen \in [Visit -> Session \cup {NoSession}]
    /\ awaited \in [Visit -> Request \cup {NoCall}]
    /\ settled \in [Request -> SUBSET (Session \cup {NoSession})]
    /\ inflight \in Request \cup {NoCall}
    /\ inflightKey \in Session \cup {NoSession}

\* The promises that visits of several users share never hand the tokens of
\* one user to another, although one memory serves all users and every call
\* that ends clears it.
TokensStayWithTheirUser ==
    /\ \A u \in User : cookie[u] # NoSession => owner[cookie[u]] = u
    /\ \A t \in Visit : at[t] = "waiting" =>
        settled[awaited[t]] \subseteq Of(VisitorOf[t]) \cup {NoSession}

=============================================================================
