---------------------------- MODULE AccountPages ----------------------------
(***************************************************************************)
(* The pages from which browsers send the requests of Identity: the forms  *)
(* for registration and login, and the profile settings of the user who    *)
(* is signed in.  A Client is a browser: it has one request out at most.   *)
(*                                                                         *)
(* The settings show the query profile of the browser's cache in a form.   *)
(* The form is filled again whenever the cached profile changes, and saved *)
(* as a whole, the fields that nobody has touched included.                *)
(*                                                                         *)
(* Left out: refreshing and losing the session, see WebRefresh.            *)
(***************************************************************************)
EXTENDS Identity, QueryCache

CONSTANT MaxEdits    \* bound: edits of the settings

ASSUME EditsAssumption == MaxEdits \in Nat
\* what a start that is over has made, and the login that came after it
ASSUME SeedAssumption == Organization # {} /\ MaxCommands > 0

\* "form": a form, with or without an error; "created": a form that says that
\* the account was created but not signed in
Page ==
    {"form", "registering", "registered", "signingIn", "loggingIn", "created", "home"}

NoSave == [touched |-> {}, missing |-> {}]

VARIABLES
    seeded,   \* bound: settings are opened only where the start was seeded
    page,     \* of each browser
    email,    \* what was typed in its form
    cache,    \* its query profile
    form,     \* the profile that its settings show
    touched,  \* fields that were edited since the form was filled
    sent,     \* history: what the request that is out knew, see Submit
    edits,    \* how many there were
    typed,    \* history: the value saved last of those that users typed
    behind    \* history: fields saved since from a form or a copy left behind

pageVars == <<seeded, page, email, cache, form, touched, sent, edits, typed, behind>>
accountVars == <<identityVars, pageVars>>

\* a start that is over and the first login of the administrator
Seed ==
    LET o == CHOOSE o \in Organization : TRUE IN
    /\ db = [tenants |-> {"system-root"},
             user |-> [e \in Email |->
                 IF e = Admin THEN [status |-> "ACTIVE", profile |-> Blank] ELSE NoAccount],
             organizations |-> {o}, organizationMembers |-> {o}, workspaces |-> {o},
             roles |-> [x \in Organization |-> IF x = o THEN 1 ELSE 0], members |-> {o}]
    /\ step = [p \in Proc |-> "up"]
    /\ mine = [p \in Proc |-> {o}]
    /\ signedIn = {Admin}
    /\ orgRivals = {} /\ roleRivals = [x \in Organization |-> {}] /\ orphaned = {}

Quiet ==
    /\ await = [q \in Client |-> "idle"]
    /\ op = [q \in Client |-> NoCommand]
    /\ copy = [q \in Client |-> NoAccount]
    /\ commands = 1 /\ failures = 0

AccountInit ==
    /\ seeded \in BOOLEAN
    /\ \/ ~seeded /\ IdentityInit /\ page = [q \in Client |-> "form"]
       \/ seeded /\ Seed /\ Quiet /\ page \in [Client -> {"form", "home"}]
    /\ email = [q \in Client |-> Admin]
    /\ cache = [q \in Client |-> NoData]
    /\ form = [q \in Client |-> Blank]
    /\ touched = [q \in Client |-> {}]
    /\ sent = [q \in Client |-> NoSave]
    /\ edits = 0
    /\ typed = Blank
    /\ behind = {}

-----------------------------------------------------------------------------
(* The forms for registration and login.                                   *)

\* handleSubmit of the login page, or of the registration page
SubmitForm(q, k, e) ==
    /\ page[q] \in {"form", "created"}
    /\ Accept(q, [kind |-> k, email |-> e])
    /\ page' = [page EXCEPT ![q] = IF k = "register" THEN "registering" ELSE "loggingIn"]
    /\ email' = [email EXCEPT ![q] = e]
    /\ UNCHANGED <<seeded, cache, form, touched, sent, edits, typed, behind>>

\* the second step of handleSubmit of the registration page
SignInAfter(q) ==
    /\ page[q] = "registered"
    /\ Accept(q, [kind |-> "login", email |-> email[q]])
    /\ page' = [page EXCEPT ![q] = "signingIn"]
    /\ UNCHANGED <<seeded, email, cache, form, touched, sent, edits, typed, behind>>

\* where a page goes on an answer; an account that was created is not signed in
\* when it cannot be
AfterAnswer(s, ok) ==
    CASE s = "registering" -> IF ok THEN "registered" ELSE "form"
      [] s = "signingIn"   -> IF ok THEN "home" ELSE "created"
      [] s = "loggingIn"   -> IF ok THEN "home" ELSE "form"
      [] OTHER             -> s

-----------------------------------------------------------------------------
(* The settings.                                                           *)

\* nobody opens or edits them who can send no more
Settings(q) == seeded /\ page[q] = "home" /\ commands < MaxCommands

\* the form is not there while the first fetch is out
Shown(q) == Settings(q) /\ ~(cache[q].data = {} /\ cache[q].fetch # "idle")

\* the query, or the form, is mounted; the form starts with what is cached
Open(q) ==
    /\ Settings(q) /\ await[q] = "idle"
    /\ \/ cache[q].fetch = "idle" /\ cache' = [cache EXCEPT ![q] = Sent(@)]
       \/ cache[q].data # {} /\ UNCHANGED cache
    /\ form' = [form EXCEPT ![q] = IF cache[q].data = {} THEN Blank
                                   ELSE CHOOSE v \in cache[q].data : TRUE]
    /\ touched' = [touched EXCEPT ![q] = {}]
    /\ UNCHANGED <<identityVars, seeded, page, email, sent, edits, typed, behind>>

GetMe(q) ==
    /\ cache[q].fetch = "sent" /\ Listening # {}
    /\ cache' = [cache EXCEPT ![q] = Answered(@, db.user[Admin].profile)]
    /\ UNCHANGED <<identityVars, seeded, page, email, form, touched, sent, edits, typed, behind>>

\* the fetch and its retries fail
GetMeFails(q) ==
    /\ cache[q].fetch # "idle" /\ failures < MaxFaults
    /\ failures' = failures + 1
    /\ cache' = [cache EXCEPT ![q] = Failed(@)]
    /\ UNCHANGED <<db, startup, serving>>
    /\ UNCHANGED <<seeded, page, email, form, touched, sent, edits, typed, behind>>

\* Mutant of Fills: the form is filled when it is mounted, and never again.
MutFills(q) == cache[q].data = {}

\* the effect of useProfileFormInit runs for a profile that is another object,
\* which a profile with equal fields is not
Fills(q) == cache[q].data # cache[q].answer

Arrive(q) ==
    /\ cache[q].fetch = "answered"
    /\ cache' = [cache EXCEPT ![q] = Arrived(@)]
    /\ IF Fills(q)
       THEN /\ form' = [form EXCEPT ![q] = CHOOSE v \in cache[q].answer : TRUE]
            /\ touched' = [touched EXCEPT ![q] = {}]
       ELSE UNCHANGED <<form, touched>>
    /\ UNCHANGED <<identityVars, seeded, page, email, sent, edits, typed, behind>>

Edit(q, f, v) ==
    /\ Shown(q) /\ edits < MaxEdits
    /\ edits' = edits + 1
    /\ form' = [form EXCEPT ![q][f] = v]
    /\ touched' = [touched EXCEPT ![q] = @ \cup {f}]
    /\ UNCHANGED <<identityVars, seeded, page, email, cache, sent, typed, behind>>

Type(q) == Edit(q, "texts", {q})

\* handleFileSelect, when the upload has come back
Upload(q) == Edit(q, "avatar", {q})

Remove(q) == form[q]["avatar"] # {} /\ Edit(q, "avatar", {})

\* handleSave; the button is disabled while a save is out
Submit(q) ==
    /\ Shown(q) /\ await[q] = "idle"
    /\ Accept(q, [kind |-> "profile", email |-> Admin, profile |-> form[q]])
    /\ sent' = [sent EXCEPT ![q] =
          [touched |-> touched[q],
           missing |-> IF cache[q].data = {} THEN Client ELSE cache[q].missing]]
    /\ UNCHANGED <<seeded, page, email, cache, form, touched, edits, typed, behind>>

-----------------------------------------------------------------------------
(* The answers.                                                            *)

\* whether this step applies the save of q
Applies(q) ==
    /\ await[q] = "save" /\ ~Conflicts(q) /\ op[q].email = Admin
    /\ db'.user[Admin] = Changed(q)

\* the fields that a save of q changes from a form or a copy left behind
LeftBehind(q) ==
    IF op[q].kind = "profile"
    THEN {f \in Field \ sent[q].touched : sent[q].missing # {}}
    ELSE {f \in Field : copy[q].profile[f] # db.user[Admin].profile[f]}

\* history of a step of q on the API
Note(q) ==
    IF Applies(q)
    THEN /\ typed' = [f \in Field |->
                IF f \in sent[q].touched THEN op[q].profile[f] ELSE typed[f]]
         /\ behind' = (behind \ sent[q].touched) \cup LeftBehind(q)
    ELSE UNCHANGED <<typed, behind>>

\* the browsers of Q are answered, with success or not; a step of q has saved
Reply(Q, ok, q) ==
    LET missing == Applies(q)
        c(r) == IF missing THEN Missing(cache[r], q) ELSE cache[r]
    IN
    /\ page' = [r \in Client |-> IF r \in Q THEN AfterAnswer(page[r], ok) ELSE page[r]]
    /\ cache' = [r \in Client |->
          IF r \in Q /\ ok /\ op[r].kind = "profile" THEN Invalidated(c(r), r) ELSE c(r)]
    /\ sent' = [r \in Client |->
          IF r \in Q THEN NoSave
          ELSE IF missing /\ await[r] # "idle" /\ r # q
               THEN [sent[r] EXCEPT !.missing = @ \cup {q}]
          ELSE sent[r]]

\* those whose request is over with this step
Over == {r \in Client : await[r] # "idle" /\ await'[r] = "idle"}

Serves(q) ==
    /\ SystemTenant(q) \/ ExistsByEmail(q) \/ FindUser(q) \/ Save(q) \/ SaveSession(q)
    /\ Reply(Over, await[q] = "saveSession" \/ (await[q] = "save" /\ ~Conflicts(q)), q)
    /\ Note(q)
    /\ UNCHANGED <<seeded, email, form, touched, edits>>

FailsToServe(q) ==
    /\ StatementThrows(q)
    /\ Reply(Over, FALSE, q)
    /\ Note(q)
    /\ UNCHANGED <<seeded, email, form, touched, edits>>

\* a step of the start, or the death of a process
Runs(p) == (Advance(p) \/ StartFails(p)) /\ UNCHANGED pageVars

Crashes(p) ==
    /\ Crash(p)
    /\ page' = [r \in Client |-> IF r \in Over THEN AfterAnswer(page[r], FALSE) ELSE page[r]]
    /\ sent' = [r \in Client |-> IF r \in Over THEN NoSave ELSE sent[r]]
    /\ UNCHANGED <<seeded, email, cache, form, touched, edits, typed, behind>>

Browse(q) ==
    \/ \E k \in {"register", "login"}, e \in Email : SubmitForm(q, k, e)
    \/ SignInAfter(q)
    \/ Open(q) \/ GetMe(q) \/ GetMeFails(q) \/ Arrive(q)
    \/ Type(q) \/ Upload(q) \/ Remove(q) \/ Submit(q)

AccountNext ==
    \/ \E p \in Proc : Runs(p) \/ Crashes(p)
    \/ \E q \in Client : Browse(q) \/ Serves(q) \/ FailsToServe(q)

\* the fairness of Identity
AccountSpec ==
    /\ AccountInit /\ [][AccountNext]_accountVars
    /\ \A p \in Proc : WF_accountVars(Advance(p) /\ UNCHANGED pageVars)

-----------------------------------------------------------------------------

AccountTypeOK ==
    /\ IdentityTypeOK
    /\ seeded \in BOOLEAN /\ page \in [Client -> Page] /\ email \in [Client -> Email]
    /\ cache \in [Client -> Cached(Profile, Client)] /\ form \in [Client -> Profile]
    /\ touched \in [Client -> SUBSET Field]
    /\ sent \in [Client -> [touched : SUBSET Field, missing : SUBSET Client]]
    /\ edits \in 0..MaxEdits /\ typed \in Profile /\ behind \subseteq Field

\* A field of the profile keeps what was typed and saved last, although every
\* save writes all fields: another value is there only when a login saved a
\* copy left behind, or a form did that showed a profile older than another
\* save, or none because the first fetch had failed.
FieldsHold ==
    db.user[Admin] # NoAccount =>
        \A f \in Field \ behind : db.user[Admin].profile[f] = typed[f]

\* A page that says that an account was created, or that welcomes its user,
\* tells the truth; and as only the seeder activates, a registration never ends
\* signed in, whatever the page tries.
PagesAreTrue ==
    /\ OnlyTheSeederActivates
    /\ \A q \in Client :
          /\ page[q] \in {"registered", "signingIn", "created"} => db.user[email[q]] # NoAccount
          /\ page[q] = "created" /\ email[q] # Admin => db.user[email[q]].status = "PENDING"
          /\ page[q] = "home" => email[q] = Admin /\ db.user[Admin].status = "ACTIVE"
=============================================================================
