------------------------------ MODULE Channels ------------------------------
(***************************************************************************)
(* The channels of one workspace and their members.  findById builds a     *)
(* Channel from the row and its member rows, a method changes the copy and *)
(* save writes it back in one transaction: the columns by an upsert that   *)
(* compares no version, the member rows by deleting and inserting them     *)
(* all.  Two commands create a channel after a query that did not find     *)
(* one: opening a direct channel, and listing the channels of a workspace  *)
(* in which the user sees none.  Neither name nor pair is unique in the    *)
(* table.  An action ends at an await.                                     *)
(*                                                                         *)
(* A message that a user posts to a public channel makes the user a member *)
(* of it, in a save of the whole channel; the message itself is that of    *)
(* Chat.                                                                   *)
(*                                                                         *)
(* Left out: the columns version and isArchived (archive and unarchive     *)
(* have no caller), joinedAt and the ids of member rows, which every save  *)
(* renews, and the events, which save does not store.                      *)
(***************************************************************************)
EXTENDS Naturals

CONSTANTS
    User,         \* ids that requests name
    Registered,   \* those with a row in users
    Caller,       \* registered users who send requests
    Channel,      \* ids
    ChosenName,   \* names that users type
    Request

ASSUME RegisteredAssumption == Caller \subseteq Registered /\ Registered \subseteq User

\* "general" and other texts have no pair
Name == [label : {"general", "other", "dm"}, of : SUBSET User]

General == [label |-> "general", of |-> {}]

\* dm_a_b of the two sorted ids
PairName(u, v) == [label |-> "dm", of |-> {u, v}]

ASSUME NameAssumption == ChosenName \subseteq Name

ChannelType == {"PUBLIC", "PRIVATE", "DIRECT"}

Role == {"none", "OWNER", "MEMBER"}

\* a row with its member rows: role[u] is "none" when u has no member row
NoRow == [name |-> {}]
Row ==
    [name : {{n} : n \in Name}, type : ChannelType, details : SUBSET Request,
     role : [User -> Role], cursor : [User -> SUBSET Request]]

\* a command and the user who sends it
Command ==
    [kind : {"create"}, by : Caller, name : ChosenName, type : ChannelType] \cup
    [kind : {"openDirect"}, by : Caller, with : User] \cup
    [kind : {"list"}, by : Caller] \cup
    [kind : {"rename"}, by : Caller, on : Channel, name : ChosenName] \cup
    [kind : {"describe", "read", "post"}, by : Caller, on : Channel] \cup
    [kind : {"add", "remove"}, by : Caller, on : Channel, who : User]

NoCommand == [kind |-> "none"]

NoMaker == [kind |-> "none"]

VARIABLES
    table,    \* the channels with their members
    pc,       \* the await a request stands at
    op,       \* its command
    copy,     \* the Channel it is about to save
    maker,    \* for each channel the request, kind and user that created it
    told,     \* what the requests that were saved say of each channel
    renamed,  \* channels that were renamed
    raced,    \* channels saved from a copy the table had left behind
    met       \* pairs of requests that were in flight at the same time

vars == <<table, pc, op, copy, maker, told, renamed, raced, met>>

Nothing == [members |-> {}, cursor |-> [u \in User |-> {}], details |-> {}]

Init ==
    /\ table = [c \in Channel |-> NoRow]
    /\ pc = [q \in Request |-> "idle"]
    /\ op = [q \in Request |-> NoCommand]
    /\ copy = [q \in Request |-> NoRow]
    /\ maker = [c \in Channel |-> NoMaker]
    /\ told = [c \in Channel |-> Nothing]
    /\ renamed = {}
    /\ raced = {}
    /\ met = {}

-----------------------------------------------------------------------------
(* The methods of Channel on a copy w: the set holds the changed copy, and *)
(* is empty when the method returns Result.fail.                           *)

IsMember(w, u) == w.role[u] # "none"

NewMember(w, u, r) == [w EXCEPT !.role[u] = r, !.cursor[u] = {}]

AddMember(w, u) == IF IsMember(w, u) THEN {} ELSE {NewMember(w, u, "MEMBER")}

RemoveMember(w, u) ==
    IF IsMember(w, u) THEN {[w EXCEPT !.role[u] = "none", !.cursor[u] = {}]} ELSE {}

UpdateReadCursor(w, u, q) == IF IsMember(w, u) THEN {[w EXCEPT !.cursor[u] = {q}]} ELSE {}

\* Channel.create: the creator is its owner
Create(n, t, u) ==
    LET w == [name |-> {n}, type |-> t, details |-> {},
              role |-> [v \in User |-> "none"], cursor |-> [v \in User |-> {}]]
    IN NewMember(w, u, "OWNER")

\* GetOrCreateDirectChannelHandler adds the other one, who may be nobody
CreateDirect(u, v) ==
    LET w == Create(PairName(u, v), "DIRECT", u)
    IN IF u = v THEN {w} ELSE AddMember(w, v)

\* SendMessageHandler lets anybody join a public channel; a member's message
\* saves no channel
Join(w, u) == IF w.type = "PUBLIC" THEN AddMember(w, u) ELSE {}

\* what request q, sent with command c, makes of the channel it has found; the
\* set is empty also when the channel is not saved
Execute(c, q, w) ==
    CASE c.kind = "rename"   -> {[w EXCEPT !.name = {c.name}]}
      [] c.kind = "describe" -> {[w EXCEPT !.details = {q}]}
      [] c.kind = "read"     -> UpdateReadCursor(w, c.by, q)
      [] c.kind = "add"      -> IF IsMember(w, c.by) THEN AddMember(w, c.who) ELSE {}
      [] c.kind = "remove"   -> RemoveMember(w, c.who)
      [] c.kind = "post"     -> Join(w, c.by)

-----------------------------------------------------------------------------
(* The repository.                                                         *)

\* Mutant of Written: the member rows are inserted without their cursors.
MutWrittenUnread(w) ==
    [w EXCEPT !.role = [u \in User |-> IF u \in Registered THEN w.role[u] ELSE "none"],
              !.cursor = [u \in User |-> {}]]

\* save inserts the members whose user exists
Written(w) ==
    [w EXCEPT !.role = [u \in User |-> IF u \in Registered THEN w.role[u] ELSE "none"],
              !.cursor = [u \in User |-> IF u \in Registered THEN w.cursor[u] ELSE {}]]

Rows == {c \in Channel : table[c] # NoRow}

Named(n) == {c \in Rows : table[c].name = {n}}

\* Mutant of Visible: the filter asks for membership in public channels too.
MutVisible(u) == {c \in Rows : IsMember(table[c], u)}

\* the channels that findByWorkspaceId returns and counts
Visible(u) == {c \in Rows : table[c].type = "PUBLIC" \/ IsMember(table[c], u)}

-----------------------------------------------------------------------------
(* The controller and the handlers.                                        *)

InFlight == {q \in Request : pc[q] \notin {"idle", "done"}}

Creates(q) == op[q].kind \in {"create", "openDirect", "list"}

Receive(q, c) ==
    /\ pc[q] = "idle"
    /\ c.kind \in {"rename", "describe", "read", "add", "remove", "post"} => c.on \in Rows
    /\ op' = [op EXCEPT ![q] = c]
    /\ IF c.kind = "create"
       THEN /\ copy' = [copy EXCEPT ![q] = Create(c.name, c.type, c.by)]
            /\ pc' = [pc EXCEPT ![q] = "save"]
       ELSE /\ pc' = [pc EXCEPT ![q] = IF c.kind = "openDirect" THEN "findName"
                                       ELSE IF c.kind = "list" THEN "count" ELSE "find"]
            /\ UNCHANGED copy
    /\ met' = met \cup {{q, r} : r \in InFlight}
    /\ UNCHANGED <<table, maker, told, renamed, raced>>

\* the request is answered, well or not
End(q) ==
    /\ pc' = [pc EXCEPT ![q] = "done"]
    /\ op' = [op EXCEPT ![q] = NoCommand]
    /\ copy' = [copy EXCEPT ![q] = NoRow]

\* the copies in W go on to save; with none the request ends
GoOn(q, W) ==
    \/ /\ \E w \in W : copy' = [copy EXCEPT ![q] = w]
       /\ pc' = [pc EXCEPT ![q] = "save"]
       /\ UNCHANGED op
    \/ W = {} /\ End(q)

\* findById makes new member objects, with the role and the cursor of the rows;
\* the method may refuse
Find(q) ==
    /\ pc[q] = "find"
    /\ IF Execute(op[q], q, table[op[q].on]) = {} THEN End(q)
       ELSE /\ copy' = [copy EXCEPT ![q] = table[op[q].on]]
            /\ pc' = [pc EXCEPT ![q] = "save"]
            /\ UNCHANGED op
    /\ UNCHANGED <<table, maker, told, renamed, raced, met>>

\* findByNameAndWorkspaceId; an existing channel of that name is the answer
FindName(q) ==
    LET u == op[q].by  v == op[q].with IN
    /\ pc[q] = "findName"
    /\ GoOn(q, IF Named(PairName(u, v)) = {} THEN CreateDirect(u, v) ELSE {})
    /\ UNCHANGED <<table, maker, told, renamed, raced, met>>

\* findByWorkspaceId of listChannels; a user who sees no channel creates one
Count(q) ==
    LET u == op[q].by IN
    /\ pc[q] = "count"
    /\ GoOn(q, IF Visible(u) = {} THEN {Create(General, "PUBLIC", u)} ELSE {})
    /\ UNCHANGED <<table, maker, told, renamed, raced, met>>

\* what is true of a channel once request q, sent with command c, is saved
Tell(t, c, q) ==
    CASE c.kind = "add"      -> [t EXCEPT !.members = @ \cup {c.who}]
      [] c.kind = "remove"   -> [t EXCEPT !.members = @ \ {c.who}, !.cursor[c.who] = {}]
      [] c.kind = "read"     -> [t EXCEPT !.cursor[c.by] = {q}]
      [] c.kind = "describe" -> [t EXCEPT !.details = {q}]
      [] c.kind = "post"     -> [t EXCEPT !.members = @ \cup {c.by}]
      [] c.kind = "rename"   -> t

\* save of a new channel, under a new id
CommitNew(q) ==
    \E c \in Channel \ Rows :
        /\ table' = [table EXCEPT ![c] = Written(copy[q])]
        /\ maker' = [maker EXCEPT ![c] = [kind |-> op[q].kind, q |-> q, by |-> op[q].by]]
        /\ told' = [told EXCEPT ![c].members = {u \in User : IsMember(copy[q], u)}]
        /\ UNCHANGED <<renamed, raced>>

\* save of the channel that the request has found and changed
CommitChange(q) ==
    LET c == op[q].on IN
    /\ \E w \in Execute(op[q], q, copy[q]) : table' = [table EXCEPT ![c] = Written(w)]
    /\ told' = [told EXCEPT ![c] = Tell(@, op[q], q)]
    /\ renamed' = IF op[q].kind = "rename" THEN renamed \cup {c} ELSE renamed
    /\ raced' = IF copy[q] = table[c] THEN raced ELSE raced \cup {c}
    /\ UNCHANGED maker

Commit(q) ==
    \/ Creates(q) /\ CommitNew(q)
    \/ ~Creates(q) /\ CommitChange(q)

Save(q) ==
    /\ pc[q] = "save"
    /\ Commit(q)
    /\ End(q)
    /\ UNCHANGED met

\* A statement throws or the process dies, the save being applied or not.
Throws(q) ==
    /\ q \in InFlight
    /\ \/ pc[q] = "save" /\ Commit(q)
       \/ UNCHANGED <<table, maker, told, renamed, raced>>
    /\ End(q)
    /\ UNCHANGED met

Next ==
    \E q \in Request :
        \/ \E c \in Command : Receive(q, c)
        \/ Find(q) \/ FindName(q) \/ Count(q) \/ Save(q) \/ Throws(q)

Spec == Init /\ [][Next]_vars

-----------------------------------------------------------------------------

TypeOK ==
    /\ table \in [Channel -> Row \cup {NoRow}]
    /\ pc \in [Request -> {"idle", "find", "findName", "count", "save", "done"}]
    /\ op \in [Request -> Command \cup {NoCommand}]
    /\ copy \in [Request -> Row \cup {NoRow}]
    /\ \A q \in InFlight : op[q] # NoCommand /\ (pc[q] = "save" => copy[q] # NoRow)
    /\ maker \in [Channel -> [kind : {"create", "openDirect", "list"}, q : Request, by : Caller]
                             \cup {NoMaker}]
    /\ told \in [Channel -> [members : SUBSET User, cursor : [User -> SUBSET Request],
                             details : SUBSET Request]]
    /\ renamed \subseteq Channel /\ raced \subseteq Channel
    /\ met \subseteq SUBSET Request

Made(c, kind) == c \in Rows /\ maker[c].kind = kind

\* Two direct channels that openDirect made for one pair and nobody renamed,
\* or two channels that lists made, come from requests that were in flight at
\* the same time.
TwinsOverlapped ==
    \A c, d \in Channel :
        /\ c # d
        /\ \/ Made(c, "list") /\ Made(d, "list")
           \/ /\ Made(c, "openDirect") /\ Made(d, "openDirect")
              /\ {c, d} \cap renamed = {}
              /\ table[c].name = table[d].name
        => {maker[c].q, maker[d].q} \in met

\* A member row that says OWNER belongs to the creator of the channel, however
\* often the rows are rewritten, members leave and come back, and copies are
\* saved late.
OwnerIsTheCreator ==
    \A c \in Rows, u \in User : table[c].role[u] = "OWNER" => u = maker[c].by

\* Unless a save came from a copy left behind, a channel has the members, read
\* cursors and details of the requests that were saved, those who joined it by
\* posting included, except that users without a row never become members.
AnswersHold ==
    \A c \in Rows \ raced :
        /\ {u \in User : IsMember(table[c], u)} = told[c].members \cap Registered
        /\ table[c].cursor = told[c].cursor
        /\ table[c].details = told[c].details
=============================================================================
