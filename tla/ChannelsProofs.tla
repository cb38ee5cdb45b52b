--------------------------- MODULE ChannelsProofs ---------------------------
(***************************************************************************)
(* Channels keeps its types, an OWNER is the creator of the channel, two   *)
(* channels where one was meant come from overlapping creators, and what   *)
(* requests were told holds but for stale saves.  The page of ChatPage     *)
(* leaves all that as it is, and brings who clicks a person to the channel *)
(* of the two.  For any number of users, channels and requests.            *)
(***************************************************************************)
EXTENDS ChatPage, TLAPS

USE RegisteredAssumption, NameAssumption

ChangeKind == {"rename", "describe", "read", "add", "remove", "post"}
CreateKind == {"create", "openDirect", "list"}

-----------------------------------------------------------------------------
(* The inductive invariant of the types.                                   *)

\* A request stands at an await of its command, and a request that changes a
\* channel has found one.
Targets ==
    \A q \in InFlight :
        /\ pc[q] = "findName" => op[q].kind = "openDirect"
        /\ pc[q] = "count" => op[q].kind = "list"
        /\ pc[q] = "find" => op[q].kind \in ChangeKind
        /\ op[q].kind \in ChangeKind => op[q].on \in Rows

\* Every channel has a maker.
Makers == \A c \in Rows : maker[c] # NoMaker

\* Requests in flight have met.
InFlightMet == \A q, r \in InFlight : q # r => {q, r} \in met

TypeInv == TypeOK /\ Targets /\ Makers /\ InFlightMet

\* A command has a kind, a sender and what its kind needs.
LEMMA Commands ==
    ASSUME NEW c \in Command
    PROVE /\ c.kind \in CreateKind \cup ChangeKind
          /\ c.by \in Caller /\ c.by \in Registered /\ c.by \in User
          /\ c.kind \in ChangeKind => c.on \in Channel
          /\ c.kind = "create" => c.name \in Name /\ c.type \in ChannelType
          /\ c.kind = "openDirect" => c.with \in User
          /\ c.kind = "rename" => c.name \in Name
          /\ c.kind \in {"add", "remove"} => c.who \in User
          /\ c # NoCommand
BY DEF Command, CreateKind, ChangeKind, NoCommand

\* A pair has a name.
LEMMA PairNames ==
    ASSUME NEW u \in User, NEW v \in User
    PROVE PairName(u, v) \in Name
BY DEF PairName, Name

\* the copy w with the roles r and the cursors k
Put(w, r, k) == [w EXCEPT !.role = r, !.cursor = k]

\* A copy with other roles and cursors is a channel.
LEMMA PutIs ==
    ASSUME NEW w \in Row, NEW r \in [User -> Role], NEW k \in [User -> SUBSET Request]
    PROVE /\ Put(w, r, k) \in Row
          /\ Put(w, r, k).name = w.name /\ Put(w, r, k).type = w.type
          /\ Put(w, r, k).details = w.details
          /\ Put(w, r, k).role = r /\ Put(w, r, k).cursor = k
BY DEF Put, Row

\* What a channel is made of.
LEMMA RowHas ==
    ASSUME NEW w \in Row
    PROVE w.role \in [User -> Role] /\ w.cursor \in [User -> SUBSET Request]
BY DEF Row

\* What Channel.create makes.
LEMMA CreateIs ==
    ASSUME NEW n \in Name, NEW t \in ChannelType, NEW u \in User
    PROVE /\ Create(n, t, u) \in Row
          /\ Create(n, t, u).name = {n} /\ Create(n, t, u).type = t
          /\ Create(n, t, u).details = {}
          /\ \A v \in User : Create(n, t, u).role[v] = IF v = u THEN "OWNER" ELSE "none"
          /\ \A v \in User : Create(n, t, u).cursor[v] = {}
<1> DEFINE w == [name |-> {n}, type |-> t, details |-> {},
                 role |-> [v \in User |-> "none"], cursor |-> [v \in User |-> {}]]
           r == [w.role EXCEPT ![u] = "OWNER"]
           k == [w.cursor EXCEPT ![u] = {}]
<1>1. Create(n, t, u) = Put(w, r, k)
  BY DEF Create, NewMember, Put
<1>2. w \in Row
  BY DEF Row, Role
<1>3. /\ r \in [User -> Role] /\ \A v \in User : r[v] = IF v = u THEN "OWNER" ELSE "none"
      /\ k \in [User -> SUBSET Request] /\ \A v \in User : k[v] = {}
  BY DEF Role
<1>4. w.name = {n} /\ w.type = t /\ w.details = {}
  OBVIOUS
<1> HIDE DEF w, r, k
<1>5. Create(n, t, u) \in Row /\ Create(n, t, u).name = w.name /\ Create(n, t, u).type = w.type
      /\ Create(n, t, u).details = w.details /\ Create(n, t, u).role = r
      /\ Create(n, t, u).cursor = k
  BY <1>1, <1>2, <1>3, PutIs
<1> QED BY <1>3, <1>4, <1>5

\* Whoever joins gets a row as a member.
LEMMA AddMemberIs ==
    ASSUME NEW w \in Row, NEW u \in User, NEW x \in AddMember(w, u)
    PROVE /\ x \in Row
          /\ x.name = w.name /\ x.type = w.type /\ x.details = w.details
          /\ w.role[u] = "none"
          /\ \A v \in User : x.role[v] = IF v = u THEN "MEMBER" ELSE w.role[v]
          /\ \A v \in User : x.cursor[v] = IF v = u THEN {} ELSE w.cursor[v]
<1> DEFINE r == [w.role EXCEPT ![u] = "MEMBER"]
           k == [w.cursor EXCEPT ![u] = {}]
<1>1. x = Put(w, r, k) /\ w.role[u] = "none"
  BY DEF AddMember, IsMember, NewMember, Put
<1>2. /\ r \in [User -> Role] /\ \A v \in User : r[v] = IF v = u THEN "MEMBER" ELSE w.role[v]
      /\ k \in [User -> SUBSET Request]
      /\ \A v \in User : k[v] = IF v = u THEN {} ELSE w.cursor[v]
  BY RowHas DEF Role
<1> HIDE DEF r, k
<1>3. /\ x \in Row
      /\ x.name = w.name /\ x.type = w.type /\ x.details = w.details /\ x.role = r /\ x.cursor = k
  BY <1>1, <1>2, PutIs
<1> QED BY <1>1, <1>2, <1>3

\* Who leaves has none.
LEMMA RemoveMemberIs ==
    ASSUME NEW w \in Row, NEW u \in User, NEW x \in RemoveMember(w, u)
    PROVE /\ x \in Row
          /\ x.name = w.name /\ x.type = w.type /\ x.details = w.details
          /\ w.role[u] # "none"
          /\ \A v \in User : x.role[v] = IF v = u THEN "none" ELSE w.role[v]
          /\ \A v \in User : x.cursor[v] = IF v = u THEN {} ELSE w.cursor[v]
<1> DEFINE r == [w.role EXCEPT ![u] = "none"]
           k == [w.cursor EXCEPT ![u] = {}]
<1>1. x = Put(w, r, k) /\ w.role[u] # "none"
  BY DEF RemoveMember, IsMember, Put
<1>2. /\ r \in [User -> Role] /\ \A v \in User : r[v] = IF v = u THEN "none" ELSE w.role[v]
      /\ k \in [User -> SUBSET Request]
      /\ \A v \in User : k[v] = IF v = u THEN {} ELSE w.cursor[v]
  BY RowHas DEF Role
<1> HIDE DEF r, k
<1>3. /\ x \in Row
      /\ x.name = w.name /\ x.type = w.type /\ x.details = w.details /\ x.role = r /\ x.cursor = k
  BY <1>1, <1>2, PutIs
<1> QED BY <1>1, <1>2, <1>3

\* Who has read has a cursor,
LEMMA UpdateReadCursorIs ==
    ASSUME NEW w \in Row, NEW u \in User, NEW q \in Request, NEW x \in UpdateReadCursor(w, u, q)
    PROVE /\ w.role[u] # "none"
          /\ x.role = w.role
          /\ \A v \in User : x.cursor[v] = IF v = u THEN {q} ELSE w.cursor[v]
<1>1. x = Put(w, w.role, [w.cursor EXCEPT ![u] = {q}]) /\ w.role[u] # "none"
  BY DEF UpdateReadCursor, IsMember, Put, Row
<1>2. [w.cursor EXCEPT ![u] = {q}] \in [User -> SUBSET Request]
  BY RowHas
<1>3. x.role = w.role /\ x.cursor = [w.cursor EXCEPT ![u] = {q}]
  BY <1>1, <1>2, PutIs, RowHas
<1> QED BY <1>1, <1>3, RowHas

\* and the channel stays what it is.
LEMMA UpdateReadCursorKeeps ==
    ASSUME NEW w \in Row, NEW u \in User, NEW q \in Request, NEW x \in UpdateReadCursor(w, u, q)
    PROVE x \in Row /\ x.name = w.name /\ x.type = w.type /\ x.details = w.details
<1>1. x = Put(w, w.role, [w.cursor EXCEPT ![u] = {q}])
  BY DEF UpdateReadCursor, IsMember, Put, Row
<1>2. [w.cursor EXCEPT ![u] = {q}] \in [User -> SUBSET Request]
  BY RowHas
<1> QED BY <1>1, <1>2, PutIs, RowHas

\* A direct channel has the sender as its owner and is named for the pair.
LEMMA CreateDirectIs ==
    ASSUME NEW u \in User, NEW v \in User, NEW x \in CreateDirect(u, v)
    PROVE /\ x \in Row
          /\ x.name = {PairName(u, v)} /\ x.type = "DIRECT" /\ x.details = {}
          /\ \A y \in User : x.role[y] = "OWNER" => y = u
          /\ \A y \in User : x.cursor[y] = {}
<1> DEFINE w == Create(PairName(u, v), "DIRECT", u)
<1>1. /\ w \in Row
      /\ w.name = {PairName(u, v)} /\ w.type = "DIRECT" /\ w.details = {}
      /\ \A y \in User : w.role[y] = IF y = u THEN "OWNER" ELSE "none"
      /\ \A y \in User : w.cursor[y] = {}
  BY PairNames, CreateIs DEF ChannelType
<1>2. CASE u = v
  BY <1>1, <1>2 DEF CreateDirect
<1>3. CASE u # v
  <2>1. x \in AddMember(w, v)
    BY <1>3 DEF CreateDirect
  <2> HIDE DEF w
  <2> QED BY <1>1, <2>1, AddMemberIs
<1> QED BY <1>2, <1>3

\* A method keeps the copy a channel, and its type.
LEMMA ExecuteKeepsRows ==
    ASSUME NEW c \in Command, c.kind \in ChangeKind, NEW q \in Request, NEW w \in Row,
           NEW x \in Execute(c, q, w)
    PROVE x \in Row /\ x.type = w.type /\ (c.kind # "rename" => x.name = w.name)
<1>1. CASE c.kind = "rename"
  <2>1. x = [w EXCEPT !.name = {c.name}] /\ c.name \in Name
    BY <1>1, Commands DEF Execute
  <2> QED BY <1>1, <2>1 DEF Row
<1>2. CASE c.kind = "describe"
  <2>1. x = [w EXCEPT !.details = {q}]
    BY <1>2 DEF Execute
  <2> QED BY <2>1 DEF Row
<1>3. CASE c.kind = "read"
  <2>1. x \in UpdateReadCursor(w, c.by, q) /\ c.by \in User
    BY <1>3, Commands DEF Execute
  <2> QED BY <2>1, UpdateReadCursorKeeps
<1>4. CASE c.kind = "add"
  <2>1. x \in AddMember(w, c.who) /\ c.who \in User
    BY <1>4, Commands DEF Execute
  <2> QED BY <2>1, AddMemberIs
<1>5. CASE c.kind = "remove"
  <2>1. x \in RemoveMember(w, c.who) /\ c.who \in User
    BY <1>5, Commands DEF Execute
  <2> QED BY <2>1, RemoveMemberIs
<1>6. CASE c.kind = "post"
  <2>1. x \in AddMember(w, c.by) /\ c.by \in User
    BY <1>6, Commands DEF Execute, Join
  <2> QED BY <1>6, <2>1, AddMemberIs
<1> QED BY <1>1, <1>2, <1>3, <1>4, <1>5, <1>6 DEF ChangeKind

\* What save makes of a copy.
LEMMA WrittenIs ==
    ASSUME NEW w \in Row
    PROVE /\ Written(w) \in Row /\ Written(w) # NoRow
          /\ Written(w).name = w.name /\ Written(w).type = w.type
          /\ Written(w).details = w.details
          /\ \A u \in User :
                /\ Written(w).role[u] = IF u \in Registered THEN w.role[u] ELSE "none"
                /\ Written(w).cursor[u] = IF u \in Registered THEN w.cursor[u] ELSE {}
BY DEF Written, Row, Role, NoRow

-----------------------------------------------------------------------------
(* Types.                                                                  *)

\* A request that is over leaves the others as they are.
LEMMA EndIs ==
    ASSUME TypeOK, NEW q \in Request, End(q)
    PROVE /\ pc' \in [Request -> {"idle", "find", "findName", "count", "save", "done"}]
          /\ op' \in [Request -> Command \cup {NoCommand}]
          /\ copy' \in [Request -> Row \cup {NoRow}]
          /\ InFlight' = InFlight \ {q}
          /\ \A r \in InFlight' : pc'[r] = pc[r] /\ op'[r] = op[r] /\ copy'[r] = copy[r]
BY DEF TypeOK, End, InFlight

\* What is known of a request in flight.
LEMMA Flight ==
    ASSUME TypeInv, NEW q \in InFlight
    PROVE /\ q \in Request /\ op[q] \in Command
          /\ pc[q] = "save" => copy[q] \in Row
          /\ op[q].kind \in ChangeKind =>
                op[q].on \in Channel /\ table[op[q].on] # NoRow /\ table[op[q].on] \in Row
          /\ pc[q] = "save" => (~Creates(q) <=> op[q].kind \in ChangeKind)
BY Commands DEF TypeInv, TypeOK, Targets, InFlight, Rows, Creates, CreateKind, ChangeKind

\* What a save writes.
LEMMA CommitIs ==
    ASSUME TypeInv, NEW q \in InFlight, pc[q] = "save", Commit(q)
    PROVE \E c \in Channel, w \in Row :
              /\ table' = [table EXCEPT ![c] = Written(w)]
              /\ \/ /\ Creates(q) /\ c \notin Rows /\ w = copy[q]
                    /\ maker' = [maker EXCEPT ![c] =
                          [kind |-> op[q].kind, q |-> q, by |-> op[q].by]]
                    /\ told' = [told EXCEPT ![c].members = {u \in User : IsMember(copy[q], u)}]
                    /\ UNCHANGED <<renamed, raced>>
                 \/ /\ op[q].kind \in ChangeKind /\ c \in Rows /\ c = op[q].on
                    /\ w \in Execute(op[q], q, copy[q])
                    /\ told' = [told EXCEPT ![c] = Tell(@, op[q], q)]
                    /\ renamed' = IF op[q].kind = "rename" THEN renamed \cup {c} ELSE renamed
                    /\ raced' = IF copy[q] = table[c] THEN raced ELSE raced \cup {c}
                    /\ UNCHANGED maker
<1>1. /\ q \in Request /\ op[q] \in Command /\ copy[q] \in Row
      /\ op[q].kind \in ChangeKind => op[q].on \in Channel /\ op[q].on \in Rows
      /\ ~Creates(q) <=> op[q].kind \in ChangeKind
  BY Flight DEF Rows
<1>2. CASE Creates(q) /\ CommitNew(q)
  <2>1. PICK c \in Channel \ Rows :
          /\ table' = [table EXCEPT ![c] = Written(copy[q])]
          /\ maker' = [maker EXCEPT ![c] = [kind |-> op[q].kind, q |-> q, by |-> op[q].by]]
          /\ told' = [told EXCEPT ![c].members = {u \in User : IsMember(copy[q], u)}]
          /\ UNCHANGED <<renamed, raced>>
    BY <1>2 DEF CommitNew
  <2> QED BY <1>1, <1>2, <2>1
<1>3. CASE ~Creates(q) /\ CommitChange(q)
  <2> DEFINE c == op[q].on
  <2>1. PICK w \in Execute(op[q], q, copy[q]) : table' = [table EXCEPT ![c] = Written(w)]
    BY <1>3 DEF CommitChange
  <2>2. w \in Row
    BY <1>1, <1>3, <2>1, ExecuteKeepsRows
  <2>3. /\ told' = [told EXCEPT ![c] = Tell(@, op[q], q)]
        /\ renamed' = IF op[q].kind = "rename" THEN renamed \cup {c} ELSE renamed
        /\ raced' = IF copy[q] = table[c] THEN raced ELSE raced \cup {c}
        /\ UNCHANGED maker
    BY <1>3 DEF CommitChange
  <2> QED BY <1>1, <1>3, <2>1, <2>2, <2>3
<1> QED BY <1>2, <1>3 DEF Commit

\* What an answer says has the type of what is told.
LEMMA TellKeepsTypes ==
    ASSUME NEW t \in [members : SUBSET User, cursor : [User -> SUBSET Request],
                      details : SUBSET Request],
           NEW c \in Command, c.kind \in ChangeKind, NEW q \in Request
    PROVE Tell(t, c, q) \in [members : SUBSET User, cursor : [User -> SUBSET Request],
                             details : SUBSET Request]
<1>1. CASE c.kind = "add"
  <2>1. Tell(t, c, q) = [t EXCEPT !.members = @ \cup {c.who}] /\ c.who \in User
    BY <1>1, Commands DEF Tell
  <2> QED BY <2>1
<1>2. CASE c.kind = "remove"
  <2>1. Tell(t, c, q) = [t EXCEPT !.members = @ \ {c.who}, !.cursor[c.who] = {}]
        /\ c.who \in User
    BY <1>2, Commands DEF Tell
  <2> DEFINE m == t.members \ {c.who}
             k == [t.cursor EXCEPT ![c.who] = {}]
  <2>2. m \in SUBSET User /\ k \in [User -> SUBSET Request]
    BY <2>1
  <2>3. Tell(t, c, q) = [t EXCEPT !.members = m, !.cursor = k]
    BY <2>1
  <2> HIDE DEF m, k
  <2> QED BY <2>2, <2>3
<1>3. CASE c.kind = "read"
  <2>1. Tell(t, c, q) = [t EXCEPT !.cursor[c.by] = {q}] /\ c.by \in User
    BY <1>3, Commands DEF Tell
  <2> QED BY <2>1
<1>4. CASE c.kind = "describe"
  <2>1. Tell(t, c, q) = [t EXCEPT !.details = {q}]
    BY <1>4 DEF Tell
  <2> QED BY <2>1
<1>5. CASE c.kind = "rename"
  BY <1>5 DEF Tell
<1>6. CASE c.kind = "post"
  <2>1. Tell(t, c, q) = [t EXCEPT !.members = @ \cup {c.by}] /\ c.by \in User
    BY <1>6, Commands DEF Tell
  <2> QED BY <2>1
<1> QED BY <1>1, <1>2, <1>3, <1>4, <1>5, <1>6 DEF ChangeKind

\* What is told of the members has its type.
LEMMA MembersKeepTypes ==
    ASSUME NEW t \in [members : SUBSET User, cursor : [User -> SUBSET Request],
                      details : SUBSET Request],
           NEW m \in SUBSET User
    PROVE [t EXCEPT !.members = m]
              \in [members : SUBSET User, cursor : [User -> SUBSET Request],
                   details : SUBSET Request]
OBVIOUS

\* A save keeps types, channels and their makers.
LEMMA CommitKeepsTypes ==
    ASSUME TypeInv, NEW q \in InFlight, pc[q] = "save", Commit(q)
    PROVE /\ table' \in [Channel -> Row \cup {NoRow}]
          /\ maker' \in [Channel -> [kind : CreateKind, q : Request, by : Caller] \cup {NoMaker}]
          /\ told' \in [Channel -> [members : SUBSET User, cursor : [User -> SUBSET Request],
                                    details : SUBSET Request]]
          /\ renamed' \subseteq Channel /\ raced' \subseteq Channel
          /\ Rows \subseteq Rows'
          /\ \A c \in Rows : maker'[c] = maker[c]
          /\ Makers'
<1> DEFINE Saved(c, w) ==
              \/ /\ Creates(q) /\ c \notin Rows /\ w = copy[q]
                 /\ maker' = [maker EXCEPT ![c] =
                       [kind |-> op[q].kind, q |-> q, by |-> op[q].by]]
                 /\ told' = [told EXCEPT ![c].members = {u \in User : IsMember(copy[q], u)}]
                 /\ UNCHANGED <<renamed, raced>>
              \/ /\ op[q].kind \in ChangeKind /\ c \in Rows /\ c = op[q].on
                 /\ w \in Execute(op[q], q, copy[q])
                 /\ told' = [told EXCEPT ![c] = Tell(@, op[q], q)]
                 /\ renamed' = IF op[q].kind = "rename" THEN renamed \cup {c} ELSE renamed
                 /\ raced' = IF copy[q] = table[c] THEN raced ELSE raced \cup {c}
                 /\ UNCHANGED maker
<1>1. PICK c \in Channel, w \in Row : table' = [table EXCEPT ![c] = Written(w)] /\ Saved(c, w)
  BY CommitIs
<1>2. q \in Request /\ op[q] \in Command /\ op[q].by \in Caller
  BY Flight, Commands
<1>3. Written(w) \in Row /\ Written(w) # NoRow
  BY WrittenIs
<1>4. table' \in [Channel -> Row \cup {NoRow}] /\ Rows' = Rows \cup {c}
  BY <1>1, <1>3 DEF TypeInv, TypeOK, Rows
<1>5. CASE Creates(q) /\ c \notin Rows
  <2>1. /\ maker' = [maker EXCEPT ![c] = [kind |-> op[q].kind, q |-> q, by |-> op[q].by]]
        /\ told' = [told EXCEPT ![c].members = {u \in User : IsMember(copy[q], u)}]
        /\ UNCHANGED <<renamed, raced>>
    BY <1>1, <1>5
  <2>2. [kind |-> op[q].kind, q |-> q, by |-> op[q].by]
            \in [kind : CreateKind, q : Request, by : Caller]
        /\ [kind |-> op[q].kind, q |-> q, by |-> op[q].by] # NoMaker
    BY <1>2, <1>5 DEF Creates, CreateKind, NoMaker
  <2>3. maker' \in [Channel -> [kind : CreateKind, q : Request, by : Caller] \cup {NoMaker}]
    BY <2>1, <2>2 DEF TypeInv, TypeOK, CreateKind
  <2>4. told' \in [Channel -> [members : SUBSET User, cursor : [User -> SUBSET Request],
                               details : SUBSET Request]]
    <3> DEFINE m == {u \in User : IsMember(copy[q], u)}
               x == [told[c] EXCEPT !.members = m]
    <3>1. told' = [told EXCEPT ![c] = x]
      BY <2>1
    <3>2. m \in SUBSET User
      OBVIOUS
    <3> HIDE DEF m
    <3>3. x \in [members : SUBSET User, cursor : [User -> SUBSET Request], details : SUBSET Request]
      <4>1. told[c] \in [members : SUBSET User, cursor : [User -> SUBSET Request],
                         details : SUBSET Request]
        BY DEF TypeInv, TypeOK
      <4> QED BY <3>2, <4>1, MembersKeepTypes
    <3> HIDE DEF x
    <3> QED BY <3>1, <3>3 DEF TypeInv, TypeOK
  <2>5. Makers' /\ \A d \in Rows : maker'[d] = maker[d]
    <3> DEFINE m == [kind |-> op[q].kind, q |-> q, by |-> op[q].by]
    <3>2. maker' = [maker EXCEPT ![c] = m] /\ m # NoMaker
      BY <2>1, <2>2
    <3>3. DOMAIN maker = Channel
      BY DEF TypeInv, TypeOK
    <3> HIDE DEF m
    <3>1. maker'[c] # NoMaker /\ \A d \in Channel \ {c} : maker'[d] = maker[d]
      BY <3>2, <3>3
    <3> QED BY <1>4, <1>5, <3>1 DEF TypeInv, Makers, Rows
  <2> QED BY <1>4, <2>1, <2>3, <2>4, <2>5 DEF TypeInv, TypeOK
<1>6. CASE op[q].kind \in ChangeKind /\ c \in Rows
  <2>1. ~Creates(q)
    BY <1>6 DEF Creates, ChangeKind
  <2>2. /\ told' = [told EXCEPT ![c] = Tell(told[c], op[q], q)]
        /\ renamed' = IF op[q].kind = "rename" THEN renamed \cup {c} ELSE renamed
        /\ raced' = IF copy[q] = table[c] THEN raced ELSE raced \cup {c}
        /\ UNCHANGED maker
    BY <1>1, <2>1
  <2>3. Tell(told[c], op[q], q)
            \in [members : SUBSET User, cursor : [User -> SUBSET Request], details : SUBSET Request]
    BY <1>2, <1>6, TellKeepsTypes DEF TypeInv, TypeOK
  <2>4. told' \in [Channel -> [members : SUBSET User, cursor : [User -> SUBSET Request],
                               details : SUBSET Request]]
    BY <2>2, <2>3 DEF TypeInv, TypeOK
  <2>5. Makers'
    BY <1>4, <1>6, <2>2 DEF TypeInv, Makers
  <2> QED BY <1>4, <2>2, <2>4, <2>5 DEF TypeInv, TypeOK, CreateKind
<1> QED BY <1>1, <1>5, <1>6

\* A request that is neither received nor over leaves the flight as it is.
LEMMA FlightIs ==
    ASSUME TypeOK, NEW q \in InFlight, NEW a \in {"find", "findName", "count", "save"},
           pc' = [pc EXCEPT ![q] = a]
    PROVE /\ InFlight' = InFlight
          /\ pc' \in [Request -> {"idle", "find", "findName", "count", "save", "done"}]
          /\ pc'[q] = a /\ \A r \in InFlight \ {q} : pc'[r] = pc[r]
BY DEF TypeOK, InFlight

\* A copy that a request is about to save is a channel, and nothing else changes.
LEMMA CopyKeepsTypes ==
    ASSUME TypeInv, NEW q \in InFlight, NEW w \in Row, w # NoRow,
           pc' = [pc EXCEPT ![q] = "save"], copy' = [copy EXCEPT ![q] = w],
           UNCHANGED <<table, op, maker, told, renamed, raced, met>>
    PROVE TypeInv'
<1>1. /\ InFlight' = InFlight
      /\ pc' \in [Request -> {"idle", "find", "findName", "count", "save", "done"}]
      /\ pc'[q] = "save" /\ \A r \in InFlight \ {q} : pc'[r] = pc[r]
  BY FlightIs DEF TypeInv
<1>2. /\ copy' \in [Request -> Row \cup {NoRow}]
      /\ copy'[q] = w /\ \A r \in InFlight \ {q} : copy'[r] = copy[r]
  BY DEF TypeInv, TypeOK, InFlight
<1>3. \A r \in InFlight' : op'[r] # NoCommand /\ (pc'[r] = "save" => copy'[r] # NoRow)
  BY <1>1, <1>2 DEF TypeInv, TypeOK
<1>4. TypeOK'
  BY <1>1, <1>2, <1>3 DEF TypeInv, TypeOK
<1>5. Targets'
  BY <1>1 DEF TypeInv, Targets, Rows
<1>6. Makers' /\ InFlightMet'
  BY <1>1 DEF TypeInv, Makers, InFlightMet, Rows
<1> QED BY <1>4, <1>5, <1>6 DEF TypeInv

\* A request that ends without a save changes nothing else.
LEMMA EndKeepsTypes ==
    ASSUME TypeInv, NEW q \in InFlight, End(q),
           UNCHANGED <<table, maker, told, renamed, raced, met>>
    PROVE TypeInv'
<1>1. /\ pc' \in [Request -> {"idle", "find", "findName", "count", "save", "done"}]
      /\ op' \in [Request -> Command \cup {NoCommand}]
      /\ copy' \in [Request -> Row \cup {NoRow}]
      /\ InFlight' \subseteq InFlight
      /\ \A r \in InFlight' : pc'[r] = pc[r] /\ op'[r] = op[r] /\ copy'[r] = copy[r]
  BY EndIs, Flight DEF TypeInv
<1>2. TypeOK'
  BY <1>1 DEF TypeInv, TypeOK
<1>3. Targets'
  BY <1>1 DEF TypeInv, Targets, Rows
<1>4. Makers' /\ InFlightMet'
  BY <1>1 DEF TypeInv, Makers, InFlightMet, Rows
<1> QED BY <1>2, <1>3, <1>4 DEF TypeInv

\* So does one that ends with a save.
LEMMA SaveKeepsTypes ==
    ASSUME TypeInv, NEW q \in InFlight, pc[q] = "save", Commit(q), End(q), UNCHANGED met
    PROVE TypeInv'
<1>1. /\ pc' \in [Request -> {"idle", "find", "findName", "count", "save", "done"}]
      /\ op' \in [Request -> Command \cup {NoCommand}]
      /\ copy' \in [Request -> Row \cup {NoRow}]
      /\ InFlight' \subseteq InFlight
      /\ \A r \in InFlight' : pc'[r] = pc[r] /\ op'[r] = op[r] /\ copy'[r] = copy[r]
  BY EndIs, Flight DEF TypeInv
<1>2. /\ table' \in [Channel -> Row \cup {NoRow}]
      /\ maker' \in [Channel -> [kind : CreateKind, q : Request, by : Caller] \cup {NoMaker}]
      /\ told' \in [Channel -> [members : SUBSET User, cursor : [User -> SUBSET Request],
                                details : SUBSET Request]]
      /\ renamed' \subseteq Channel /\ raced' \subseteq Channel
      /\ Rows \subseteq Rows'
      /\ Makers'
  BY CommitKeepsTypes
<1>3. TypeOK'
  BY <1>1, <1>2 DEF TypeInv, TypeOK, CreateKind
<1>4. Targets'
  BY <1>1, <1>2 DEF TypeInv, Targets
<1>5. InFlightMet'
  BY <1>1 DEF TypeInv, InFlightMet
<1> QED BY <1>2, <1>3, <1>4, <1>5 DEF TypeInv

\* A request that is received has met those in flight.
LEMMA ReceiveKeepsTypes ==
    ASSUME TypeInv, NEW q \in Request, NEW c \in Command, Receive(q, c)
    PROVE TypeInv'
<1>1. /\ c.kind \in CreateKind \cup ChangeKind /\ c # NoCommand
      /\ c.kind = "create" => Create(c.name, c.type, c.by) \in Row
                              /\ Create(c.name, c.type, c.by) # NoRow
  <2>1. \A w \in Row : w # NoRow
    BY DEF Row, NoRow
  <2> QED BY <2>1, Commands, CreateIs
<1>2. /\ pc[q] = "idle" /\ op' = [op EXCEPT ![q] = c]
      /\ met' = met \cup {{q, r} : r \in InFlight}
      /\ UNCHANGED <<table, maker, told, renamed, raced>>
      /\ c.kind \in ChangeKind => c.on \in Rows
  BY DEF Receive, ChangeKind
<1>3. \E a \in {"find", "findName", "count", "save"} :
        /\ pc' = [pc EXCEPT ![q] = a]
        /\ a = "findName" => c.kind = "openDirect"
        /\ a = "count" => c.kind = "list"
        /\ a = "find" => c.kind \in ChangeKind
  BY <1>1 DEF Receive, CreateKind, ChangeKind
<1>4. /\ copy' \in [Request -> Row \cup {NoRow}]
      /\ pc'[q] = "save" => copy'[q] # NoRow
      /\ \A r \in Request \ {q} : copy'[r] = copy[r]
  <2>1. CASE c.kind = "create"
    <3> DEFINE w == Create(c.name, c.type, c.by)
    <3>1. copy' = [copy EXCEPT ![q] = w] /\ w \in Row /\ w # NoRow
      BY <1>1, <2>1 DEF Receive
    <3> HIDE DEF w
    <3> QED BY <3>1 DEF TypeInv, TypeOK
  <2>2. CASE c.kind # "create"
    <3>1. copy' = copy /\ pc'[q] # "save"
      BY <2>2 DEF Receive, TypeInv, TypeOK
    <3> QED BY <3>1 DEF TypeInv, TypeOK
  <2> QED BY <2>1, <2>2
<1>5. /\ pc' \in [Request -> {"idle", "find", "findName", "count", "save", "done"}]
      /\ op' \in [Request -> Command \cup {NoCommand}]
      /\ InFlight' = InFlight \cup {q} /\ q \notin InFlight /\ op'[q] = c
      /\ \A r \in InFlight : pc'[r] = pc[r] /\ op'[r] = op[r]
      /\ pc'[q] = "findName" => c.kind = "openDirect"
      /\ pc'[q] = "count" => c.kind = "list"
      /\ pc'[q] = "find" => c.kind \in ChangeKind
  BY <1>2, <1>3 DEF TypeInv, TypeOK, InFlight
<1>6. \A r \in InFlight : copy'[r] = copy[r] /\ r \in Request
  BY <1>4, <1>5 DEF InFlight
<1>7. TypeOK'
  <2>1. \A r \in InFlight' : op'[r] # NoCommand /\ (pc'[r] = "save" => copy'[r] # NoRow)
    BY <1>1, <1>4, <1>5, <1>6 DEF TypeInv, TypeOK
  <2>2. met' \subseteq SUBSET Request
    BY <1>2 DEF TypeInv, TypeOK, InFlight
  <2> QED BY <1>2, <1>4, <1>5, <2>1, <2>2 DEF TypeInv, TypeOK
<1>8. Targets'
  BY <1>2, <1>5 DEF TypeInv, Targets, Rows
<1>9. InFlightMet'
  BY <1>2, <1>5 DEF TypeInv, InFlightMet
<1>10. Makers'
  BY <1>2 DEF TypeInv, Makers, Rows
<1> QED BY <1>7, <1>8, <1>9, <1>10 DEF TypeInv

\* What the actions of a request in flight are: it goes on to save a copy, it
\* ends, or it saves and ends.
LEMMA StepIs ==
    ASSUME TypeInv, NEW q \in Request,
           Find(q) \/ FindName(q) \/ Count(q) \/ Save(q) \/ Throws(q)
    PROVE /\ q \in InFlight /\ UNCHANGED met
          /\ \/ End(q) /\ UNCHANGED <<table, maker, told, renamed, raced>>
             \/ End(q) /\ pc[q] = "save" /\ Commit(q)
             \/ /\ UNCHANGED <<table, op, maker, told, renamed, raced>>
                /\ pc' = [pc EXCEPT ![q] = "save"]
                /\ \/ /\ op[q].kind \in ChangeKind /\ op[q].on \in Channel
                      /\ table[op[q].on] \in Row
                      /\ copy' = [copy EXCEPT ![q] = table[op[q].on]]
                   \/ /\ op[q].kind = "openDirect"
                      /\ Named(PairName(op[q].by, op[q].with)) = {}
                      /\ \E w \in CreateDirect(op[q].by, op[q].with) :
                            copy' = [copy EXCEPT ![q] = w]
                   \/ /\ op[q].kind = "list" /\ Visible(op[q].by) = {}
                      /\ copy' = [copy EXCEPT ![q] = Create(General, "PUBLIC", op[q].by)]
<1>1. CASE Find(q)
  <2>1. q \in InFlight /\ op[q].kind \in ChangeKind
    BY <1>1 DEF Find, InFlight, TypeInv, Targets
  <2>2. op[q].on \in Channel /\ table[op[q].on] \in Row
    BY <2>1, Flight
  <2> QED BY <1>1, <2>1, <2>2 DEF Find, End
<1>2. CASE FindName(q)
  <2>1. q \in InFlight /\ op[q].kind = "openDirect"
    BY <1>2 DEF FindName, InFlight, TypeInv, Targets
  <2> QED BY <1>2, <2>1 DEF FindName, GoOn
<1>3. CASE Count(q)
  <2>1. q \in InFlight /\ op[q].kind = "list"
    BY <1>3 DEF Count, InFlight, TypeInv, Targets
  <2> QED BY <1>3, <2>1 DEF Count, GoOn
<1>4. CASE Save(q)
  BY <1>4 DEF Save, InFlight
<1>5. CASE Throws(q)
  BY <1>5 DEF Throws
<1> QED BY <1>1, <1>2, <1>3, <1>4, <1>5

\* No command has been received.
LEMMA TypesInit == Init => TypeInv
<1> SUFFICES ASSUME Init PROVE TypeInv
  OBVIOUS
<1>1. InFlight = {} /\ Rows = {}
  BY DEF Init, InFlight, Rows
<1>2. TypeOK
  BY <1>1 DEF Init, TypeOK, Nothing
<1> QED BY <1>1, <1>2 DEF TypeInv, Targets, Makers, InFlightMet

\* Every action keeps types.
LEMMA TypesStep == TypeInv /\ [Next]_vars => TypeInv'
<1> SUFFICES ASSUME TypeInv, [Next]_vars PROVE TypeInv'
  OBVIOUS
<1>1. CASE UNCHANGED vars
  BY <1>1 DEF vars, TypeInv, TypeOK, Targets, Makers, InFlightMet, InFlight, Rows
<1>2. CASE \E q \in Request, c \in Command : Receive(q, c)
  BY <1>2, ReceiveKeepsTypes
<1>3. ASSUME NEW q \in Request, Find(q) \/ FindName(q) \/ Count(q) \/ Save(q) \/ Throws(q)
      PROVE TypeInv'
  <2>1. q \in InFlight /\ UNCHANGED met
    BY <1>3, StepIs
  <2>2. CASE End(q) /\ UNCHANGED <<table, maker, told, renamed, raced>>
    BY <2>1, <2>2, EndKeepsTypes
  <2>3. CASE End(q) /\ pc[q] = "save" /\ Commit(q)
    BY <2>1, <2>3, SaveKeepsTypes
  <2>4. CASE /\ UNCHANGED <<table, op, maker, told, renamed, raced>>
             /\ pc' = [pc EXCEPT ![q] = "save"]
             /\ \E w \in Row : copy' = [copy EXCEPT ![q] = w]
    <3>1. \A w \in Row : w # NoRow
      BY DEF Row, NoRow
    <3> QED BY <2>1, <2>4, <3>1, CopyKeepsTypes
  <2>5. op[q] \in Command /\ op[q].by \in User
        /\ (op[q].kind = "openDirect" => op[q].with \in User)
    BY <2>1, Flight, Commands
  <2>6. General \in Name /\ "PUBLIC" \in ChannelType
    BY DEF General, Name, ChannelType
  <2>7. Create(General, "PUBLIC", op[q].by) \in Row
    BY <2>5, <2>6, CreateIs
  <2>8. op[q].kind = "openDirect" => CreateDirect(op[q].by, op[q].with) \subseteq Row
    BY <2>5, CreateDirectIs
  <2> QED BY <1>3, <2>2, <2>3, <2>4, <2>7, <2>8, StepIs
<1> QED BY <1>1, <1>2, <1>3 DEF Next

\* The variables keep their types.
THEOREM TypeCorrect == Spec => []TypeOK
<1>1. Init => TypeInv
  BY TypesInit
<1>2. TypeInv /\ [Next]_vars => TypeInv'
  BY TypesStep
<1>3. TypeInv => TypeOK
  BY DEF TypeInv
<1> QED BY <1>1, <1>2, <1>3, PTL DEF Spec

-----------------------------------------------------------------------------
(* What a step does for the requests at save.                              *)

\* Request r stands at save with the copy it had.
Kept(r) == r \in InFlight /\ pc[r] = "save" /\ op'[r] = op[r] /\ copy'[r] = copy[r]

\* Request r has come to save, with the copy of its command.
Begun(r) ==
    LET c == op'[r] IN
    \/ c.kind = "create" /\ copy'[r] = Create(c.name, c.type, c.by)
    \/ c.kind \in ChangeKind /\ c.on \in Rows /\ copy'[r] = table[c.on]
    \/ /\ c.kind = "openDirect" /\ Named(PairName(c.by, c.with)) = {}
       /\ copy'[r] \in CreateDirect(c.by, c.with)
    \/ /\ c.kind = "list" /\ Visible(c.by) = {}
       /\ copy'[r] = Create(General, "PUBLIC", c.by)

Quiet ==
    /\ UNCHANGED <<table, maker, told, renamed, raced>>
    /\ met \subseteq met'
    /\ \A r \in InFlight' : pc'[r] = "save" => op'[r] \in Command /\ (Kept(r) \/ Begun(r))

Saves(q) ==
    /\ pc[q] = "save" /\ Commit(q)
    /\ UNCHANGED met
    /\ InFlight' = InFlight \ {q}
    /\ \A r \in InFlight' : pc'[r] = "save" => op'[r] \in Command /\ Kept(r)

\* A step that does not save leaves the channels and the copies at save.
LEMMA Moves ==
    ASSUME TypeInv, TypeInv', [Next]_vars
    PROVE Quiet \/ \E q \in InFlight : Saves(q)
<1>1. \A r \in InFlight' : op'[r] \in Command
  BY DEF TypeInv, TypeOK, InFlight
<1>2. CASE UNCHANGED vars
  BY <1>1, <1>2 DEF vars, Quiet, Kept, InFlight
<1>3. ASSUME NEW q \in Request, NEW c \in Command, Receive(q, c)
      PROVE Quiet
  <2>1. /\ pc[q] = "idle" /\ op' = [op EXCEPT ![q] = c]
        /\ met \subseteq met'
        /\ UNCHANGED <<table, maker, told, renamed, raced>>
    BY <1>3 DEF Receive
  <2>2. op'[q] = c /\ \A r \in Request \ {q} : op'[r] = op[r]
    BY <2>1 DEF TypeInv, TypeOK
  <2>3. pc'[q] = "save" =>
          c.kind = "create" /\ copy' = [copy EXCEPT ![q] = Create(c.name, c.type, c.by)]
    BY <1>3 DEF Receive, TypeInv, TypeOK
  <2>4. \A r \in Request \ {q} : copy'[r] = copy[r] /\ pc'[r] = pc[r]
    BY <1>3 DEF Receive, TypeInv, TypeOK
  <2>5. pc'[q] = "save" => Begun(q)
    BY <2>2, <2>3 DEF Begun, TypeInv, TypeOK
  <2>6. \A r \in InFlight' \ {q} : pc'[r] = "save" => Kept(r)
    BY <2>2, <2>4 DEF Kept, InFlight
  <2> QED BY <1>1, <2>1, <2>5, <2>6 DEF Quiet
<1>4. ASSUME NEW q \in Request, Find(q) \/ FindName(q) \/ Count(q) \/ Save(q) \/ Throws(q)
      PROVE Quiet \/ \E p \in InFlight : Saves(p)
  <2>1. q \in InFlight /\ UNCHANGED met
    BY <1>4, StepIs
  <2>2. ASSUME End(q)
        PROVE /\ InFlight' = InFlight \ {q}
              /\ \A r \in InFlight' : pc'[r] = "save" => Kept(r)
    <3>1. /\ InFlight' = InFlight \ {q}
          /\ \A r \in InFlight' : pc'[r] = pc[r] /\ op'[r] = op[r] /\ copy'[r] = copy[r]
      BY <2>1, <2>2, EndIs, Flight DEF TypeInv
    <3> QED BY <3>1 DEF Kept
  <2>3. CASE End(q) /\ UNCHANGED <<table, maker, told, renamed, raced>>
    BY <1>1, <2>1, <2>2, <2>3 DEF Quiet
  <2>4. CASE End(q) /\ pc[q] = "save" /\ Commit(q)
    BY <1>1, <2>1, <2>2, <2>4 DEF Saves
  <2>5. ASSUME NEW w,
               /\ UNCHANGED <<table, op, maker, told, renamed, raced>>
               /\ pc' = [pc EXCEPT ![q] = "save"]
               /\ copy' = [copy EXCEPT ![q] = w],
               \/ op[q].kind \in ChangeKind /\ op[q].on \in Rows /\ w = table[op[q].on]
               \/ /\ op[q].kind = "openDirect"
                  /\ Named(PairName(op[q].by, op[q].with)) = {}
                  /\ w \in CreateDirect(op[q].by, op[q].with)
               \/ /\ op[q].kind = "list" /\ Visible(op[q].by) = {}
                  /\ w = Create(General, "PUBLIC", op[q].by)
        PROVE Quiet
    <3>1. /\ InFlight' = InFlight
          /\ \A r \in InFlight \ {q} : pc'[r] = pc[r]
      BY <2>1, <2>5, FlightIs DEF TypeInv
    <3>2. copy'[q] = w /\ \A r \in InFlight \ {q} : copy'[r] = copy[r]
      BY <2>1, <2>5 DEF TypeInv, TypeOK, InFlight
    <3>3. Begun(q)
      BY <2>5, <3>2 DEF Begun
    <3>4. \A r \in InFlight' \ {q} : pc'[r] = "save" => Kept(r)
      BY <2>5, <3>1, <3>2 DEF Kept
    <3> QED BY <1>1, <2>1, <2>5, <3>3, <3>4 DEF Quiet
  <2>6. op[q].kind \in ChangeKind => op[q].on \in Rows
    BY <2>1, Flight DEF Rows
  <2> QED BY <1>4, <2>3, <2>4, <2>5, <2>6, StepIs
<1> QED BY <1>2, <1>3, <1>4 DEF Next

-----------------------------------------------------------------------------
(* The owner of a channel.                                                 *)

\* A copy at save has no owner but the one who creates, or has created, the
\* channel.
Owners ==
    \A q \in InFlight :
        pc[q] = "save" =>
            \A u \in User :
                copy[q].role[u] = "OWNER"
                    => u = IF Creates(q) THEN op[q].by ELSE maker[op[q].on].by

\* No method makes a member an owner.
LEMMA ExecuteMakesNoOwner ==
    ASSUME NEW c \in Command, c.kind \in ChangeKind, NEW q \in Request, NEW w \in Row,
           NEW x \in Execute(c, q, w), NEW u \in User, x.role[u] = "OWNER"
    PROVE w.role[u] = "OWNER"
<1>1. CASE c.kind \in {"rename", "describe"}
  <2>1. x = [w EXCEPT !.name = {c.name}] \/ x = [w EXCEPT !.details = {q}]
    BY <1>1 DEF Execute
  <2> QED BY <2>1 DEF Row
<1>2. CASE c.kind = "read"
  <2>1. x \in UpdateReadCursor(w, c.by, q) /\ c.by \in User
    BY <1>2, Commands DEF Execute
  <2>2. x.role = w.role
    BY <2>1 DEF UpdateReadCursor, Row
  <2> QED BY <2>2
<1>3. CASE c.kind = "add"
  <2>1. x \in AddMember(w, c.who) /\ c.who \in User
    BY <1>3, Commands DEF Execute
  <2> QED BY <2>1, AddMemberIs
<1>4. CASE c.kind = "remove"
  <2>1. x \in RemoveMember(w, c.who) /\ c.who \in User
    BY <1>4, Commands DEF Execute
  <2> QED BY <2>1, RemoveMemberIs
<1>5. CASE c.kind = "post"
  <2>1. x \in AddMember(w, c.by) /\ c.by \in User
    BY <1>5, Commands DEF Execute, Join
  <2> QED BY <2>1, AddMemberIs
<1> QED BY <1>1, <1>2, <1>3, <1>4, <1>5 DEF ChangeKind

\* A step without a save makes no owner.
LEMMA QuietKeepsOwners ==
    ASSUME TypeInv, TypeInv', Quiet, OwnerIsTheCreator, Owners
    PROVE OwnerIsTheCreator' /\ Owners'
<1>1. OwnerIsTheCreator'
  BY DEF Quiet, OwnerIsTheCreator, Rows
<1>2. ASSUME NEW q \in InFlight', pc'[q] = "save", NEW u \in User, copy'[q].role[u] = "OWNER"
      PROVE u = IF Creates(q)' THEN op'[q].by ELSE maker'[op'[q].on].by
  <2>1. op'[q] \in Command /\ (Kept(q) \/ Begun(q)) /\ maker' = maker
    BY <1>2 DEF Quiet
  <2>2. CASE Kept(q)
    BY <1>2, <2>1, <2>2 DEF Kept, Owners, Creates
  <2>3. CASE op'[q].kind = "create" /\ Begun(q)
    <3>1. copy'[q] = Create(op'[q].name, op'[q].type, op'[q].by)
      BY <2>3 DEF Begun, ChangeKind
    <3> QED BY <1>2, <2>1, <2>3, <3>1, CreateIs, Commands DEF Creates
  <2>4. CASE op'[q].kind = "list" /\ Begun(q)
    <3>1. copy'[q] = Create(General, "PUBLIC", op'[q].by)
      BY <2>4 DEF Begun, ChangeKind
    <3>2. General \in Name /\ "PUBLIC" \in ChannelType
      BY DEF General, Name, ChannelType
    <3> QED BY <1>2, <2>1, <2>4, <3>1, <3>2, CreateIs, Commands DEF Creates
  <2>5. CASE op'[q].kind = "openDirect" /\ Begun(q)
    <3>1. copy'[q] \in CreateDirect(op'[q].by, op'[q].with)
      BY <2>5 DEF Begun, ChangeKind
    <3> QED BY <1>2, <2>1, <2>5, <3>1, CreateDirectIs, Commands DEF Creates
  <2>6. CASE op'[q].kind \in ChangeKind /\ Begun(q)
    <3>1. op'[q].on \in Rows /\ copy'[q] = table[op'[q].on]
      BY <2>6 DEF Begun, ChangeKind
    <3> QED BY <1>2, <2>1, <2>6, <3>1 DEF OwnerIsTheCreator, Creates, ChangeKind
  <2> QED BY <2>1, <2>2, <2>3, <2>4, <2>5, <2>6 DEF Begun
<1> QED BY <1>1, <1>2 DEF Owners

\* Neither does a save.
LEMMA SavesKeepsOwners ==
    ASSUME TypeInv, TypeInv', NEW q \in InFlight, Saves(q), OwnerIsTheCreator, Owners
    PROVE OwnerIsTheCreator' /\ Owners'
<1> DEFINE Saved(c, w) ==
              \/ /\ Creates(q) /\ c \notin Rows /\ w = copy[q]
                 /\ maker' = [maker EXCEPT ![c] =
                       [kind |-> op[q].kind, q |-> q, by |-> op[q].by]]
              \/ /\ op[q].kind \in ChangeKind /\ c \in Rows /\ c = op[q].on
                 /\ w \in Execute(op[q], q, copy[q])
                 /\ UNCHANGED maker
<1>1. pc[q] = "save" /\ Commit(q) /\ q \in Request /\ op[q] \in Command /\ copy[q] \in Row
  BY Flight DEF Saves
<1>2. PICK c \in Channel, w \in Row : table' = [table EXCEPT ![c] = Written(w)] /\ Saved(c, w)
  BY <1>1, CommitIs
<1>3. \A d \in Rows : maker'[d] = maker[d]
  BY <1>1, CommitKeepsTypes
<1>4. Rows' = Rows \cup {c} /\ table'[c] = Written(w) /\ \A d \in Channel \ {c} : table'[d] = table[d]
  BY <1>2, WrittenIs DEF TypeInv, TypeOK, Rows
<1>5. ASSUME NEW u \in User, w.role[u] = "OWNER"
      PROVE u = maker'[c].by
  <2>1. CASE Creates(q) /\ c \notin Rows
    <3>1. w = copy[q] /\ maker'[c].by = op[q].by
      BY <1>2, <2>1 DEF TypeInv, TypeOK
    <3> QED BY <1>1, <1>5, <2>1, <3>1 DEF Owners
  <2>2. CASE op[q].kind \in ChangeKind /\ c \in Rows
    <3>1. /\ ~Creates(q) /\ c = op[q].on /\ w \in Execute(op[q], q, copy[q])
          /\ maker' = maker
      BY <1>2, <2>2 DEF Creates, ChangeKind
    <3>2. copy[q].role[u] = "OWNER"
      BY <1>1, <1>5, <2>2, <3>1, ExecuteMakesNoOwner
    <3> QED BY <1>1, <3>1, <3>2 DEF Owners
  <2> QED BY <1>2, <2>1, <2>2
<1>6. OwnerIsTheCreator'
  <2>1. ASSUME NEW d \in Rows', NEW u \in User, table'[d].role[u] = "OWNER"
        PROVE u = maker'[d].by
    <3>1. CASE d = c
      <4>1. w.role[u] = "OWNER"
        BY <1>4, <2>1, <3>1, WrittenIs
      <4> QED BY <1>5, <3>1, <4>1
    <3>2. CASE d # c
      BY <1>3, <1>4, <2>1, <3>2 DEF OwnerIsTheCreator, Rows
    <3> QED BY <3>1, <3>2
  <2> QED BY <2>1 DEF OwnerIsTheCreator
<1>7. ASSUME NEW r \in InFlight', pc'[r] = "save", NEW u \in User, copy'[r].role[u] = "OWNER"
      PROVE u = IF Creates(r)' THEN op'[r].by ELSE maker'[op'[r].on].by
  <2>1. Kept(r)
    BY <1>7 DEF Saves
  <2>2. CASE Creates(r)
    BY <1>7, <2>1, <2>2 DEF Kept, Owners, Creates
  <2>3. CASE ~Creates(r)
    <3>1. op[r].on \in Rows
      BY <2>1, <2>3, Flight DEF Kept, Rows
    <3> QED BY <1>3, <1>7, <2>1, <2>3, <3>1 DEF Kept, Owners, Creates
  <2> QED BY <2>2, <2>3
<1> QED BY <1>6, <1>7 DEF Owners

\* A member row that says OWNER belongs to the creator of the channel.
THEOREM OwnerRowIsTheCreators == Spec => []OwnerIsTheCreator
<1> DEFINE Inv == TypeInv /\ OwnerIsTheCreator /\ Owners
<1>1. Init => Inv
  <2>1. Init => InFlight = {} /\ Rows = {}
    BY DEF Init, InFlight, Rows
  <2> QED BY <2>1, TypesInit DEF OwnerIsTheCreator, Owners
<1>2. Inv /\ [Next]_vars => Inv'
  BY TypesStep, Moves, QuietKeepsOwners, SavesKeepsOwners
<1>3. Inv => OwnerIsTheCreator
  OBVIOUS
<1> QED BY <1>1, <1>2, <1>3, PTL DEF Spec

-----------------------------------------------------------------------------
(* Twins.                                                                  *)

\* The channels that lists make are public.
ListsArePublic == \A c \in Rows : maker[c].kind = "list" => table[c].type = "PUBLIC"

\* A copy at save has the type of its channel, and the name unless somebody
\* has renamed the channel.
Likeness ==
    \A q \in InFlight :
        pc[q] = "save" =>
            /\ op[q].kind = "list" => copy[q].type = "PUBLIC"
            /\ op[q].kind \in ChangeKind =>
                  /\ copy[q].type = table[op[q].on].type
                  /\ op[q].on \notin renamed => copy[q].name = table[op[q].on].name

\* A request that is about to create a channel has met the makers of those
\* which it would have found.
Meetings ==
    \A q \in InFlight, d \in Rows :
        pc[q] = "save" =>
            /\ op[q].kind = "list" /\ maker[d].kind = "list" => {q, maker[d].q} \in met
            /\ /\ op[q].kind = "openDirect" /\ maker[d].kind = "openDirect"
               /\ d \notin renamed /\ table[d].name = copy[q].name
               => {q, maker[d].q} \in met

TwinInv == TwinsOverlapped /\ ListsArePublic /\ Likeness /\ Meetings

\* Without a save no channel gets a twin.
LEMMA QuietKeepsTwins ==
    ASSUME TypeInv, TypeInv', Quiet, TwinInv
    PROVE TwinInv'
<1>1. UNCHANGED <<table, maker, renamed>> /\ met \subseteq met'
  BY DEF Quiet
<1>2. TwinsOverlapped' /\ ListsArePublic'
  BY <1>1 DEF TwinInv, TwinsOverlapped, ListsArePublic, Made, Rows
<1>3. ASSUME NEW q \in InFlight', pc'[q] = "save"
      PROVE /\ op'[q].kind = "list" => copy'[q].type = "PUBLIC"
            /\ op'[q].kind \in ChangeKind =>
                  /\ copy'[q].type = table[op'[q].on].type
                  /\ op'[q].on \notin renamed => copy'[q].name = table[op'[q].on].name
  <2>1. op'[q] \in Command /\ (Kept(q) \/ Begun(q))
    BY <1>3 DEF Quiet
  <2>2. CASE Kept(q)
    BY <2>2 DEF Kept, TwinInv, Likeness
  <2>3. CASE op'[q].kind = "list" /\ Begun(q)
    <3>1. copy'[q] = Create(General, "PUBLIC", op'[q].by)
      BY <2>3 DEF Begun, ChangeKind
    <3>2. General \in Name /\ "PUBLIC" \in ChannelType /\ op'[q].by \in User
      BY <2>1, Commands DEF General, Name, ChannelType
    <3>3. copy'[q].type = "PUBLIC"
      BY <3>1, <3>2, CreateIs
    <3> QED BY <2>3, <3>3 DEF ChangeKind
  <2>4. CASE op'[q].kind \in ChangeKind /\ Begun(q)
    BY <2>4 DEF Begun, ChangeKind
  <2> QED BY <2>1, <2>2, <2>3, <2>4 DEF Begun, ChangeKind
<1>4. ASSUME NEW q \in InFlight', pc'[q] = "save", NEW d \in Rows
      PROVE /\ op'[q].kind = "list" /\ maker[d].kind = "list" => {q, maker[d].q} \in met
            /\ /\ op'[q].kind = "openDirect" /\ maker[d].kind = "openDirect"
               /\ d \notin renamed /\ table[d].name = copy'[q].name
               => {q, maker[d].q} \in met
  <2>1. op'[q] \in Command /\ (Kept(q) \/ Begun(q))
    BY <1>4 DEF Quiet
  <2>2. CASE Kept(q)
    BY <1>4, <2>2 DEF Kept, TwinInv, Meetings
  <2>3. CASE op'[q].kind = "list" /\ Begun(q)
    <3>1. Visible(op'[q].by) = {}
      BY <2>3 DEF Begun, ChangeKind
    <3>2. maker[d].kind # "list"
      BY <1>4, <3>1 DEF Visible, TwinInv, ListsArePublic
    <3> QED BY <2>3, <3>2
  <2>4. CASE op'[q].kind = "openDirect" /\ Begun(q)
    <3> DEFINE n == PairName(op'[q].by, op'[q].with)
    <3>1. Named(n) = {} /\ copy'[q] \in CreateDirect(op'[q].by, op'[q].with)
      BY <2>4 DEF Begun, ChangeKind
    <3>2. copy'[q].name = {n}
      BY <2>1, <2>4, <3>1, Commands, CreateDirectIs
    <3>3. table[d].name # copy'[q].name
      BY <1>4, <3>1, <3>2 DEF Named
    <3> QED BY <2>4, <3>3
  <2> QED BY <2>1, <2>2, <2>3, <2>4 DEF Begun, ChangeKind
<1>5. Likeness'
  BY <1>1, <1>3 DEF Likeness
<1>6. Meetings'
  BY <1>1, <1>4 DEF Meetings, Rows
<1> QED BY <1>2, <1>5, <1>6 DEF TwinInv

\* What a save does to the names, types and makers.
LEMMA SavesIs ==
    ASSUME TypeInv, NEW q \in InFlight, Saves(q), TwinInv
    PROVE /\ renamed \subseteq renamed'
          /\ Rows \subseteq Rows'
          /\ \A d \in Rows :
                /\ maker'[d] = maker[d] /\ table'[d].type = table[d].type
                /\ d \notin renamed' => table'[d].name = table[d].name
          /\ \A c, d \in Rows' \ Rows : c = d
          /\ \A c \in Rows' \ Rows :
                /\ maker'[c].kind = op[q].kind /\ maker'[c].q = q
                /\ table'[c].type = copy[q].type /\ table'[c].name = copy[q].name
<1> DEFINE Saved(c, w) ==
              \/ /\ Creates(q) /\ c \notin Rows /\ w = copy[q]
                 /\ maker' = [maker EXCEPT ![c] =
                       [kind |-> op[q].kind, q |-> q, by |-> op[q].by]]
                 /\ renamed' = renamed
              \/ /\ op[q].kind \in ChangeKind /\ c \in Rows /\ c = op[q].on
                 /\ w \in Execute(op[q], q, copy[q])
                 /\ renamed' = IF op[q].kind = "rename" THEN renamed \cup {c} ELSE renamed
                 /\ UNCHANGED maker
<1>1. pc[q] = "save" /\ Commit(q) /\ q \in Request /\ op[q] \in Command /\ copy[q] \in Row
  BY Flight DEF Saves
<1>2. PICK c \in Channel, w \in Row : table' = [table EXCEPT ![c] = Written(w)] /\ Saved(c, w)
  BY <1>1, CommitIs
<1>3. \A d \in Rows : maker'[d] = maker[d]
  BY <1>1, CommitKeepsTypes
<1>4. Rows' = Rows \cup {c} /\ table'[c] = Written(w) /\ \A d \in Channel \ {c} : table'[d] = table[d]
  BY <1>2, WrittenIs DEF TypeInv, TypeOK, Rows
<1>5. table'[c].name = w.name /\ table'[c].type = w.type
  BY <1>4, WrittenIs
<1>6. CASE Creates(q) /\ c \notin Rows
  <2>1. w = copy[q] /\ renamed' = renamed /\ maker'[c].kind = op[q].kind /\ maker'[c].q = q
    BY <1>2, <1>6 DEF TypeInv, TypeOK
  <2>2. \A d \in Rows : d \in Channel \ {c}
    BY <1>6 DEF Rows
  <2> QED BY <1>3, <1>4, <1>5, <1>6, <2>1, <2>2
<1>7. CASE op[q].kind \in ChangeKind /\ c \in Rows
  <2>1. /\ ~Creates(q) /\ c = op[q].on /\ w \in Execute(op[q], q, copy[q])
        /\ renamed' = IF op[q].kind = "rename" THEN renamed \cup {c} ELSE renamed
    BY <1>2, <1>7 DEF Creates, ChangeKind
  <2>2. w.type = copy[q].type /\ (op[q].kind # "rename" => w.name = copy[q].name)
    BY <1>1, <1>7, <2>1, ExecuteKeepsRows
  <2>3. copy[q].type = table[c].type /\ (c \notin renamed => copy[q].name = table[c].name)
    BY <1>1, <1>7, <2>1 DEF TwinInv, Likeness
  <2>4. table'[c].type = table[c].type /\ (c \notin renamed' => table'[c].name = table[c].name)
    BY <1>5, <2>1, <2>2, <2>3
  <2> QED BY <1>3, <1>4, <1>7, <2>1, <2>4 DEF Rows
<1> QED BY <1>2, <1>6, <1>7

\* A new channel is no twin of one whose maker it has not met.
LEMMA SavesKeepsTwins ==
    ASSUME TypeInv, TypeInv', NEW q \in InFlight, Saves(q), TwinInv
    PROVE TwinInv'
<1>1. /\ renamed \subseteq renamed'
      /\ Rows \subseteq Rows'
      /\ \A d \in Rows :
            /\ maker'[d] = maker[d] /\ table'[d].type = table[d].type
            /\ d \notin renamed' => table'[d].name = table[d].name
      /\ \A c, d \in Rows' \ Rows : c = d
      /\ \A c \in Rows' \ Rows :
            /\ maker'[c].kind = op[q].kind /\ maker'[c].q = q
            /\ table'[c].type = copy[q].type /\ table'[c].name = copy[q].name
  BY SavesIs
<1>2. pc[q] = "save" /\ met' = met /\ InFlight' = InFlight \ {q}
      /\ \A r \in InFlight' : pc'[r] = "save" => Kept(r)
  BY DEF Saves
<1>3. ListsArePublic'
  BY <1>1, <1>2 DEF TwinInv, ListsArePublic, Likeness
<1>4. Likeness'
  <2>1. ASSUME NEW r \in InFlight', pc'[r] = "save", op'[r].kind \in ChangeKind
        PROVE /\ copy'[r].type = table'[op'[r].on].type
              /\ op'[r].on \notin renamed' => copy'[r].name = table'[op'[r].on].name
    <3>1. Kept(r)
      BY <1>2, <2>1
    <3>2. op[r].on \in Rows
      BY <2>1, <3>1, Flight DEF Kept, Rows
    <3> QED BY <1>1, <2>1, <3>1, <3>2 DEF Kept, TwinInv, Likeness
  <2>2. ASSUME NEW r \in InFlight', pc'[r] = "save", op'[r].kind = "list"
        PROVE copy'[r].type = "PUBLIC"
    BY <1>2, <2>2 DEF Kept, TwinInv, Likeness
  <2> QED BY <2>1, <2>2 DEF Likeness
<1>5. Meetings'
  <2>1. ASSUME NEW r \in InFlight', pc'[r] = "save", NEW d \in Rows',
               \/ op'[r].kind = "list" /\ maker'[d].kind = "list"
               \/ /\ op'[r].kind = "openDirect" /\ maker'[d].kind = "openDirect"
                  /\ d \notin renamed' /\ table'[d].name = copy'[r].name
        PROVE {r, maker'[d].q} \in met
    <3>1. Kept(r) /\ r \in InFlight /\ r # q
      BY <1>2, <2>1
    <3>2. CASE d \in Rows
      BY <1>1, <2>1, <3>1, <3>2 DEF Kept, TwinInv, Meetings
    <3>3. CASE d \notin Rows
      <4>1. maker'[d].q = q
        BY <1>1, <2>1, <3>3
      <4> QED BY <3>1, <4>1 DEF TypeInv, InFlightMet
    <3> QED BY <3>2, <3>3
  <2> QED BY <1>2, <2>1 DEF Meetings
<1>6. TwinsOverlapped'
  <2>1. ASSUME NEW c \in Rows', NEW d \in Rows', c # d,
               \/ maker'[c].kind = "list" /\ maker'[d].kind = "list"
               \/ /\ maker'[c].kind = "openDirect" /\ maker'[d].kind = "openDirect"
                  /\ c \notin renamed' /\ d \notin renamed'
                  /\ table'[c].name = table'[d].name
        PROVE {maker'[c].q, maker'[d].q} \in met
    <3>1. CASE c \in Rows /\ d \in Rows
      <4>1. c \in Channel /\ d \in Channel
        BY <3>1 DEF Rows
      <4> QED BY <1>1, <2>1, <3>1, <4>1 DEF TwinInv, TwinsOverlapped, Made
    <3>2. CASE c \notin Rows /\ d \in Rows
      <4>1. {q, maker[d].q} \in met
        BY <1>1, <1>2, <2>1, <3>2 DEF TwinInv, Meetings
      <4> QED BY <1>1, <2>1, <3>2, <4>1
    <3>3. CASE c \in Rows /\ d \notin Rows
      <4>1. {q, maker[c].q} \in met
        BY <1>1, <1>2, <2>1, <3>3 DEF TwinInv, Meetings
      <4>2. {q, maker[c].q} = {maker'[c].q, maker'[d].q}
        BY <1>1, <2>1, <3>3
      <4> QED BY <4>1, <4>2
    <3> QED BY <1>1, <2>1, <3>1, <3>2, <3>3
  <2> QED BY <1>2, <2>1 DEF TwinsOverlapped, Made
<1> QED BY <1>3, <1>4, <1>5, <1>6 DEF TwinInv

\* Two channels where one was meant were made by requests that overlapped.
THEOREM TwinChannelsOverlapped == Spec => []TwinsOverlapped
<1> DEFINE Inv == TypeInv /\ TwinInv
<1>1. Init => Inv
  <2>1. Init => InFlight = {} /\ Rows = {}
    BY DEF Init, InFlight, Rows
  <2> QED BY <2>1, TypesInit
       DEF TwinInv, TwinsOverlapped, ListsArePublic, Likeness, Meetings, Made
<1>2. Inv /\ [Next]_vars => Inv'
  BY TypesStep, Moves, QuietKeepsTwins, SavesKeepsTwins
<1>3. Inv => TwinsOverlapped
  BY DEF TwinInv
<1> QED BY <1>1, <1>2, <1>3, PTL DEF Spec

-----------------------------------------------------------------------------
(* What requests were told.                                                *)

Told == [members : SUBSET User, cursor : [User -> SUBSET Request], details : SUBSET Request]

\* Who is no member has read nothing.
Vacant(w) == \A u \in User : w.role[u] = "none" => w.cursor[u] = {}

\* Members have a row.
Staffed(w) == \A u \in User \ Registered : w.role[u] = "none"

\* the row w is what t tells
Agrees(w, t) ==
    /\ \A u \in User : w.role[u] # "none" <=> u \in t.members /\ u \in Registered
    /\ \A u \in User : w.cursor[u] = t.cursor[u]
    /\ w.details = t.details

RowsAreClean == \A c \in Rows : Vacant(table[c]) /\ Staffed(table[c])

CopiesAreClean ==
    \A q \in InFlight :
        pc[q] = "save" =>
            /\ Vacant(copy[q])
            /\ Creates(q) => copy[q].details = {} /\ \A u \in User : copy[q].cursor[u] = {}

AbsentIsUntold == \A c \in Channel \ Rows : told[c] = Nothing

RowsAgree == \A c \in Rows \ raced : Agrees(table[c], told[c])

AnswerInv == RowsAreClean /\ CopiesAreClean /\ AbsentIsUntold /\ RowsAgree

\* To agree is to say the same.
LEMMA AgreeIs ==
    ASSUME NEW w \in Row, NEW t \in Told, Agrees(w, t)
    PROVE /\ {u \in User : IsMember(w, u)} = t.members \cap Registered
          /\ w.cursor = t.cursor
          /\ w.details = t.details
<1>1. {u \in User : IsMember(w, u)} = t.members \cap Registered
  BY DEF Agrees, IsMember, Told
<1>2. w.cursor \in [User -> SUBSET Request] /\ t.cursor \in [User -> SUBSET Request]
  BY DEF Row, Told
<1>3. w.cursor = t.cursor
  BY <1>2 DEF Agrees
<1> QED BY <1>1, <1>3 DEF Agrees

\* A row without a member's cursor stays one, whatever is executed.
LEMMA ExecuteKeepsVacant ==
    ASSUME NEW c \in Command, c.kind \in ChangeKind, NEW q \in Request, NEW w \in Row,
           NEW x \in Execute(c, q, w), Vacant(w)
    PROVE Vacant(x)
<1>1. CASE c.kind \in {"rename", "describe"}
  <2>1. x = [w EXCEPT !.name = {c.name}] \/ x = [w EXCEPT !.details = {q}]
    BY <1>1 DEF Execute
  <2>2. x.role = w.role /\ x.cursor = w.cursor
    BY <2>1 DEF Row
  <2> QED BY <2>2 DEF Vacant
<1>2. CASE c.kind = "read"
  <2>1. x \in UpdateReadCursor(w, c.by, q) /\ c.by \in User
    BY <1>2, Commands DEF Execute
  <2>2. /\ w.role[c.by] # "none" /\ x.role = w.role
        /\ \A v \in User : v # c.by => x.cursor[v] = w.cursor[v]
    BY <2>1 DEF UpdateReadCursor, IsMember, Row
  <2> QED BY <2>2 DEF Vacant
<1>3. CASE c.kind = "add"
  <2>1. x \in AddMember(w, c.who) /\ c.who \in User
    BY <1>3, Commands DEF Execute
  <2> QED BY <2>1, AddMemberIs DEF Vacant
<1>4. CASE c.kind = "remove"
  <2>1. x \in RemoveMember(w, c.who) /\ c.who \in User
    BY <1>4, Commands DEF Execute
  <2> QED BY <2>1, RemoveMemberIs DEF Vacant
<1>5. CASE c.kind = "post"
  <2>1. x \in AddMember(w, c.by) /\ c.by \in User
    BY <1>5, Commands DEF Execute, Join
  <2> QED BY <2>1, AddMemberIs DEF Vacant
<1> QED BY <1>1, <1>2, <1>3, <1>4, <1>5 DEF ChangeKind

\* What is written has members with a row, and no other cursors.
LEMMA WrittenIsClean ==
    ASSUME NEW w \in Row, Vacant(w)
    PROVE Vacant(Written(w)) /\ Staffed(Written(w))
BY WrittenIs DEF Vacant, Staffed

\* the copy x, once written, is what t tells
Fits(x, t) ==
    /\ \A u \in Registered : x.role[u] # "none" <=> u \in t.members
    /\ \A u \in Registered : x.cursor[u] = t.cursor[u]
    /\ \A u \in User \ Registered : t.cursor[u] = {}
    /\ x.details = t.details

\* What fits agrees once it is written.
LEMMA FitsIs ==
    ASSUME NEW x \in Row, NEW t \in Told, Fits(x, t)
    PROVE Agrees(Written(x), t)
<1> DEFINE y == Written(x)
<1>1. /\ y.details = x.details
      /\ \A u \in User :
            /\ y.role[u] = IF u \in Registered THEN x.role[u] ELSE "none"
            /\ y.cursor[u] = IF u \in Registered THEN x.cursor[u] ELSE {}
  BY WrittenIs
<1> HIDE DEF y
<1>2. Agrees(y, t)
  BY <1>1 DEF Fits, Agrees
<1> QED BY <1>2 DEF y

\* What is executed on the row itself and written is what is told.
LEMMA ExecuteTells ==
    ASSUME NEW c \in Command, c.kind \in ChangeKind, NEW q \in Request, NEW w \in Row,
           NEW t \in Told, Vacant(w), Staffed(w), Agrees(w, t), NEW x \in Execute(c, q, w)
    PROVE Agrees(Written(x), Tell(t, c, q))
<1> DEFINE s == Tell(t, c, q)
<1>1. x \in Row /\ s \in Told
  BY ExecuteKeepsRows, TellKeepsTypes DEF Told
<1>2. Fits(w, t)
  BY DEF Vacant, Staffed, Agrees, Fits
<1>3. ASSUME c.kind = "rename" PROVE Fits(x, s)
  <2>1. x = [w EXCEPT !.name = {c.name}] /\ s = t
    BY <1>3 DEF Execute, Tell
  <2>2. x.role = w.role /\ x.cursor = w.cursor /\ x.details = w.details
    BY <2>1 DEF Row
  <2> QED BY <1>2, <2>1, <2>2 DEF Fits
<1>4. ASSUME c.kind = "describe" PROVE Fits(x, s)
  <2>1. x = [w EXCEPT !.details = {q}] /\ s = [t EXCEPT !.details = {q}]
    BY <1>4 DEF Execute, Tell
  <2>2. x.role = w.role /\ x.cursor = w.cursor /\ x.details = {q}
    BY <2>1 DEF Row
  <2>3. /\ s.members = t.members /\ s.cursor = t.cursor
        /\ s.details = {q}
    BY <2>1 DEF Told
  <2> QED BY <1>2, <2>2, <2>3 DEF Fits
<1>5. ASSUME c.kind = "read" PROVE Fits(x, s)
  <2>1. /\ x \in UpdateReadCursor(w, c.by, q) /\ c.by \in User /\ c.by \in Registered
        /\ s = [t EXCEPT !.cursor[c.by] = {q}]
    BY <1>5, Commands DEF Execute, Tell
  <2>2. x.role = w.role /\ x.details = w.details
        /\ x.cursor = [w.cursor EXCEPT ![c.by] = {q}]
    BY <2>1 DEF UpdateReadCursor, Row
  <2>3. \A v \in User : x.cursor[v] = IF v = c.by THEN {q} ELSE w.cursor[v]
    BY <2>2 DEF Row
  <2>4. /\ s.members = t.members /\ s.details = t.details
        /\ s.cursor = [t.cursor EXCEPT ![c.by] = {q}]
    BY <2>1 DEF Told
  <2>5. \A v \in User : s.cursor[v] = IF v = c.by THEN {q} ELSE t.cursor[v]
    BY <2>4 DEF Told
  <2> HIDE DEF s
  <2> QED BY <1>2, <2>1, <2>2, <2>3, <2>4, <2>5 DEF Fits
<1>6. ASSUME c.kind = "add" PROVE Fits(x, s)
  <2>1. /\ x \in AddMember(w, c.who) /\ c.who \in User
        /\ s = [t EXCEPT !.members = t.members \cup {c.who}]
    BY <1>6, Commands DEF Execute, Tell
  <2>2. /\ x.details = w.details /\ w.role[c.who] = "none"
        /\ \A v \in User : x.role[v] = IF v = c.who THEN "MEMBER" ELSE w.role[v]
        /\ \A v \in User : x.cursor[v] = IF v = c.who THEN {} ELSE w.cursor[v]
    BY <2>1, AddMemberIs
  <2>3. w.cursor[c.who] = {}
    BY <2>1, <2>2 DEF Vacant
  <2>4. /\ s.members = t.members \cup {c.who}
        /\ s.details = t.details /\ s.cursor = t.cursor
    BY <2>1 DEF Told
  <2> QED BY <1>2, <2>1, <2>2, <2>3, <2>4 DEF Fits
<1>7. ASSUME c.kind = "remove" PROVE Fits(x, s)
  <2>1. /\ x \in RemoveMember(w, c.who) /\ c.who \in User
        /\ s = [t EXCEPT !.members = t.members \ {c.who}, !.cursor[c.who] = {}]
    BY <1>7, Commands DEF Execute, Tell
  <2>2. /\ x.details = w.details
        /\ \A v \in User : x.role[v] = IF v = c.who THEN "none" ELSE w.role[v]
        /\ \A v \in User : x.cursor[v] = IF v = c.who THEN {} ELSE w.cursor[v]
    BY <2>1, RemoveMemberIs
  <2> DEFINE m == t.members \ {c.who}
             k == [t.cursor EXCEPT ![c.who] = {}]
  <2>3. s = [t EXCEPT !.members = m, !.cursor = k]
    BY <2>1
  <2>4. \A v \in User : k[v] = IF v = c.who THEN {} ELSE t.cursor[v]
    BY DEF Told
  <2>5. \A v \in User : v \in m <=> v \in t.members /\ v # c.who
    OBVIOUS
  <2> HIDE DEF m, k
  <2>6. s.members = m /\ s.cursor = k /\ s.details = t.details
    BY <2>3 DEF Told
  <2> QED BY <1>2, <2>1, <2>2, <2>4, <2>5, <2>6 DEF Fits
<1>8. ASSUME c.kind = "post" PROVE Fits(x, s)
  <2>1. /\ x \in AddMember(w, c.by) /\ c.by \in User
        /\ s = [t EXCEPT !.members = t.members \cup {c.by}]
    BY <1>8, Commands DEF Execute, Join, Tell
  <2>2. /\ x.details = w.details /\ w.role[c.by] = "none"
        /\ \A v \in User : x.role[v] = IF v = c.by THEN "MEMBER" ELSE w.role[v]
        /\ \A v \in User : x.cursor[v] = IF v = c.by THEN {} ELSE w.cursor[v]
    BY <2>1, AddMemberIs
  <2>3. w.cursor[c.by] = {}
    BY <2>1, <2>2 DEF Vacant
  <2>4. /\ s.members = t.members \cup {c.by}
        /\ s.details = t.details /\ s.cursor = t.cursor
    BY <2>1 DEF Told
  <2> QED BY <1>2, <2>1, <2>2, <2>3, <2>4 DEF Fits
<1>9. Fits(x, s)
  BY <1>3, <1>4, <1>5, <1>6, <1>7, <1>8 DEF ChangeKind
<1> QED BY <1>1, <1>9, FitsIs

\* What creators are about to save has no cursors and no details.
LEMMA BegunIsClean ==
    ASSUME NEW q \in Request, op'[q] \in Command, Begun(q), RowsAreClean, TypeOK
    PROVE /\ Vacant(copy'[q])
          /\ op'[q].kind \in CreateKind =>
                copy'[q].details = {} /\ \A u \in User : copy'[q].cursor[u] = {}
<1>1. op'[q].by \in User /\ General \in Name /\ "PUBLIC" \in ChannelType
  BY Commands DEF General, Name, ChannelType
<1>2. CASE op'[q].kind = "create"
  <2>1. copy'[q] = Create(op'[q].name, op'[q].type, op'[q].by)
    BY <1>2 DEF Begun, ChangeKind
  <2>2. copy'[q].details = {} /\ \A u \in User : copy'[q].cursor[u] = {}
    BY <1>1, <1>2, <2>1, Commands, CreateIs
  <2> QED BY <2>2 DEF Vacant
<1>3. CASE op'[q].kind = "list"
  <2>1. copy'[q] = Create(General, "PUBLIC", op'[q].by)
    BY <1>3 DEF Begun, ChangeKind
  <2>2. copy'[q].details = {} /\ \A u \in User : copy'[q].cursor[u] = {}
    BY <1>1, <2>1, CreateIs
  <2> QED BY <2>2 DEF Vacant
<1>4. CASE op'[q].kind = "openDirect"
  <2>1. copy'[q] \in CreateDirect(op'[q].by, op'[q].with)
    BY <1>4 DEF Begun, ChangeKind
  <2>2. copy'[q].details = {} /\ \A u \in User : copy'[q].cursor[u] = {}
    BY <1>1, <1>4, <2>1, Commands, CreateDirectIs
  <2> QED BY <2>2 DEF Vacant
<1>5. CASE op'[q].kind \in ChangeKind
  BY <1>5 DEF Begun, ChangeKind, CreateKind, RowsAreClean
<1> QED BY <1>2, <1>3, <1>4, <1>5 DEF Begun

\* Without a save no row and no answer changes.
LEMMA QuietKeepsAnswers ==
    ASSUME TypeInv, TypeInv', Quiet, AnswerInv
    PROVE AnswerInv'
<1>1. RowsAreClean' /\ AbsentIsUntold' /\ RowsAgree'
  BY DEF Quiet, AnswerInv, RowsAreClean, AbsentIsUntold, RowsAgree, Vacant, Staffed, Agrees, Rows
<1>2. ASSUME NEW q \in InFlight', pc'[q] = "save"
      PROVE /\ Vacant(copy'[q])
            /\ op'[q].kind \in CreateKind =>
                  copy'[q].details = {} /\ \A u \in User : copy'[q].cursor[u] = {}
  <2>1. q \in Request /\ op'[q] \in Command /\ (Kept(q) \/ Begun(q))
    BY <1>2 DEF Quiet, InFlight
  <2>2. CASE Kept(q)
    <3>1. copy'[q] = copy[q] /\ op'[q] = op[q] /\ q \in InFlight /\ pc[q] = "save"
      BY <2>2 DEF Kept
    <3> QED BY <3>1 DEF AnswerInv, CopiesAreClean, Creates, CreateKind
  <2>3. CASE Begun(q)
    BY <2>1, <2>3, BegunIsClean DEF AnswerInv, TypeInv
  <2> QED BY <2>1, <2>2, <2>3
<1>3. CopiesAreClean'
  <2>1. \A q \in InFlight' : pc'[q] = "save" => Vacant(copy[q])'
    BY <1>2 DEF Vacant
  <2> QED BY <1>2, <2>1 DEF CopiesAreClean, Creates, CreateKind
<1> QED BY <1>1, <1>3 DEF AnswerInv

\* A save from a copy that is not stale writes what it tells.
LEMMA SavesKeepsAnswers ==
    ASSUME TypeInv, TypeInv', NEW q \in InFlight, Saves(q), AnswerInv
    PROVE AnswerInv'
<1> DEFINE Saved(c, w) ==
              \/ /\ Creates(q) /\ c \notin Rows /\ w = copy[q]
                 /\ told' = [told EXCEPT ![c].members = {u \in User : IsMember(copy[q], u)}]
                 /\ UNCHANGED raced
              \/ /\ op[q].kind \in ChangeKind /\ c \in Rows /\ c = op[q].on
                 /\ w \in Execute(op[q], q, copy[q])
                 /\ told' = [told EXCEPT ![c] = Tell(@, op[q], q)]
                 /\ raced' = IF copy[q] = table[c] THEN raced ELSE raced \cup {c}
<1>1. pc[q] = "save" /\ Commit(q) /\ q \in Request /\ op[q] \in Command /\ copy[q] \in Row
  BY Flight DEF Saves
<1>2. PICK c \in Channel, w \in Row : table' = [table EXCEPT ![c] = Written(w)] /\ Saved(c, w)
  BY <1>1, CommitIs
<1>3. told \in [Channel -> Told]
  BY DEF TypeInv, TypeOK, Told
<1>4. Rows' = Rows \cup {c} /\ table'[c] = Written(w) /\ \A d \in Channel \ {c} : table'[d] = table[d]
  BY <1>2, WrittenIs DEF TypeInv, TypeOK, Rows
<1>5. \A d \in Channel \ {c} : told'[d] = told[d] /\ (d \notin raced' => d \notin raced)
  BY <1>2, <1>3
<1>6. Vacant(copy[q]) /\ (Creates(q) =>
        copy[q].details = {} /\ \A u \in User : copy[q].cursor[u] = {})
  BY <1>1 DEF AnswerInv, CopiesAreClean
<1>7. Vacant(w)
  <2>1. CASE w = copy[q]
    BY <1>6, <2>1
  <2>2. CASE op[q].kind \in ChangeKind /\ w \in Execute(op[q], q, copy[q])
    BY <1>1, <1>6, <2>2, ExecuteKeepsVacant
  <2> QED BY <1>2, <2>1, <2>2
<1>8. Vacant(table'[c]) /\ Staffed(table'[c])
  BY <1>4, <1>7, WrittenIsClean
<1>9. c \notin raced' => Agrees(table'[c], told'[c])
  <2>1. CASE Creates(q) /\ c \notin Rows
    <3> DEFINE m == {u \in User : IsMember(copy[q], u)}
    <3>1. w = copy[q] /\ told' = [told EXCEPT ![c] = [told[c] EXCEPT !.members = m]]
      BY <1>2, <2>1 DEF Creates, ChangeKind
    <3>2. told[c] = Nothing /\ m \in SUBSET User
      BY <2>1 DEF AnswerInv, AbsentIsUntold
    <3>3. \A u \in User : u \in m <=> w.role[u] # "none"
      BY <3>1 DEF IsMember
    <3> HIDE DEF m
    <3> DEFINE t == [told[c] EXCEPT !.members = m]
    <3>4. /\ t \in Told /\ t.members = m /\ t.details = {}
          /\ \A u \in User : t.cursor[u] = {}
      BY <3>2 DEF Nothing, Told
    <3>5. told'[c] = t
      BY <1>3, <3>1
    <3> HIDE DEF t
    <3>6. Fits(w, t)
      BY <1>6, <2>1, <3>1, <3>3, <3>4 DEF Fits
    <3> QED BY <1>4, <3>4, <3>5, <3>6, FitsIs
  <2>2. ASSUME op[q].kind \in ChangeKind, c \in Rows, c \notin raced'
        PROVE Agrees(table'[c], told'[c])
    <3>1. /\ w \in Execute(op[q], q, copy[q])
          /\ told' = [told EXCEPT ![c] = Tell(@, op[q], q)]
          /\ raced' = IF copy[q] = table[c] THEN raced ELSE raced \cup {c}
      BY <1>2, <2>2
    <3>2. copy[q] = table[c] /\ c \notin raced
      BY <2>2, <3>1
    <3>3. Vacant(table[c]) /\ Staffed(table[c]) /\ Agrees(table[c], told[c])
      BY <2>2, <3>2 DEF AnswerInv, RowsAreClean, RowsAgree
    <3>4. told[c] \in Told /\ told'[c] = Tell(told[c], op[q], q)
      BY <1>3, <3>1
    <3>5. Agrees(Written(w), Tell(told[c], op[q], q))
      BY <1>1, <2>2, <3>1, <3>2, <3>3, <3>4, ExecuteTells
    <3> QED BY <1>4, <3>4, <3>5
  <2> QED BY <1>2, <2>1, <2>2
<1>10. RowsAreClean'
  <2>1. \A d \in Rows' : Vacant(table'[d]) /\ Staffed(table'[d])
    BY <1>4, <1>8 DEF AnswerInv, RowsAreClean, Rows
  <2> QED BY <2>1 DEF RowsAreClean, Vacant, Staffed
<1>11. AbsentIsUntold'
  BY <1>4, <1>5 DEF AnswerInv, AbsentIsUntold, Nothing
<1>12. RowsAgree'
  <2>1. \A d \in Rows' \ raced' : Agrees(table'[d], told'[d])
    BY <1>4, <1>5, <1>9 DEF AnswerInv, RowsAgree, Rows
  <2> QED BY <2>1 DEF RowsAgree, Agrees
<1>13. CopiesAreClean'
  <2>1. ASSUME NEW r \in InFlight', pc'[r] = "save"
        PROVE /\ Vacant(copy'[r])
              /\ Creates(r)' => copy'[r].details = {} /\ \A u \in User : copy'[r].cursor[u] = {}
    <3>1. copy'[r] = copy[r] /\ op'[r] = op[r] /\ r \in InFlight /\ pc[r] = "save"
      BY <2>1 DEF Saves, Kept
    <3> QED BY <3>1 DEF AnswerInv, CopiesAreClean, Creates
  <2>2. \A r \in InFlight' : pc'[r] = "save" => Vacant(copy[r])'
    BY <2>1 DEF Vacant
  <2> QED BY <2>1, <2>2 DEF CopiesAreClean
<1> QED BY <1>10, <1>11, <1>12, <1>13 DEF AnswerInv

\* But for stale saves a channel is what the successful requests were told.
THEOREM AnswersOutlast == Spec => []AnswersHold
<1> DEFINE Inv == TypeInv /\ AnswerInv
<1>1. Init => Inv
  <2>1. Init => InFlight = {} /\ Rows = {} /\ \A c \in Channel : told[c] = Nothing
    BY DEF Init, InFlight, Rows
  <2> QED BY <2>1, TypesInit DEF AnswerInv, RowsAreClean, CopiesAreClean, AbsentIsUntold, RowsAgree
<1>2. Inv /\ [Next]_vars => Inv'
  BY TypesStep, Moves, QuietKeepsAnswers, SavesKeepsAnswers
<1>3. Inv => AnswersHold
  <2>1. ASSUME Inv, NEW c \in Rows \ raced
        PROVE /\ {u \in User : IsMember(table[c], u)} = told[c].members \cap Registered
              /\ table[c].cursor = told[c].cursor
              /\ table[c].details = told[c].details
    <3>1. table[c] \in Row /\ told[c] \in Told
      BY <2>1 DEF TypeInv, TypeOK, Rows, Told
    <3>2. Agrees(table[c], told[c])
      BY <2>1 DEF AnswerInv, RowsAgree
    <3> QED BY <3>1, <3>2, AgreeIs
  <2> QED BY <2>1 DEF AnswersHold
<1> QED BY <1>1, <1>2, <1>3, PTL DEF Spec

-----------------------------------------------------------------------------
(* The page of ChatPage.  To the API it is a client like others: what      *)
(* holds of Channels holds behind it.                                      *)

\* What a step of the page does to the channels and to what is known of them.
LEMMA ChatSteps ==
    ASSUME [ChatNext]_chatVars
    PROVE \/ UNCHANGED <<vars, disturbed>>
          \/ \E q \in Request, c \in Command : Receive(q, c) /\ UNCHANGED disturbed
          \/ \E q \in Request :
                /\ Find(q) \/ FindName(q) \/ Count(q) \/ Save(q) \/ Throws(q)
                /\ Disturb(q)
<1>1. CASE UNCHANGED chatVars
  BY <1>1 DEF chatVars, pageVars
<1>2. CASE ReadSide \/ Render \/ (\E e \in side : ClickChannel(e)) \/ (\E v \in Registered : ClickPerson(v))
  BY <1>2 DEF ReadSide, Render, ClickChannel, ClickPerson
<1>3. ASSUME NEW q \in Request, NEW v \in Registered, CreateDM(q, v)
      PROVE \E c \in Command : Receive(q, c) /\ UNCHANGED disturbed
  <2>1. [kind |-> "openDirect", by |-> Me, with |-> v] \in Command
    BY MeAssumption DEF Command
  <2> QED BY <1>3, <2>1 DEF CreateDM, Ask
<1>4. ASSUME NEW q \in Request, NEW v \in Registered, AddFromHeader(q, v)
      PROVE \E c \in Command : Receive(q, c) /\ UNCHANGED disturbed
  <2>1. PICK e \in Open : Ask(q, [kind |-> "add", by |-> Me, on |-> e.id, who |-> v])
    BY <1>4 DEF AddFromHeader
  <2>2. e.id \in Channel
    BY <2>1 DEF Ask, Receive, Rows
  <2>3. [kind |-> "add", by |-> Me, on |-> e.id, who |-> v] \in Command
    BY <2>2, MeAssumption DEF Command
  <2> QED BY <2>1, <2>3 DEF Ask
<1>5. ASSUME NEW q \in Request, NEW n \in ChosenName, NEW t \in ChannelType, CreateChannel(q, n, t)
      PROVE \E c \in Command : Receive(q, c) /\ UNCHANGED disturbed
  <2>1. [kind |-> "create", by |-> Me, name |-> n, type |-> t] \in Command
    BY MeAssumption DEF Command
  <2> QED BY <1>5, <2>1 DEF CreateChannel, Ask
<1>6. ASSUME NEW q \in Request, MarkRead(q)
      PROVE \E c \in Command : Receive(q, c) /\ UNCHANGED disturbed
  <2>1. PICK e \in Open : Ask(q, [kind |-> "read", by |-> Me, on |-> e.id])
    BY <1>6 DEF MarkRead
  <2>2. e.id \in Channel
    BY <2>1 DEF Ask, Receive, Rows
  <2>3. [kind |-> "read", by |-> Me, on |-> e.id] \in Command
    BY <2>2, MeAssumption DEF Command
  <2> QED BY <2>1, <2>3 DEF Ask
<1>6a. ASSUME NEW q \in Request, PostMessage(q)
       PROVE \E c \in Command : Receive(q, c) /\ UNCHANGED disturbed
  <2>1. PICK e \in Open : Ask(q, [kind |-> "post", by |-> Me, on |-> e.id])
    BY <1>6a DEF PostMessage
  <2>2. e.id \in Channel
    BY <2>1 DEF Ask, Receive, Rows
  <2>3. [kind |-> "post", by |-> Me, on |-> e.id] \in Command
    BY <2>2, MeAssumption DEF Command
  <2> QED BY <2>1, <2>3 DEF Ask
<1>7. ASSUME NEW q \in Request, List(q)
      PROVE \E c \in Command : Receive(q, c) /\ UNCHANGED disturbed
  <2>1. [kind |-> "list", by |-> Me] \in Command
    BY MeAssumption DEF Command
  <2> QED BY <1>7, <2>1 DEF List, Ask
<1>8. ASSUME NEW q \in Request, Others(q)
      PROVE \E c \in Command : Receive(q, c) /\ UNCHANGED disturbed
  BY <1>8 DEF Others, pageVars
<1>9. ASSUME NEW q \in Request, Serve(q) \/ Fail(q)
      PROVE /\ Find(q) \/ FindName(q) \/ Count(q) \/ Save(q) \/ Throws(q)
            /\ Disturb(q)
  BY <1>9 DEF Serve, Fail
<1>10. CASE UNCHANGED chatVars
  BY <1>1, <1>10
<1>11. CASE \E q \in Request, v \in Registered : CreateDM(q, v) \/ AddFromHeader(q, v)
  BY <1>3, <1>4, <1>11
<1>12. CASE \E q \in Request, n \in ChosenName, t \in ChannelType : CreateChannel(q, n, t)
  BY <1>5, <1>12
<1>13. CASE \E q \in Request : MarkRead(q) \/ PostMessage(q) \/ List(q) \/ Others(q)
  BY <1>6, <1>7, <1>8, <1>13, <1>6a
<1>14. CASE \E q \in Request : Serve(q) \/ Fail(q)
  BY <1>9, <1>14
<1> QED BY <1>2, <1>10, <1>11, <1>12, <1>13, <1>14 DEF ChatNext

\* What the page makes the API do is a step of Channels.
LEMMA ChatStep == ASSUME [ChatNext]_chatVars PROVE [Next]_vars
BY ChatSteps DEF Next

\* The channels behind the page are those of a workspace.
THEOREM BehindThePage == ChatSpec => Spec
<1>1. ChatInit => Init
  BY DEF ChatInit
<1>2. [ChatNext]_chatVars => [Next]_vars
  BY ChatStep
<1> QED BY <1>1, <1>2, PTL DEF ChatSpec, Spec

LEMMA TypesHold == Spec => []TypeInv
<1>1. Init => TypeInv
  BY TypesInit
<1>2. TypeInv /\ [Next]_vars => TypeInv'
  BY TypesStep
<1> QED BY <1>1, <1>2, PTL DEF Spec

-----------------------------------------------------------------------------
(* A channel that nobody has disturbed is the direct channel of a pair.    *)

Members(w) == {u \in User : IsMember(w, u)}

\* w is the direct channel of u and v, as it is made: u or v may be nobody
PairOf(w, u, v) == w.type = "DIRECT" /\ w.name = {PairName(u, v)} /\ Members(w) = {u, v}

\* the same, as it is in the table
RowOf(w, u, v) ==
    w.type = "DIRECT" /\ w.name = {PairName(u, v)} /\ Members(w) = {u, v} \cap Registered

Alike(w, x) == w.type = x.type /\ w.name = x.name /\ Members(w) = Members(x)

\* An undisturbed channel has the pair it is named for, and so has a copy of it
\* that is about to be saved.
Undisturbed ==
    /\ \A c \in Rows \ disturbed : \E u, v \in User : RowOf(table[c], u, v)
    /\ \A r \in InFlight : pc[r] = "save" =>
          /\ op[r].kind \in ChangeKind /\ op[r].on \notin disturbed
                => Alike(copy[r], table[op[r].on])
          /\ op[r].kind = "openDirect" => PairOf(copy[r], op[r].by, op[r].with)

\* A channel is named for one pair.
LEMMA OnePair ==
    ASSUME NEW w, NEW u, NEW v, NEW a, NEW b, RowOf(w, u, v), w.name = {PairName(a, b)}
    PROVE Members(w) = {a, b} \cap Registered
<1>1. PairName(u, v) = PairName(a, b)
  BY DEF RowOf
<1>2. {u, v} = {a, b}
  BY <1>1 DEF PairName
<1> QED BY <1>2 DEF RowOf

\* Whoever is added is a member beside the others.
LEMMA AddMemberMembers ==
    ASSUME NEW w \in Row, NEW u \in User, NEW x \in AddMember(w, u)
    PROVE Members(x) = Members(w) \cup {u}
<1>1. x = NewMember(w, u, "MEMBER")
  BY DEF AddMember
<1>2. \A v \in User : x.role[v] = IF v = u THEN "MEMBER" ELSE w.role[v]
  BY <1>1 DEF NewMember, Row
<1> QED BY <1>2 DEF Members, IsMember

\* Opening a direct channel makes it for the two.
LEMMA CreateDirectPairs ==
    ASSUME NEW u \in User, NEW v \in User, NEW x \in CreateDirect(u, v)
    PROVE PairOf(x, u, v)
<1> DEFINE w == Create(PairName(u, v), "DIRECT", u)
<1>1. w \in Row /\ \A y \in User : w.role[y] = IF y = u THEN "OWNER" ELSE "none"
  BY PairNames, CreateIs DEF ChannelType
<1>2. x \in (IF u = v THEN {w} ELSE AddMember(w, v))
  BY DEF CreateDirect
<1> HIDE DEF w
<1>3. Members(w) = {u}
  BY <1>1 DEF Members, IsMember
<1>4. Members(x) = {u, v}
  BY <1>1, <1>2, <1>3, AddMemberMembers
<1> QED BY <1>4, CreateDirectIs DEF PairOf

\* What save writes of a copy, looked at from outside.
LEMMA WrittenFace ==
    ASSUME NEW w \in Row
    PROVE /\ Written(w).type = w.type /\ Written(w).name = w.name
          /\ Members(Written(w)) = Members(w) \cap Registered
<1>1. \A u \in User : IsMember(Written(w), u) <=> IsMember(w, u) /\ u \in Registered
  BY WrittenIs DEF IsMember
<1> QED BY <1>1, WrittenIs DEF Members

\* Reading and describing do not change who is in a channel or what it is
\* called.
LEMMA ReadFace ==
    ASSUME NEW c \in Command, c.kind \in {"read", "describe"}, NEW q \in Request, NEW w \in Row,
           NEW x \in Execute(c, q, w)
    PROVE x \in Row /\ Alike(x, w)
<1>1. x \in Row /\ x.type = w.type /\ x.name = w.name
  BY ExecuteKeepsRows DEF ChangeKind
<1>2. x.role = w.role
  <2>1. CASE c.kind = "read"
    <3>1. x \in UpdateReadCursor(w, c.by, q) /\ c.by \in User
      BY <2>1, Commands DEF Execute
    <3> QED BY <3>1 DEF UpdateReadCursor, Row
  <2>2. CASE c.kind = "describe"
    <3>1. x = [w EXCEPT !.details = {q}]
      BY <2>2 DEF Execute
    <3> QED BY <3>1 DEF Row
  <2> QED BY <2>1, <2>2
<1> QED BY <1>1, <1>2 DEF Alike, Members, IsMember

\* Nobody joins a direct channel by posting to it.
LEMMA DirectIsClosed ==
    ASSUME NEW c \in Command, c.kind = "post", NEW q \in Request, NEW w \in Row,
           w.type = "DIRECT"
    PROVE Execute(c, q, w) = {}
BY DEF Execute, Join

\* What a save makes of a channel that it does not disturb: it stays as it
\* looks, or it is the new channel of a pair.
LEMMA SaveDisturbs ==
    ASSUME TypeInv, Undisturbed, NEW q \in Request,
           Find(q) \/ FindName(q) \/ Count(q) \/ Save(q) \/ Throws(q), Disturb(q)
    PROVE /\ disturbed \subseteq disturbed'
          /\ disturbed \subseteq Channel => disturbed' \subseteq Channel
          /\ \A c \in Rows : c \in Rows' /\ (c \notin disturbed' => Alike(table'[c], table[c]))
          /\ \A c \in Rows' \ Rows :
                /\ pc[q] = "save"
                /\ c \notin disturbed' => /\ op[q].kind = "openDirect"
                                          /\ RowOf(table'[c], op[q].by, op[q].with)
<1>1. disturbed \subseteq disturbed'
  BY DEF Disturb
<1>2. q \in InFlight
  BY StepIs
<1>3. disturbed \subseteq Channel => disturbed' \subseteq Channel
  <2>1. op[q].kind \in {"add", "remove", "rename"} => op[q].on \in Channel
    BY <1>2, Flight DEF ChangeKind
  <2> QED BY <2>1 DEF Disturb
<1>4. CASE table' = table
  BY <1>1, <1>3, <1>4 DEF Rows, Alike
<1>5. CASE table' # table
  <2>1. pc[q] = "save" /\ Commit(q)
    BY <1>5, StepIs
  <2>2. /\ op[q] \in Command /\ copy[q] \in Row
        /\ ~Creates(q) <=> op[q].kind \in ChangeKind
    BY <1>2, <2>1, Flight
  <2>3. PICK d \in Channel, w \in Row :
            /\ table' = [table EXCEPT ![d] = Written(w)]
            /\ \/ Creates(q) /\ d \notin Rows /\ w = copy[q]
               \/ /\ op[q].kind \in ChangeKind /\ d \in Rows /\ d = op[q].on
                  /\ w \in Execute(op[q], q, copy[q])
    BY <1>2, <2>1, CommitIs
  <2>4. /\ table'[d] = Written(w) /\ Written(w) # NoRow
        /\ \A c \in Channel \ {d} : table'[c] = table[c]
    BY <2>3, WrittenIs DEF TypeInv, TypeOK
  <2>5. Rows' = Rows \cup {d}
    BY <2>4 DEF Rows
  <2>6. \A c \in Rows \ {d} : c \in Rows' /\ Alike(table'[c], table[c])
    BY <2>4, <2>5 DEF Rows, Alike
  <2>7. CASE Creates(q) /\ d \notin Rows /\ w = copy[q]
    <3>1. CASE op[q].kind = "openDirect"
      <4>1. PairOf(w, op[q].by, op[q].with)
        BY <1>2, <2>1, <2>7, <3>1 DEF Undisturbed
      <4>2. RowOf(Written(w), op[q].by, op[q].with)
        BY <4>1, WrittenFace DEF PairOf, RowOf
      <4> QED BY <1>1, <1>3, <2>1, <2>4, <2>5, <2>6, <2>7, <3>1, <4>2
    <3>2. CASE op[q].kind \in {"create", "list"}
      <4>1. table[d] = NoRow /\ table'[d] # NoRow
        BY <2>4, <2>7 DEF Rows
      <4>2. d \in disturbed'
        BY <1>5, <3>2, <4>1 DEF Disturb
      <4> QED BY <1>1, <1>3, <2>1, <2>5, <2>6, <2>7, <4>2
    <3> QED BY <2>7, <3>1, <3>2 DEF Creates
  <2>8. CASE /\ op[q].kind \in ChangeKind /\ d \in Rows /\ d = op[q].on
             /\ w \in Execute(op[q], q, copy[q])
    <3>1. CASE op[q].kind \in {"add", "remove", "rename"}
      <4>1. d \in disturbed'
        BY <1>5, <2>8, <3>1 DEF Disturb
      <4> QED BY <1>1, <1>3, <2>5, <2>6, <2>8, <4>1
    <3>2. CASE op[q].kind \in {"read", "describe"}
      <4>1. ASSUME d \notin disturbed' PROVE Alike(table'[d], table[d])
        <5>1. Alike(w, copy[q])
          BY <2>2, <2>8, <3>2, ReadFace
        <5>2. d \notin disturbed
          BY <1>1, <4>1
        <5>3. Alike(copy[q], table[d])
          BY <1>2, <2>1, <2>8, <5>2 DEF Undisturbed
        <5>4. Members(table[d]) \subseteq Registered
          BY <2>8, <5>2 DEF Undisturbed, RowOf
        <5>5. /\ Written(w).type = w.type /\ Written(w).name = w.name
              /\ Members(Written(w)) = Members(w) \cap Registered
          BY WrittenFace
        <5> QED BY <2>4, <5>1, <5>3, <5>4, <5>5 DEF Alike
      <4> QED BY <1>1, <1>3, <2>5, <2>6, <2>8, <4>1
    <3>3. CASE op[q].kind = "post"
      <4>1. ASSUME d \notin disturbed PROVE FALSE
        <5>1. Alike(copy[q], table[d]) /\ table[d].type = "DIRECT"
          BY <1>2, <2>1, <2>8, <4>1 DEF Undisturbed, RowOf
        <5> QED BY <1>2, <2>2, <2>8, <3>3, <5>1, Flight, DirectIsClosed DEF Alike
      <4> QED BY <1>1, <1>3, <2>5, <2>6, <2>8, <4>1
    <3> QED BY <2>8, <3>1, <3>2, <3>3 DEF ChangeKind
  <2> QED BY <2>3, <2>7, <2>8
<1> QED BY <1>4, <1>5

\* Undisturbed channels stay what they are, and new ones are of a pair.
LEMMA UndisturbedStep ==
    ASSUME TypeInv, TypeInv', Undisturbed, [ChatNext]_chatVars
    PROVE /\ Undisturbed'
          /\ disturbed \subseteq disturbed'
          /\ disturbed \subseteq Channel => disturbed' \subseteq Channel
          /\ \A c \in Rows : c \in Rows' /\ (c \notin disturbed' => Alike(table'[c], table[c]))
<1>1. /\ disturbed \subseteq disturbed'
      /\ disturbed \subseteq Channel => disturbed' \subseteq Channel
      /\ \A c \in Rows : c \in Rows' /\ (c \notin disturbed' => Alike(table'[c], table[c]))
      /\ \A c \in Rows' \ Rows : c \notin disturbed' => \E u, v \in User : RowOf(table'[c], u, v)
  <2>1. CASE UNCHANGED <<table, disturbed>>
    BY <2>1 DEF Rows, Alike
  <2>2. UNCHANGED vars => UNCHANGED table
    BY DEF vars
  <2>3. \A q \in Request, c \in Command : Receive(q, c) => UNCHANGED table
    BY DEF Receive
  <2>4. ASSUME NEW q \in Request,
               Find(q) \/ FindName(q) \/ Count(q) \/ Save(q) \/ Throws(q), Disturb(q)
        PROVE <1>1!:
    <3>1. op[q].kind = "openDirect" => op[q].by \in User /\ op[q].with \in User
      <4>1. q \in InFlight
        BY <2>4, StepIs
      <4> QED BY <4>1, Flight, Commands
    <3> QED BY <2>4, <3>1, SaveDisturbs
  <2> QED BY <2>1, <2>2, <2>3, <2>4, ChatSteps
<1>2. ASSUME NEW c \in Rows' \ disturbed' PROVE \E u, v \in User : RowOf(table'[c], u, v)
  <2>1. CASE c \in Rows
    BY <1>1, <1>2, <2>1 DEF Undisturbed, Alike, RowOf
  <2> QED BY <1>1, <1>2, <2>1
<1>3. ASSUME NEW r \in InFlight', pc'[r] = "save"
      PROVE /\ op'[r].kind \in ChangeKind /\ op'[r].on \notin disturbed'
                  => Alike(copy'[r], table'[op'[r].on])
            /\ op'[r].kind = "openDirect" => PairOf(copy'[r], op'[r].by, op'[r].with)
  <2>1. op'[r] \in Command /\ (Kept(r) \/ Begun(r))
    BY <1>3, ChatStep, Moves DEF Quiet, Saves
  <2>2. CASE Kept(r)
    <3>1. r \in InFlight /\ pc[r] = "save" /\ op'[r] = op[r] /\ copy'[r] = copy[r]
      BY <2>2 DEF Kept
    <3>2. op[r].kind \in ChangeKind => op[r].on \in Rows
      BY <3>1, Flight DEF Rows
    <3> QED BY <1>1, <3>1, <3>2 DEF Undisturbed, Alike
  <2>3. CASE Begun(r)
    <3>1. ASSUME op'[r].kind \in ChangeKind, op'[r].on \notin disturbed'
          PROVE Alike(copy'[r], table'[op'[r].on])
      <4>1. op'[r].on \in Rows /\ copy'[r] = table[op'[r].on]
        BY <2>3, <3>1 DEF Begun, ChangeKind
      <4> QED BY <1>1, <3>1, <4>1 DEF Alike
    <3>2. ASSUME op'[r].kind = "openDirect" PROVE PairOf(copy'[r], op'[r].by, op'[r].with)
      <4>1. copy'[r] \in CreateDirect(op'[r].by, op'[r].with)
        BY <2>3, <3>2 DEF Begun, ChangeKind
      <4> QED BY <2>1, <3>2, <4>1, Commands, CreateDirectPairs
    <3> QED BY <3>1, <3>2
  <2> QED BY <2>1, <2>2, <2>3
<1> QED BY <1>1, <1>2, <1>3 DEF Undisturbed, RowOf, PairOf, Alike, Members, IsMember

-----------------------------------------------------------------------------
(* What the page shows.                                                    *)

\* An entry of a list is true of a channel that nobody has disturbed, however
\* old the list is; a direct channel is listed for its members only.
TrueEntry(e) ==
    /\ e \in Entry /\ e.id \in Rows
    /\ e.type = "DIRECT" => Me \in e.members
    /\ e.id \notin disturbed => e.type = table[e.id].type /\ e.members = Members(table[e.id])

TrueList(L) ==
    /\ \A e \in L : TrueEntry(e)
    /\ \A e, f \in L : e.id = f.id => e = f

\* The channel that was opened for v is the pair's, unless it was disturbed.
Reached(v, c) == c \in Rows /\ (c \notin disturbed => Members(table[c]) = {Me, v})

PageInv ==
    /\ TrueList(side) /\ TrueList(page)
    /\ rendered \in BOOLEAN
    /\ address \subseteq Channel /\ meant \subseteq Registered
    /\ \A c, d \in address : c = d
    /\ \A v \in meant, c \in address : Reached(v, c)
    /\ rendered /\ page # NoList =>
          \A v \in meant : \A c \in address \ disturbed : \E e \in page : e.id = c

\* The page has asked for itself.
AskedInv ==
    \A q \in asked :
        /\ q \in Request /\ pc[q] # "idle"
        /\ op[q].kind = "openDirect" => op[q].by = Me /\ op[q].with \in Registered

ChatInv ==
    /\ TypeInv /\ Undisturbed /\ PageInv /\ AskedInv
    /\ disturbed \subseteq Channel

\* What the API lists is true.
LEMMA ListedIsTrue ==
    ASSUME TypeInv, Undisturbed
    PROVE /\ TrueList(Listed)
          /\ \A c \in Rows \ disturbed : Me \in Members(table[c]) => \E e \in Listed : e.id = c
<1> DEFINE entry(c) == [id |-> c, type |-> table[c].type, members |-> Members(table[c])]
<1>1. Listed = {entry(c) : c \in Visible(Me)}
  BY DEF Listed, Members
<1>2. \A c \in Visible(Me) : c \in Rows /\ table[c].type \in ChannelType
  BY DEF Visible, Rows, TypeInv, TypeOK, Row
<1>3. \A c : entry(c).id = c /\ entry(c).type = table[c].type
             /\ entry(c).members = Members(table[c])
  OBVIOUS
<1>4. \A c \in Visible(Me) : entry(c) \in Entry
  BY <1>2 DEF Entry, Rows, Members
<1> HIDE DEF entry
<1>5. \A c \in Visible(Me) : table[c].type = "DIRECT" => Me \in Members(table[c])
  BY MeAssumption DEF Visible, Members
<1>6. \A c \in Visible(Me) : TrueEntry(entry(c))
  BY <1>2, <1>3, <1>4, <1>5 DEF TrueEntry
<1>7. TrueList(Listed)
  BY <1>1, <1>3, <1>6 DEF TrueList
<1>8. \A c \in Rows : Me \in Members(table[c]) => c \in Visible(Me)
  BY DEF Visible, Members
<1> QED BY <1>1, <1>3, <1>7, <1>8

\* after a step that leaves undisturbed channels as they look
FacesStay ==
    /\ disturbed \subseteq disturbed'
    /\ \A c \in Rows : c \in Rows' /\ (c \notin disturbed' => Alike(table'[c], table[c]))

\* L is true of the next state
TrueNext(L) ==
    /\ \A e \in L :
        /\ e \in Entry /\ e.id \in Rows'
        /\ e.type = "DIRECT" => Me \in e.members
        /\ e.id \notin disturbed' =>
              e.type = table'[e.id].type /\ e.members = Members(table'[e.id])
    /\ \A e, f \in L : e.id = f.id => e = f

ReachedNext(v, c) == c \in Rows' /\ (c \notin disturbed' => Members(table'[c]) = {Me, v})

\* A list stays true, and who is reached stays reached.
LEMMA TrueStays ==
    ASSUME FacesStay
    PROVE /\ \A L : TrueList(L) => TrueNext(L)
          /\ \A v, c : Reached(v, c) => ReachedNext(v, c)
<1>1. ASSUME NEW L, TrueList(L) PROVE TrueNext(L)
  BY <1>1 DEF FacesStay, TrueList, TrueEntry, TrueNext, Alike
<1>2. ASSUME NEW v, NEW c, Reached(v, c) PROVE ReachedNext(v, c)
  BY <1>2 DEF FacesStay, Reached, ReachedNext, Alike
<1> QED BY <1>1, <1>2

\* A direct channel that the sidebar finds for a person is the pair's.
LEMMA FoundIsThePairs ==
    ASSUME TypeInv, Undisturbed, TrueList(side), NEW v \in Registered, NEW e \in DirectWith(v)
    PROVE Reached(v, e.id)
<1>1. /\ e \in side /\ e.type = "DIRECT"
      /\ IF v = Me THEN e.members = {Me} ELSE v \in e.members
  BY DEF DirectWith
<1>2. TrueEntry(e)
  BY <1>1 DEF TrueList
<1>3. ASSUME e.id \notin disturbed PROVE Members(table[e.id]) = {Me, v}
  <2>1. e.members = Members(table[e.id]) /\ Me \in e.members
    BY <1>1, <1>2, <1>3 DEF TrueEntry
  <2>2. PICK a, b \in User : Members(table[e.id]) = {a, b} \cap Registered
    BY <1>2, <1>3 DEF TrueEntry, Undisturbed, RowOf
  <2>3. v \in e.members
    BY <1>1
  <2>4. v # Me => {a, b} = {Me, v}
    BY <2>1, <2>2, <2>3
  <2> QED BY <1>1, <2>1, <2>2, <2>4, MeAssumption
<1> QED BY <1>2, <1>3 DEF TrueEntry, Reached

\* The channel named for a pair of people is theirs.
LEMMA NamedIsThePairs ==
    ASSUME TypeInv, Undisturbed, NEW v \in Registered, NEW c \in Named(PairName(Me, v))
    PROVE Reached(v, c)
<1>1. c \in Rows /\ table[c].name = {PairName(Me, v)}
  BY DEF Named
<1>2. ASSUME c \notin disturbed PROVE Members(table[c]) = {Me, v}
  <2>1. PICK a, b \in User : RowOf(table[c], a, b)
    BY <1>1, <1>2 DEF Undisturbed
  <2>2. Members(table[c]) = {Me, v} \cap Registered
    BY <1>1, <2>1, OnePair
  <2> QED BY <2>2, MeAssumption
<1> QED BY <1>1, <1>2 DEF Reached

\* What PageInv needs of the next state.
LEMMA PageNext ==
    ASSUME TrueNext(side'), TrueNext(page'), rendered' \in BOOLEAN,
           address' \subseteq Channel, meant' \subseteq Registered,
           \A c, d \in address' : c = d,
           \A v \in meant', c \in address' : ReachedNext(v, c),
           rendered' /\ page' # NoList =>
              \A v \in meant' : \A c \in address' \ disturbed' : \E e \in page' : e.id = c
    PROVE PageInv'
<1>1. TrueList(side)'
  BY DEF TrueList, TrueEntry, TrueNext, Members, IsMember
<1>2. TrueList(page)'
  BY DEF TrueList, TrueEntry, TrueNext, Members, IsMember
<1>3. (\A v \in meant, c \in address : Reached(v, c))'
  BY DEF Reached, ReachedNext, Members, IsMember
<1> QED BY <1>1, <1>2, <1>3 DEF PageInv, NoList

\* The page is as it was.
LEMMA PageRests ==
    ASSUME PageInv, FacesStay, UNCHANGED shown
    PROVE PageInv'
<1>1. /\ side' = side /\ page' = page /\ rendered' = rendered
      /\ address' = address /\ meant' = meant
  BY DEF shown
<1>2. TrueNext(side') /\ TrueNext(page') /\ \A v \in meant', c \in address' : ReachedNext(v, c)
  BY <1>1, TrueStays DEF PageInv
<1>3. \A c \in address' \ disturbed' : c \in address \ disturbed
  BY <1>1 DEF FacesStay
<1>4. rendered' /\ page' # NoList =>
        \A v \in meant' : \A c \in address' \ disturbed' : \E e \in page' : e.id = c
  BY <1>1, <1>3 DEF PageInv
<1> QED BY <1>1, <1>2, <1>4, PageNext DEF PageInv

\* An address is pushed, for nobody or for whom it reaches.
LEMMA PushReaches ==
    ASSUME PageInv, FacesStay, UNCHANGED <<side, page>>, NEW c \in Channel, NEW m,
           m \subseteq Registered, \A v \in m : ReachedNext(v, c), Push(c, m)
    PROVE PageInv'
<1>1. address' = {c} /\ meant' = m /\ rendered' = FALSE
  BY DEF Push
<1>2. TrueNext(side') /\ TrueNext(page')
  BY TrueStays DEF PageInv
<1>3. \A v \in meant', d \in address' : ReachedNext(v, d)
  BY <1>1
<1> QED BY <1>1, <1>2, <1>3, PageNext

\* The page is read, rendered or clicked on.
LEMMA PageActs ==
    ASSUME ChatInv, FacesStay,
           \/ ReadSide \/ Render \/ (\E e \in side : ClickChannel(e))
           \/ (\E v \in Registered : ClickPerson(v))
    PROVE PageInv'
<1>1. TypeInv /\ Undisturbed /\ PageInv
  BY DEF ChatInv
<1>2. TrueNext(side) /\ TrueNext(page) /\ TrueNext(Listed) /\ TrueNext(NoList)
  <2>1. TrueList(NoList)
    BY DEF TrueList, NoList
  <2> QED BY <1>1, <2>1, ListedIsTrue, TrueStays DEF PageInv
<1>3. \A v \in meant, c \in address : ReachedNext(v, c)
  BY <1>1, TrueStays DEF PageInv
<1>4. CASE ReadSide
  <2>1. side' = Listed /\ UNCHANGED <<page, rendered, address, meant, disturbed>>
    BY <1>4 DEF ReadSide
  <2> QED BY <1>1, <1>2, <1>3, <2>1, PageNext DEF PageInv
<1>5. CASE Render
  <2>1. /\ rendered' = TRUE /\ UNCHANGED <<side, address, meant, disturbed>>
        /\ page' = Listed \/ page' = NoList
    BY <1>5 DEF Render
  <2>2. ASSUME NEW v \in meant, NEW c \in address \ disturbed PROVE \E e \in Listed : e.id = c
    <3>1. c \in Rows /\ Members(table[c]) = {Me, v}
      BY <1>1 DEF PageInv, Reached
    <3> QED BY <1>1, <3>1, ListedIsTrue
  <2>3. page' # NoList =>
          \A v \in meant' : \A c \in address' \ disturbed' : \E e \in page' : e.id = c
    BY <2>1, <2>2
  <2> QED BY <1>1, <1>2, <1>3, <2>1, <2>3, PageNext DEF PageInv
<1>6. ASSUME NEW e \in side, ClickChannel(e) PROVE PageInv'
  <2>1. e.id \in Channel
    BY <1>1 DEF PageInv, TrueList, TrueEntry, Rows
  <2>2. Push(e.id, {}) /\ UNCHANGED <<side, page>>
    BY <1>6 DEF ClickChannel
  <2> QED BY <1>1, <2>1, <2>2, PushReaches
<1>7. ASSUME NEW v \in Registered, ClickPerson(v) PROVE PageInv'
  <2>1. PICK e \in DirectWith(v) : Push(e.id, {v})
    BY <1>7 DEF ClickPerson
  <2>2. UNCHANGED <<side, page>>
    BY <1>7 DEF ClickPerson
  <2>3. Reached(v, e.id)
    BY <1>1, FoundIsThePairs DEF PageInv
  <2>4. ReachedNext(v, e.id) /\ e.id \in Channel
    BY <2>3, TrueStays DEF Reached, Rows
  <2> QED BY <1>1, <2>1, <2>2, <2>4, PushReaches
<1> QED BY <1>4, <1>5, <1>6, <1>7

\* The page follows the answer to a request of its own.
LEMMA FollowReaches ==
    ASSUME ChatInv, FacesStay, NEW q \in Request, Serve(q)
    PROVE PageInv'
<1>1. TypeInv /\ Undisturbed /\ PageInv /\ AskedInv
  BY DEF ChatInv
<1>2. /\ Find(q) \/ FindName(q) \/ Count(q) \/ Save(q) \/ Throws(q)
      /\ Follow(q) /\ Disturb(q)
  BY DEF Serve
<1>3. CASE UNCHANGED shown
  BY <1>1, <1>3, PageRests
<1>4. ASSUME ~UNCHANGED shown PROVE PageInv'
  <2> DEFINE m == IF op[q].kind = "openDirect" THEN {op[q].with} ELSE {}
  <2>1. q \in asked /\ op[q].kind \in {"openDirect", "create"}
    BY <1>2, <1>4 DEF Follow
  <2>2. PICK c \in Answered(q) : Push(c, m) /\ UNCHANGED <<side, page>>
    BY <1>2, <1>4 DEF Follow
  <2>3. \/ pc[q] = "findName" /\ c \in Named(PairName(op[q].by, op[q].with))
        \/ pc[q] = "save" /\ c \in Channel /\ table'[c] # NoRow /\ table[c] = NoRow
    <3>1. CASE pc[q] = "findName"
      BY <3>1, <2>2 DEF Answered
    <3>2. CASE pc[q] = "save" /\ Creates(q)
      BY <3>2, <2>2 DEF Answered
    <3>3. CASE ~(pc[q] = "findName") /\ ~(pc[q] = "save" /\ Creates(q))
      <4>1. Answered(q) = {}
        BY <3>3 DEF Answered
      <4> QED BY <2>2, <4>1
    <3> QED BY <3>1, <3>2, <3>3
  <2>4. c \in Channel
    BY <2>3 DEF Named, Rows
  <2>5. CASE op[q].kind = "openDirect"
    <3>1. op[q].by = Me /\ op[q].with \in Registered
      BY <1>1, <2>1, <2>5 DEF AskedInv
    <3> DEFINE v == op[q].with
    <3>2. ASSUME c \in Named(PairName(Me, v)) PROVE ReachedNext(v, c)
      BY <1>1, <3>1, <3>2, NamedIsThePairs, TrueStays
    <3>3. ASSUME pc[q] = "save", table'[c] # NoRow, table[c] = NoRow PROVE ReachedNext(v, c)
      <4>1. c \in Rows' \ Rows
        BY <2>4, <3>3 DEF Rows
      <4>2. c \notin disturbed' => RowOf(table'[c], Me, v)
        BY <1>1, <1>2, <3>1, <4>1, SaveDisturbs
      <4>3. Me \in Registered
        BY MeAssumption
      <4>4. c \notin disturbed' => Members(table'[c]) = {Me, v}
        BY <3>1, <4>2, <4>3 DEF RowOf
      <4> QED BY <4>1, <4>4 DEF ReachedNext
    <3>5. ReachedNext(v, c)
      BY <2>3, <3>1, <3>2, <3>3
    <3>6. m = {v}
      BY <2>5
    <3> HIDE DEF m, v
    <3>7. m \subseteq Registered /\ \A u \in m : ReachedNext(u, c)
      BY <3>1, <3>5, <3>6 DEF v
    <3> QED BY <1>1, <2>2, <2>4, <3>7, PushReaches
  <2>6. CASE op[q].kind = "create"
    <3>1. m = {}
      BY <2>6
    <3> HIDE DEF m
    <3> QED BY <1>1, <2>2, <2>4, <3>1, PushReaches
  <2> QED BY <2>1, <2>5, <2>6
<1> QED BY <1>3, <1>4

\* The page waits for nothing that it has not asked for.
LEMMA AskedStays ==
    ASSUME ChatInv, [ChatNext]_chatVars
    PROVE AskedInv'
<1>1. TypeInv /\ AskedInv
  BY DEF ChatInv
<1>2. ASSUME asked' = asked,
             \A r \in Request : pc[r] # "idle" =>
                pc'[r] # "idle" /\ (op'[r] = op[r] \/ op'[r] = NoCommand)
      PROVE AskedInv'
  BY <1>1, <1>2 DEF AskedInv, NoCommand
<1>3. ASSUME NEW q \in Request, NEW c, Receive(q, c)
      PROVE /\ pc[q] = "idle" /\ pc'[q] # "idle" /\ op'[q] = c
            /\ \A r \in Request \ {q} : pc'[r] = pc[r] /\ op'[r] = op[r]
  <2>1. /\ pc[q] = "idle" /\ op' = [op EXCEPT ![q] = c]
        /\ \E a \in {"save", "findName", "count", "find"} : pc' = [pc EXCEPT ![q] = a]
    BY <1>3 DEF Receive
  <2> QED BY <1>1, <2>1 DEF TypeInv, TypeOK
<1>4. ASSUME NEW q \in Request, NEW c, Ask(q, c),
             c.kind = "openDirect" => c.by = Me /\ c.with \in Registered
      PROVE AskedInv'
  <2>1. Receive(q, c) /\ asked' = asked \cup {q}
    BY <1>4 DEF Ask
  <2> QED BY <1>1, <1>3, <1>4, <2>1 DEF AskedInv
<1>5. ASSUME NEW q \in Request, Find(q) \/ FindName(q) \/ Count(q) \/ Save(q) \/ Throws(q)
      PROVE \A r \in Request : pc[r] # "idle" =>
                pc'[r] # "idle" /\ (op'[r] = op[r] \/ op'[r] = NoCommand)
  <2>1. End(q) \/ (pc' = [pc EXCEPT ![q] = "save"] /\ op' = op)
    BY <1>1, <1>5, StepIs
  <2> QED BY <1>1, <2>1 DEF End, TypeInv, TypeOK
<1>6. CASE UNCHANGED <<vars, asked>>
  BY <1>2, <1>6 DEF vars
<1>7. CASE UNCHANGED chatVars
  BY <1>6, <1>7 DEF chatVars, pageVars
<1>8. CASE ReadSide \/ Render \/ (\E e \in side : ClickChannel(e)) \/ (\E v \in Registered : ClickPerson(v))
  BY <1>6, <1>8 DEF ReadSide, Render, ClickChannel, ClickPerson
<1>9. ASSUME NEW q \in Request, NEW v \in Registered, CreateDM(q, v) \/ AddFromHeader(q, v)
      PROVE AskedInv'
  BY <1>4, <1>9 DEF CreateDM, AddFromHeader
<1>10. ASSUME NEW q \in Request, NEW n \in ChosenName, NEW t \in ChannelType,
              CreateChannel(q, n, t)
       PROVE AskedInv'
  BY <1>4, <1>10 DEF CreateChannel
<1>11. ASSUME NEW q \in Request, MarkRead(q) \/ PostMessage(q) \/ List(q) PROVE AskedInv'
  BY <1>4, <1>11 DEF MarkRead, PostMessage, List
<1>12. ASSUME NEW q \in Request, Others(q) PROVE AskedInv'
  <2>1. PICK c \in Command : Receive(q, c)
    BY <1>12 DEF Others
  <2>2. asked' = asked
    BY <1>12 DEF Others, pageVars
  <2> QED BY <1>2, <1>3, <2>1, <2>2
<1>13. ASSUME NEW q \in Request, Serve(q) \/ Fail(q) PROVE AskedInv'
  <2>1. asked' = asked /\ (Find(q) \/ FindName(q) \/ Count(q) \/ Save(q) \/ Throws(q))
    BY <1>13 DEF Serve, Fail
  <2> QED BY <1>2, <1>5, <2>1
<1> QED BY <1>7, <1>8, <1>9, <1>10, <1>11, <1>12, <1>13 DEF ChatNext

LEMMA ChatHolds == ChatSpec => []ChatInv
<1>1. ChatInit => ChatInv
  <2> SUFFICES ASSUME ChatInit PROVE ChatInv
    OBVIOUS
  <2>1. TypeInv
    BY TypesInit DEF ChatInit
  <2>2. InFlight = {} /\ Rows = {}
    BY DEF ChatInit, Init, InFlight, Rows
  <2>3. Undisturbed
    BY <2>2 DEF Undisturbed
  <2> QED BY <2>1, <2>3 DEF ChatInit, ChatInv, PageInv, AskedInv, TrueList, NoList
<1>2. ChatInv /\ [ChatNext]_chatVars => ChatInv'
  <2> SUFFICES ASSUME ChatInv, [ChatNext]_chatVars PROVE ChatInv'
    OBVIOUS
  <2>1. TypeInv'
    BY ChatStep, TypesStep DEF ChatInv
  <2>2. Undisturbed' /\ FacesStay /\ disturbed' \subseteq Channel
    BY <2>1, UndisturbedStep DEF ChatInv, FacesStay
  <2>3. AskedInv'
    BY AskedStays
  <2>4. ASSUME UNCHANGED shown PROVE PageInv'
    BY <2>2, <2>4, PageRests DEF ChatInv
  <2>5. ASSUME \/ ReadSide \/ Render \/ (\E e \in side : ClickChannel(e))
               \/ (\E v \in Registered : ClickPerson(v))
        PROVE PageInv'
    BY <2>2, <2>5, PageActs
  <2>6. ASSUME NEW q \in Request, Serve(q) PROVE PageInv'
    BY <2>2, <2>6, FollowReaches
  <2>7. UNCHANGED chatVars => UNCHANGED shown
    BY DEF chatVars, pageVars, shown
  <2>8. \A c : \A q \in Request : Ask(q, c) => UNCHANGED shown
    BY DEF Ask
  <2>9. ASSUME NEW q \in Request, Others(q) \/ Fail(q) PROVE UNCHANGED shown
    BY <2>9 DEF Others, Fail, pageVars, shown
  <2>10. ASSUME NEW q \in Request,
                \/ \E v \in Registered : CreateDM(q, v) \/ AddFromHeader(q, v)
                \/ \E n \in ChosenName, t \in ChannelType : CreateChannel(q, n, t)
                \/ MarkRead(q) \/ PostMessage(q) \/ List(q)
         PROVE UNCHANGED shown
    BY <2>8, <2>10 DEF CreateDM, AddFromHeader, CreateChannel, MarkRead, PostMessage, List
  <2>11. PageInv'
    BY <2>4, <2>5, <2>6, <2>7, <2>9, <2>10 DEF ChatNext
  <2> QED BY <2>1, <2>2, <2>3, <2>11 DEF ChatInv
<1> QED BY <1>1, <1>2, PTL DEF ChatSpec

\* The page's variables keep their types.
THEOREM ChatTypeCorrect == ChatSpec => []ChatTypeOK
<1>1. ChatInv => ChatTypeOK
  BY RegisteredAssumption DEF ChatInv, TypeInv, PageInv, AskedInv, TrueList, TrueEntry, ChatTypeOK
<1> QED BY <1>1, ChatHolds, PTL

\* Who clicks on a person is led to the channel of the two and nobody else, by
\* lists of any age, late answers and the saves of others, unless the channel
\* itself was disturbed; and a page with a list shows this channel.
THEOREM ClickedIsReached == ChatSpec => []PersonIsReached
<1>1. ChatInv => PersonIsReached
  <2> SUFFICES ASSUME ChatInv, NEW v \in meant, NEW c \in address \ disturbed
               PROVE /\ table[c].type = "DIRECT"
                     /\ {u \in User : IsMember(table[c], u)} = {Me, v}
                     /\ rendered /\ page # NoList =>
                           Open = {[id |-> c, type |-> "DIRECT", members |-> {Me, v}]}
    BY DEF PersonIsReached
  <2>1. c \in Rows /\ Members(table[c]) = {Me, v}
    BY DEF ChatInv, PageInv, Reached
  <2>2. table[c].type = "DIRECT"
    BY <2>1 DEF ChatInv, Undisturbed, RowOf
  <2>3. ASSUME rendered, page # NoList
        PROVE Open = {[id |-> c, type |-> "DIRECT", members |-> {Me, v}]}
    <3>1. PICK e \in page : e.id = c
      BY <2>3 DEF ChatInv, PageInv
    <3>2. e \in Entry /\ e.type = "DIRECT" /\ e.members = {Me, v}
      BY <2>1, <2>2, <3>1 DEF ChatInv, PageInv, TrueList, TrueEntry
    <3>3. e = [id |-> c, type |-> "DIRECT", members |-> {Me, v}]
      BY <3>1, <3>2 DEF Entry
    <3>4. \A f \in page : f.id \in address => f = e
      BY <3>1 DEF ChatInv, PageInv, TrueList
    <3>5. Open = {f \in page : f.id \in address}
      BY <3>1 DEF Open
    <3> QED BY <3>1, <3>3, <3>4, <3>5
  <2> QED BY <2>1, <2>2, <2>3 DEF Members
<1> QED BY <1>1, ChatHolds, PTL
=============================================================================
