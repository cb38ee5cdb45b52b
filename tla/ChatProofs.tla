----------------------------- MODULE ChatProofs -----------------------------
(***************************************************************************)
(* Chat keeps its types, a deleted message stays deleted, the replies are  *)
(* counted, but for stale saves, and a list whose events have all arrived  *)
(* shows the table, but for what its browser may not know of: for any      *)
(* number of messages, browsers, processes and requests.                   *)
(***************************************************************************)
EXTENDS Chat, FiniteSetTheorems, TLAPS

USE ExistingAssumption, BoundAssumption

-----------------------------------------------------------------------------
(* Rows, commands and what is done to them.                                *)

\* No row and no item of a list is the absent one.
LEMMA NoRowIsNone == NoRow \notin Row /\ NoRow \notin Shown
<1>1. \A t \in Text : t # {}
  BY DEF Text
<1>2. NoRow.content = {}
  BY DEF NoRow
<1> QED BY <1>1, <1>2 DEF Row, Shown

\* NoCommand is none of the commands.
LEMMA NoCommandIsNone == NoCommand \notin Command
  BY DEF NoCommand, Command, Kind

\* The request of a text.
LEMMA Texts == \A q \in Request : {q} \in Text
  BY DEF Text

\* A method of a message changes at most one column, returns at most one copy,
\* and leaves a deleted message deleted and its text as it is.
LEMMA Executed ==
    ASSUME NEW c \in Command, c.kind \in Kind, NEW q \in Request, NEW w \in Row
    PROVE  /\ Execute(c, q, w) = {} \/ \E v \in Row : Execute(c, q, w) = {v}
           /\ \A v \in Execute(c, q, w) :
                /\ v \in Row
                /\ v.parent = w.parent /\ v.replies = w.replies
                /\ w.deleted => v.deleted /\ v.content = w.content
<1>0. {q} \in Text /\ c.by \in Browser
  BY Texts DEF Command
<1>1. CASE c.kind = "edit"
  <2>1. Execute(c, q, w) = Edit(w, q)
    BY <1>1 DEF Execute
  <2>2. w.deleted \in BOOLEAN /\ [w EXCEPT !.content = {q}] \in Row
    BY <1>0 DEF Row
  <2>3. CASE w.deleted
    BY <2>1, <2>3 DEF Edit
  <2>4. CASE ~w.deleted
    <3>1. Execute(c, q, w) = {[w EXCEPT !.content = {q}]}
      BY <2>1, <2>4 DEF Edit
    <3> QED BY <3>1, <2>2, <2>4 DEF Row
  <2> QED BY <2>2, <2>3, <2>4
<1>2. CASE c.kind = "delete"
  <2>1. Execute(c, q, w) = SoftDelete(w)
    BY <1>2 DEF Execute
  <2>2. w.deleted \in BOOLEAN /\ [w EXCEPT !.deleted = TRUE] \in Row
    BY DEF Row
  <2>3. CASE w.deleted
    BY <2>1, <2>3 DEF SoftDelete
  <2>4. CASE ~w.deleted
    <3>1. Execute(c, q, w) = {[w EXCEPT !.deleted = TRUE]}
      BY <2>1, <2>4 DEF SoftDelete
    <3> QED BY <3>1, <2>2, <2>4 DEF Row
  <2> QED BY <2>2, <2>3, <2>4
<1>3. CASE c.kind \in {"pin", "unpin"}
  <2>1. Execute(c, q, w) = {[w EXCEPT !.pinned = (c.kind = "pin")]}
    BY <1>3 DEF Execute
  <2>2. [w EXCEPT !.pinned = (c.kind = "pin")] \in Row
    BY DEF Row
  <2> QED BY <2>1, <2>2 DEF Row
<1>4. CASE c.kind = "react"
  <2>1. Execute(c, q, w) = {[w EXCEPT !.reactions = @ \cup {c.by}]}
    BY <1>4 DEF Execute
  <2> QED BY <2>1, <1>0 DEF Row
<1>5. CASE c.kind = "unreact"
  <2>1. Execute(c, q, w) = {[w EXCEPT !.reactions = @ \ {c.by}]}
    BY <1>5 DEF Execute
  <2> QED BY <2>1, <1>0 DEF Row
<1> QED BY <1>1, <1>2, <1>3, <1>4, <1>5 DEF Kind

\* A new message is a row without reactions and replies.
LEMMA CreatedIsRow ==
    ASSUME NEW t, {t} \in Text, NEW b \in Browser, NEW p \in {{}} \cup {{m} : m \in Message}
    PROVE  /\ Created(t, b, p) \in Row
           /\ Created(t, b, p).parent = p /\ Created(t, b, p).replies = 0
  BY DEF Created, Row

\* A counted reply changes the number alone.
LEMMA CountedIsRow ==
    ASSUME NEW w \in Row
    PROVE  /\ Counted(w) \in Row
           /\ Counted(w).parent = w.parent /\ Counted(w).replies = w.replies + 1
           /\ Counted(w).deleted = w.deleted /\ Counted(w).content = w.content
  BY DEF Counted, Row

-----------------------------------------------------------------------------
(* Types.                                                                  *)

\* what is on its way to a browser
Event ==
    [type : {"received"}, c : Command, row : Row]
    \cup [type : {"edited"}, c : Command, row : [content : Text]]
    \cup [type : {"deleted", "pinned"}, c : Command, row : {NoRow}]
    \cup [type : {"reactions"}, c : Command, row : [reactions : SUBSET Browser]]
    \cup [type : {"success", "error"}, c : Command, row : [content : {{q} : q \in Request}]]

Typed == TypeOK /\ inbox \in [Browser -> Seq(Event)]

\* what a request holds at each await
StageOf(q) ==
    /\ q \in InFlight => op[q] \in Command /\ op[q].to \subseteq Existing
    /\ pc[q] \in {"channel", "findParent", "saveParent", "saveMessage"} => op[q].kind = "send"
    /\ pc[q] \in {"findParent", "saveParent"} => op[q].to # {}
    /\ pc[q] \in {"find", "save"} => op[q].kind \in Kind
    /\ pc[q] = "readBack" => op[q].kind \in {"send", "react"}
    /\ q \in InFlight /\ op[q].kind # "send" => op[q].to = {}
    /\ pc[q] \in {"saveParent", "save"} => loaded[q] \in Row
    /\ pc[q] = "save" => Execute(op[q], q, loaded[q]) # {}
    /\ pc[q] = "emit" /\ op[q].kind \in {"send", "react", "unreact"} => loaded[q] \in Row
    /\ pc[q] = "waits" => op[q] \in Command /\ op[q].kind \in Kind /\ op[q].to = {}

Staged == \A q \in Request : StageOf(q)

\* the awaits of a command that changes a message
AtWork == {"waits", "find", "save", "readBack", "emit"}

\* What is acted upon, shown or told is in the table.
Present ==
    /\ \A m \in Existing : table[m] # NoRow
    /\ \A q \in Request : pc[q] \in AtWork => table[op[q].on] # NoRow
    /\ \A b \in Browser, m \in Message : view[b][m] # NoRow => table[m] # NoRow
    /\ \A b \in Browser : \A l \in fetch[b] : \A m \in Message : l[m] # NoRow => table[m] # NoRow
    /\ \A b \in Browser : \A e \in InTransit(b) :
            e.type \in {"received", "success"} => table[e.c.on] # NoRow

Core == Typed /\ Staged /\ Present

\* Nothing is in flight, shown or told at first.
LEMMA CoreInit == Init => Core
<1> SUFFICES ASSUME Init PROVE Core
  OBVIOUS
<1>1. /\ \A q \in Request : pc[q] = "idle" /\ q \notin InFlight
      /\ \A b \in Browser : InTransit(b) = {} /\ fetch[b] = {}
      /\ \A b \in Browser, m \in Message : view[b][m] = NoRow
  BY DEF Init, InFlight, InTransit
<1>2. PICK by \in [Existing -> Browser] :
         table = [m \in Message |-> IF m \in Existing THEN Created("first", by[m], {}) ELSE NoRow]
  BY DEF Init
<1>3. \A m \in Existing : m \in Message /\ table[m] \in Row
  <2> TAKE m \in Existing
  <2>1. {"first"} \in Text
    BY DEF Text
  <2> QED BY <2>1, <1>2, CreatedIsRow
<1>4. TypeOK
  <2>1. table \in [Message -> Row \cup {NoRow}]
    BY <1>2, <1>3
  <2>2. /\ thread \in [Browser -> {{}} \cup {{m} : m \in Existing}]
        /\ view \in [Browser -> [Message -> Shown \cup {NoRow}]]
        /\ op \in [Request -> Command \cup {NoCommand}]
        /\ loaded \in [Request -> Row \cup {NoRow}]
    BY DEF Init
  <2>3. /\ pc \in [Request -> {"idle"}] /\ server \in [Browser -> {{}}]
        /\ sockets \in [Browser -> Nat] /\ joined \in [Browser -> BOOLEAN]
        /\ temp \in [Browser -> SUBSET Request]
        /\ fetches \in 0..MaxFetch /\ faults \in 0..MaxFault
        /\ fetch \in [Browser -> {{}}]
    BY DEF Init
  <2>4. /\ raced \subseteq Message /\ unanswered \subseteq Request
        /\ doubt \in [Browser -> SUBSET Message] /\ hazy \in [Browser -> SUBSET Message]
        /\ orphans \in [Message -> SUBSET Request]
    BY DEF Init
  <2> QED BY <2>1, <2>2, <2>3, <2>4, <1>1 DEF TypeOK
<1>5. inbox \in [Browser -> Seq(Event)]
  BY DEF Init
<1>6. Staged
  BY <1>1 DEF Staged, StageOf
<1>7. Present
  BY <1>1, <1>3, NoRowIsNone DEF Present, AtWork
<1> QED BY <1>4, <1>5, <1>6, <1>7 DEF Core, Typed

-----------------------------------------------------------------------------
(* Lists and what changes them.                                            *)

List == [Message -> Shown \cup {NoRow}]

\* A list shows of a row what it shows of a message, if the row belongs to it.
LEMMA ShownIsShown ==
    ASSUME NEW b \in Browser, NEW w \in Row \cup {NoRow}
    PROVE  /\ ShownOf(b, w) \in Shown \cup {NoRow}
           /\ ShownOf(b, w) # NoRow <=> Belongs(b, w)
           /\ Belongs(b, w) => w \in Row /\ w.parent = thread[b]
<1>1. CASE Belongs(b, w)
  <2>1. w \in Row
    BY <1>1 DEF Belongs
  <2>2. ShownOf(b, w) = [content |-> w.content, pinned |-> w.pinned,
                         reactions |-> w.reactions, replies |-> w.replies]
    BY <1>1 DEF ShownOf
  <2>3. ShownOf(b, w) \in Shown
    BY <2>1, <2>2 DEF Row, Shown
  <2> QED BY <1>1, <2>1, <2>3, NoRowIsNone DEF Belongs
<1>2. CASE ~Belongs(b, w)
  BY <1>2 DEF ShownOf
<1> QED BY <1>1, <1>2

\* What is read for a browser is a list of messages in the table.
LEMMA ListedIsList ==
    ASSUME NEW b \in Browser, table \in [Message -> Row \cup {NoRow}]
    PROVE  /\ Listed(b) \in List
           /\ \A m \in Message : Listed(b)[m] # NoRow => table[m] # NoRow
<1>1. \A m \in Message : table[m] \in Row \cup {NoRow}
  OBVIOUS
<1>2. \A m \in Message : ShownOf(b, table[m]) \in Shown \cup {NoRow}
  BY <1>1, ShownIsShown
<1>3. \A m \in Message : ShownOf(b, table[m]) # NoRow => table[m] # NoRow
  BY <1>1, ShownIsShown, NoRowIsNone
<1> QED BY <1>2, <1>3 DEF Listed, List

\* The changes of a list leave it a list and show no message that was not shown.
LEMMA Changes ==
    ASSUME NEW l \in List, NEW m \in Message
    PROVE  /\ \A t \in Text :
                /\ WithContent(l, m, t) \in List
                /\ \A a \in Message : WithContent(l, m, t)[a] # NoRow => l[a] # NoRow
           /\ \A p \in BOOLEAN :
                /\ WithPinned(l, m, p) \in List
                /\ \A a \in Message : WithPinned(l, m, p)[a] # NoRow => l[a] # NoRow
           /\ \A r \in SUBSET Browser :
                /\ WithReactions(l, m, r) \in List
                /\ \A a \in Message : WithReactions(l, m, r)[a] # NoRow => l[a] # NoRow
           /\ \A M :
                /\ WithReply(l, M) \in List
                /\ \A a \in Message : WithReply(l, M)[a] # NoRow => l[a] # NoRow
           /\ Without(l, m) \in List
           /\ \A a \in Message : Without(l, m)[a] # NoRow => l[a] # NoRow
<1>0. \A a \in Message : l[a] \in Shown \cup {NoRow}
  BY DEF List
<1>1. ASSUME NEW t \in Text
      PROVE  /\ WithContent(l, m, t) \in List
             /\ \A a \in Message : WithContent(l, m, t)[a] # NoRow => l[a] # NoRow
  <2>1. CASE l[m] = NoRow
    BY <2>1 DEF WithContent
  <2>2. CASE l[m] # NoRow
    <3>1. [l[m] EXCEPT !.content = t] \in Shown
      BY <1>0, <2>2 DEF Shown
    <3>2. WithContent(l, m, t) = [l EXCEPT ![m] = [l[m] EXCEPT !.content = t]]
      BY <2>2 DEF WithContent, List
    <3> QED BY <2>2, <3>1, <3>2 DEF List
  <2> QED BY <2>1, <2>2
<1>2. ASSUME NEW p \in BOOLEAN
      PROVE  /\ WithPinned(l, m, p) \in List
             /\ \A a \in Message : WithPinned(l, m, p)[a] # NoRow => l[a] # NoRow
  <2>1. CASE l[m] = NoRow
    BY <2>1 DEF WithPinned
  <2>2. CASE l[m] # NoRow
    <3>1. [l[m] EXCEPT !.pinned = p] \in Shown
      BY <1>0, <2>2 DEF Shown
    <3>2. WithPinned(l, m, p) = [l EXCEPT ![m] = [l[m] EXCEPT !.pinned = p]]
      BY <2>2 DEF WithPinned, List
    <3> QED BY <2>2, <3>1, <3>2 DEF List
  <2> QED BY <2>1, <2>2
<1>3. ASSUME NEW r \in SUBSET Browser
      PROVE  /\ WithReactions(l, m, r) \in List
             /\ \A a \in Message : WithReactions(l, m, r)[a] # NoRow => l[a] # NoRow
  <2>1. CASE l[m] = NoRow
    BY <2>1 DEF WithReactions
  <2>2. CASE l[m] # NoRow
    <3>1. [l[m] EXCEPT !.reactions = r] \in Shown
      BY <1>0, <2>2 DEF Shown
    <3>2. WithReactions(l, m, r) = [l EXCEPT ![m] = [l[m] EXCEPT !.reactions = r]]
      BY <2>2 DEF WithReactions, List
    <3> QED BY <2>2, <3>1, <3>2 DEF List
  <2> QED BY <2>1, <2>2
<1>4. ASSUME NEW M
      PROVE  /\ WithReply(l, M) \in List
             /\ \A a \in Message : WithReply(l, M)[a] # NoRow => l[a] # NoRow
  <2>1. \A a \in Message : l[a] # NoRow => [l[a] EXCEPT !.replies = @ + 1] \in Shown
    BY <1>0 DEF Shown
  <2> QED BY <1>0, <2>1 DEF WithReply, List
<1>5. /\ Without(l, m) \in List
      /\ \A a \in Message : Without(l, m)[a] # NoRow => l[a] # NoRow
  BY DEF Without, List
<1> QED BY <1>1, <1>2, <1>3, <1>4, <1>5

\* What a browser does to its list in advance leaves a list of the same messages.
LEMMA OptimisticIsList ==
    ASSUME NEW l \in List, NEW c \in Command, NEW q \in Request,
           c.kind = "send" \/ l[c.on] # NoRow
    PROVE  /\ Optimistic(l, c, q) \in List
           /\ \A a \in Message : Optimistic(l, c, q)[a] # NoRow => l[a] # NoRow
<1>0. c.on \in Message /\ c.by \in Browser /\ {q} \in Text /\ c.kind \in {"send"} \cup Kind
  BY Texts DEF Command
<1>1. CASE c.kind = "edit"
  <2>1. Optimistic(l, c, q) = WithContent(l, c.on, {q})
    BY <1>1 DEF Optimistic
  <2>2. /\ WithContent(l, c.on, {q}) \in List
        /\ \A a \in Message : WithContent(l, c.on, {q})[a] # NoRow => l[a] # NoRow
    BY <1>0, Changes
  <2> QED BY <2>1, <2>2
<1>2. CASE c.kind = "delete"
  <2>1. Optimistic(l, c, q) = Without(l, c.on)
    BY <1>2 DEF Optimistic
  <2> QED BY <2>1, <1>0, Changes
<1>3. CASE c.kind \in {"pin", "unpin"}
  <2>1. PICK p \in BOOLEAN : p = (c.kind = "pin")
    OBVIOUS
  <2>2. Optimistic(l, c, q) = WithPinned(l, c.on, p)
    BY <1>3, <2>1 DEF Optimistic
  <2>3. /\ WithPinned(l, c.on, p) \in List
        /\ \A a \in Message : WithPinned(l, c.on, p)[a] # NoRow => l[a] # NoRow
    BY <1>0, Changes
  <2> QED BY <2>2, <2>3
<1>4. CASE c.kind = "react"
  <2>1. Optimistic(l, c, q) = WithReactions(l, c.on, l[c.on].reactions \cup {c.by})
    BY <1>4 DEF Optimistic
  <2>2. l[c.on].reactions \cup {c.by} \in SUBSET Browser
    BY <1>4, <1>0 DEF List, Shown
  <2> QED BY <2>1, <2>2, <1>0, Changes
<1>5. CASE c.kind = "unreact"
  <2>1. Optimistic(l, c, q) = WithReactions(l, c.on, l[c.on].reactions \ {c.by})
    BY <1>5 DEF Optimistic
  <2>2. l[c.on].reactions \ {c.by} \in SUBSET Browser
    BY <1>5, <1>0 DEF List, Shown
  <2> QED BY <2>1, <2>2, <1>0, Changes
<1>6. CASE c.kind = "send"
  <2>1. Optimistic(l, c, q) = l
    BY <1>6 DEF Optimistic
  <2> QED BY <2>1
<1> QED BY <1>0, <1>1, <1>2, <1>3, <1>4, <1>5, <1>6 DEF Kind

\* What an event does to a list, by its type.
LEMMA Applied ==
    ASSUME NEW b \in Browser, NEW l \in List, NEW t \in SUBSET Request, NEW e \in Event
    PROVE  /\ IsDeafTo(b, e.type) => Apply(b, l, t, e) = l
           /\ e.type = "received" => Apply(b, l, t, e) = Received(b, l, e)
           /\ e.type = "edited" => Apply(b, l, t, e) = WithContent(l, e.c.on, e.row.content)
           /\ e.type = "deleted" => Apply(b, l, t, e) = Without(l, e.c.on)
           /\ e.type = "pinned" /\ ~IsDeafTo(b, e.type) =>
                 Apply(b, l, t, e) = WithPinned(l, e.c.on, e.c.kind = "pin")
           /\ e.type = "reactions" => Apply(b, l, t, e) = WithReactions(l, e.c.on, e.row.reactions)
           /\ e.type = "error" => Apply(b, l, t, e) = l
           /\ e.type = "success" => \E q \in Request :
                 /\ e.row.content = {q}
                 /\ Apply(b, l, t, e) =
                        IF q \in t THEN [l EXCEPT ![e.c.on] = ShownOf(b, Created(q, b, e.c.to))]
                        ELSE l
<1>0. \A k : IsDeafTo(b, k) => k = "pinned"
  BY DEF IsDeafTo
<1>1. CASE IsDeafTo(b, e.type)
  BY <1>0, <1>1 DEF Apply
<1>2. CASE e.type = "received"
  BY <1>0, <1>2 DEF Apply
<1>3. CASE e.type = "edited"
  BY <1>0, <1>3 DEF Apply
<1>4. CASE e.type = "deleted"
  BY <1>0, <1>4 DEF Apply
<1>5. CASE e.type = "pinned" /\ ~IsDeafTo(b, e.type)
  BY <1>0, <1>5 DEF Apply
<1>6. CASE e.type = "reactions"
  BY <1>0, <1>6 DEF Apply
<1>7. CASE e.type = "error"
  BY <1>0, <1>7 DEF Apply
<1>8. CASE e.type = "success"
  <2>1. PICK q \in Request : e.row.content = {q}
    BY <1>8 DEF Event
  <2>2. (CHOOSE a \in e.row.content : TRUE) = q
    BY <2>1
  <2>3. Apply(b, l, t, e) = IF ~(e.row.content \subseteq t) THEN l
                            ELSE [l EXCEPT ![e.c.on] =
                                    ShownOf(b, Created(CHOOSE a \in e.row.content : TRUE, b, e.c.to))]
    BY <1>0, <1>8 DEF Apply
  <2>4. q \in t <=> e.row.content \subseteq t
    BY <2>1
  <2> QED BY <1>0, <1>8, <2>1, <2>2, <2>3, <2>4
<1> QED BY <1>0, <1>1, <1>2, <1>3, <1>4, <1>5, <1>6, <1>7, <1>8 DEF Event

-----------------------------------------------------------------------------
(* What is on its way.                                                     *)

Items(s) == {s[i] : i \in 1..Len(s)}

\* The items of a sequence that something joins or leaves.
LEMMA ItemsOf ==
    ASSUME NEW S, NEW s \in Seq(S)
    PROVE  /\ Items(s) \subseteq S
           /\ \A t \in Seq(S) : s \o t \in Seq(S) /\ Items(s \o t) = Items(s) \cup Items(t)
           /\ \A x \in S : Append(s, x) \in Seq(S) /\ Items(Append(s, x)) = Items(s) \cup {x}
           /\ \A x \in S : <<x>> \in Seq(S) /\ Items(<<x>>) = {x}
           /\ <<>> \in Seq(S) /\ Items(<<>>) = {}
           /\ s # <<>> => Head(s) \in Items(s) /\ Tail(s) \in Seq(S) /\ Items(Tail(s)) \subseteq Items(s)
<1>1. ASSUME NEW t \in Seq(S)
      PROVE  s \o t \in Seq(S) /\ Items(s \o t) = Items(s) \cup Items(t)
  <2>1. s \o t \in Seq(S) /\ Len(s \o t) = Len(s) + Len(t)
    OBVIOUS
  <2>2. \A i \in 1..Len(s) : (s \o t)[i] = s[i]
    OBVIOUS
  <2>3. \A i \in 1..Len(t) : (s \o t)[Len(s) + i] = t[i]
    OBVIOUS
  <2>4. \A i \in 1..(Len(s) + Len(t)) :
            i \in 1..Len(s) \/ \E j \in 1..Len(t) : i = Len(s) + j
    <3>1. Len(s) \in Nat /\ Len(t) \in Nat
      OBVIOUS
    <3>2. \A i \in 1..(Len(s) + Len(t)) : i \notin 1..Len(s) =>
             i - Len(s) \in 1..Len(t) /\ i = Len(s) + (i - Len(s))
      BY <3>1
    <3> QED BY <3>2
  <2>5. /\ \A i \in 1..Len(s) : i \in 1..(Len(s) + Len(t))
        /\ \A j \in 1..Len(t) : Len(s) + j \in 1..(Len(s) + Len(t))
    OBVIOUS
  <2>6. Items(s \o t) \subseteq Items(s) \cup Items(t)
    BY <2>1, <2>2, <2>3, <2>4 DEF Items
  <2>7. Items(s) \cup Items(t) \subseteq Items(s \o t)
    BY <2>1, <2>2, <2>3, <2>5 DEF Items
  <2> QED BY <2>1, <2>6, <2>7
<1>2. ASSUME NEW x \in S
      PROVE  Append(s, x) \in Seq(S) /\ Items(Append(s, x)) = Items(s) \cup {x}
  <2>1. /\ Append(s, x) \in Seq(S) /\ Len(Append(s, x)) = Len(s) + 1 /\ Len(s) \in Nat
        /\ Append(s, x)[Len(s) + 1] = x
        /\ \A i \in 1..Len(s) : Append(s, x)[i] = s[i]
    OBVIOUS
  <2>2. 1..(Len(s) + 1) = (1..Len(s)) \cup {Len(s) + 1}
    BY <2>1
  <2> QED BY <2>1, <2>2 DEF Items
<1>3. ASSUME NEW x \in S PROVE <<x>> \in Seq(S) /\ Items(<<x>>) = {x}
  <2>1. <<x>> \in Seq(S) /\ Len(<<x>>) = 1 /\ <<x>>[1] = x
    OBVIOUS
  <2>2. 1..1 = {1}
    OBVIOUS
  <2> QED BY <2>1, <2>2 DEF Items
<1>4. <<>> \in Seq(S) /\ Items(<<>>) = {}
  BY DEF Items
<1>5. Items(s) \subseteq S
  BY DEF Items
<1>6. ASSUME s # <<>>
      PROVE  Head(s) \in Items(s) /\ Tail(s) \in Seq(S) /\ Items(Tail(s)) \subseteq Items(s)
  <2>1. Len(s) \in Nat /\ Len(s) > 0
    BY <1>6
  <2>2. Head(s) = s[1] /\ 1 \in 1..Len(s)
    BY <1>6, <2>1
  <2>3. Tail(s) \in Seq(S) /\ Len(Tail(s)) = Len(s) - 1
    BY <1>6
  <2>4. \A i \in 1..(Len(s) - 1) : Tail(s)[i] = s[i + 1] /\ i + 1 \in 1..Len(s)
    BY <1>6, <2>1
  <2> QED BY <2>2, <2>3, <2>4 DEF Items
<1> QED BY <1>1, <1>2, <1>3, <1>4, <1>5, <1>6

\* A handler tells an event about its command.
LEMMA ToldIsEvent ==
    ASSUME NEW c \in Command, NEW q \in Request, NEW w,
           c.kind \in {"send", "react", "unreact"} => w \in Row
    PROVE  /\ Told(c, q, w) \in Event
           /\ Told(c, q, w).c = c
           /\ Told(c, q, w).type = "received" <=> c.kind = "send"
           /\ Told(c, q, w).type \notin {"success", "error"}
<1>0. c.kind \in {"send"} \cup Kind /\ {q} \in Text
  BY Texts DEF Command
<1>1. CASE c.kind = "send"
  BY <1>1 DEF Told, Event
<1>2. CASE c.kind = "edit"
  BY <1>0, <1>2 DEF Told, Event
<1>3. CASE c.kind = "delete"
  BY <1>3 DEF Told, Event
<1>4. CASE c.kind \in {"pin", "unpin"}
  BY <1>4 DEF Told, Event
<1>5. CASE c.kind \in {"react", "unreact"}
  <2>1. w.reactions \in SUBSET Browser
    BY <1>5 DEF Row
  <2> QED BY <1>5, <2>1 DEF Told, Event
<1> QED BY <1>0, <1>1, <1>2, <1>3, <1>4, <1>5 DEF Kind

\* So does it answer.
LEMMA AnswerIsEvent ==
    ASSUME NEW c \in Command, NEW q \in Request, NEW k \in {"success", "error"}
    PROVE  /\ Answer(k, c, q) \in Event /\ Answer(k, c, q).c = c
           /\ Answer(k, c, q).type = k /\ Answer(k, c, q).row.content = {q}
  BY DEF Answer, Event

\* The fields of an event.
LEMMA EventFields ==
    ASSUME NEW e \in Event
    PROVE  /\ e.c \in Command /\ e.c.on \in Message
           /\ e.type \in {"received", "edited", "deleted", "pinned", "reactions", "success", "error"}
           /\ e.type = "received" => e.row \in Row
           /\ e.type = "edited" => e.row.content \in Text
           /\ e.type = "reactions" => e.row.reactions \in SUBSET Browser
           /\ e.type \in {"success", "error"} => \E q \in Request : e.row.content = {q}
<1>1. e.c \in Command
  BY DEF Event
<1>2. e.c.on \in Message
  BY <1>1 DEF Command
<1> QED BY <1>1, <1>2 DEF Event

\* An event that arrives leaves a list, with no new message but the one it tells of.
LEMMA AppliedIsList ==
    ASSUME NEW b \in Browser, NEW l \in List, NEW t \in SUBSET Request, NEW e \in Event
    PROVE  /\ Apply(b, l, t, e) \in List
           /\ \A m \in Message : Apply(b, l, t, e)[m] # NoRow =>
                 l[m] # NoRow \/ (m = e.c.on /\ e.type \in {"received", "success"} /\ e.c.to = thread[b])
<1>0. e.c.on \in Message /\ e.c \in Command
  BY EventFields
<1>1. CASE e.type = "received"
  <2>1. AsNew(e.row) \in Row
    BY <1>1, EventFields DEF AsNew, Row
  <2>2. Apply(b, l, t, e) = Received(b, l, e)
    BY <1>1, Applied
  <2>3. CASE e.c.to = thread[b]
    <3>1. Received(b, l, e) = [l EXCEPT ![e.c.on] = ShownOf(b, AsNew(e.row))]
      BY <2>3 DEF Received
    <3>2. ShownOf(b, AsNew(e.row)) \in Shown \cup {NoRow}
      BY <2>1, ShownIsShown
    <3> QED BY <1>0, <1>1, <2>2, <2>3, <3>1, <3>2 DEF List
  <2>4. CASE e.c.to # thread[b]
    <3>1. Received(b, l, e) = l \/ Received(b, l, e) = WithReply(l, e.c.to)
      BY <2>4 DEF Received
    <3>2. /\ WithReply(l, e.c.to) \in List
          /\ \A a \in Message : WithReply(l, e.c.to)[a] # NoRow => l[a] # NoRow
      BY <1>0, Changes
    <3> QED BY <2>2, <3>1, <3>2
  <2> QED BY <2>3, <2>4
<1>2. CASE e.type = "edited"
  <2>1. e.row.content \in Text
    BY <1>2, EventFields
  <2>2. /\ WithContent(l, e.c.on, e.row.content) \in List
        /\ \A a \in Message : WithContent(l, e.c.on, e.row.content)[a] # NoRow => l[a] # NoRow
    BY <1>0, <2>1, Changes
  <2> QED BY <1>2, <2>2, Applied
<1>3. CASE e.type = "deleted"
  <2>1. /\ Without(l, e.c.on) \in List
        /\ \A a \in Message : Without(l, e.c.on)[a] # NoRow => l[a] # NoRow
    BY <1>0, Changes
  <2>2. Apply(b, l, t, e) = Without(l, e.c.on)
    BY <1>3, Applied
  <2> QED BY <2>1, <2>2
<1>4. CASE e.type = "pinned"
  <2>1. PICK p \in BOOLEAN : p = (e.c.kind = "pin")
    OBVIOUS
  <2>2. /\ WithPinned(l, e.c.on, p) \in List
        /\ \A a \in Message : WithPinned(l, e.c.on, p)[a] # NoRow => l[a] # NoRow
    BY <1>0, Changes
  <2>3. Apply(b, l, t, e) = l \/ Apply(b, l, t, e) = WithPinned(l, e.c.on, p)
    BY <1>4, <2>1, Applied
  <2> QED BY <2>2, <2>3
<1>5. CASE e.type = "reactions"
  <2>1. e.row.reactions \in SUBSET Browser
    BY <1>5, EventFields
  <2>2. /\ WithReactions(l, e.c.on, e.row.reactions) \in List
        /\ \A a \in Message : WithReactions(l, e.c.on, e.row.reactions)[a] # NoRow => l[a] # NoRow
    BY <1>0, <2>1, Changes
  <2> QED BY <1>5, <2>2, Applied
<1>6. CASE e.type = "error"
  BY <1>6, Applied
<1>7. CASE e.type = "success"
  <2>1. PICK q \in Request :
            Apply(b, l, t, e) = IF q \in t THEN [l EXCEPT ![e.c.on] = ShownOf(b, Created(q, b, e.c.to))]
                                ELSE l
    BY <1>7, Applied
  <2>2. Created(q, b, e.c.to) \in Row /\ Created(q, b, e.c.to).parent = e.c.to
    BY <1>0, Texts, CreatedIsRow DEF Command
  <2>3. /\ ShownOf(b, Created(q, b, e.c.to)) \in Shown \cup {NoRow}
        /\ ShownOf(b, Created(q, b, e.c.to)) # NoRow => e.c.to = thread[b]
    BY <2>2, ShownIsShown
  <2> QED BY <1>0, <1>7, <2>1, <2>3 DEF List
<1> QED BY <1>1, <1>2, <1>3, <1>4, <1>5, <1>6, <1>7, EventFields

-----------------------------------------------------------------------------
(* Steps.                                                                  *)

\* a call of a handler, of those that Next allows
Calls(b, q, c) ==
    /\ c \in Command /\ c.to \in {{}, thread[b]} /\ c.to \subseteq Existing
    /\ Receive(b, q, c)

BrowserStep ==
    \E b \in Browser :
        \/ \E p \in Process : Connect(b, p)
        \/ HandleJoinChannel(b) \/ HandleDisconnect(b)
        \/ Arrives(b) \/ ListMessages(b) \/ Fetched(b)

CallStep == \E b \in Browser, q \in Request, c \in Command : Calls(b, q, c)

\* a command that is given without a socket, one of those that Next allows
Postpones(b, q, c) == c \in Command /\ c.to = {} /\ ReceiveLater(b, q, c)

WaitStep ==
    \/ \E b \in Browser, q \in Request, c \in Command : Postpones(b, q, c)
    \/ \E q \in Request : Flush(q) \/ Discard(q)

HandlerStep ==
    \E q \in Request :
        \/ SendMessage(q) \/ FindParent(q) \/ Find(q) \/ Save(q) \/ ReadBack(q)
        \/ Emit(q) \/ Throws(q)

\* The steps are those of browsers, calls, commands that wait and handlers; a
\* browser keeps its thread.
LEMMA Steps ==
    ASSUME TypeOK, [Next]_vars
    PROVE  /\ thread' = thread
           /\ UNCHANGED vars \/ BrowserStep \/ CallStep \/ WaitStep \/ HandlerStep
<1>1. CASE UNCHANGED vars
  BY <1>1 DEF vars
<1>2. CASE Next
  <2>1. thread' = thread
    BY <1>2 DEF Next
  <2>2. ASSUME NEW b \in Browser, NEW q \in Request, NEW k \in Kind \cup {"send"}, NEW m \in Message,
               NEW to \in {{}, thread[b]}, NEW at \in server[b],
               Receive(b, q, [kind |-> k, on |-> m, to |-> to, by |-> b, n |-> sockets[b], at |-> at])
        PROVE  CallStep
    <3> DEFINE c == [kind |-> k, on |-> m, to |-> to, by |-> b, n |-> sockets[b], at |-> at]
    <3>1. /\ thread[b] \in {{}} \cup {{a} : a \in Existing}
          /\ server[b] \in {{}} \cup {{p} : p \in Process} /\ sockets[b] \in Nat
      BY DEF TypeOK
    <3>2. to \in {{}} \cup {{a} : a \in Message} /\ to \subseteq Existing
      BY <3>1
    <3>3. at \in Process
      BY <3>1
    <3>4. c \in Command /\ c.to = to
      BY <3>1, <3>2, <3>3 DEF Command
    <3>5. Receive(b, q, c)
      BY <2>2
    <3> HIDE DEF c
    <3> QED BY <3>2, <3>4, <3>5 DEF CallStep, Calls
  <2>3. ASSUME NEW b \in Browser, NEW q \in Request, NEW k \in Kind, NEW m \in Message, NEW at \in Process,
               ReceiveLater(b, q, [kind |-> k, on |-> m, to |-> {}, by |-> b,
                                   n |-> sockets[b] + 1, at |-> at])
        PROVE  WaitStep
    <3> DEFINE c == [kind |-> k, on |-> m, to |-> {}, by |-> b, n |-> sockets[b] + 1, at |-> at]
    <3>1. sockets[b] + 1 \in Nat
      BY DEF TypeOK
    <3>2. c \in Command /\ c.to = {}
      BY <3>1 DEF Command
    <3>3. ReceiveLater(b, q, c)
      BY <2>3
    <3> HIDE DEF c
    <3> QED BY <3>2, <3>3 DEF WaitStep, Postpones
  <2> QED BY <1>2, <2>1, <2>2, <2>3 DEF Next, BrowserStep, WaitStep, HandlerStep
<1> QED BY <1>1, <1>2

\* A save of a request that is in the table's way, by the await it stands at.
LEMMA Committed ==
    ASSUME Typed, Staged, NEW q \in Request, Commit(q)
    PROVE  \E m \in Message, w \in Row, from \in Row \cup {NoRow} :
             /\ m \in On(op[q]) /\ q \in InFlight /\ op[q] \in Command
             /\ Put(m, w, from)
             /\ \/ /\ pc[q] = "saveParent" /\ op[q].to = {m}
                   /\ from = loaded[q] /\ from \in Row /\ w = Counted(from)
                \/ /\ pc[q] = "saveMessage" /\ m = op[q].on
                   /\ from = NoRow /\ w = Created(q, op[q].by, op[q].to)
                \/ /\ pc[q] = "save" /\ m = op[q].on /\ op[q].kind \in Kind
                   /\ from = loaded[q] /\ from \in Row /\ Execute(op[q], q, from) = {w}
<1>1. pc[q] \in {"saveParent", "saveMessage", "save"}
  BY DEF Commit
<1>2. q \in InFlight /\ StageOf(q)
  BY <1>1 DEF InFlight, Staged
<1>3. /\ op[q] \in Command /\ op[q].on \in Message /\ op[q].by \in Browser
      /\ op[q].to \in {{}} \cup {{m} : m \in Message}
  BY <1>2 DEF StageOf, Command
<1>4. CASE pc[q] = "saveParent"
  <2>1. PICK m \in op[q].to : Put(m, Counted(loaded[q]), loaded[q])
    BY <1>4 DEF Commit
  <2>2. m \in Message /\ op[q].to = {m} /\ loaded[q] \in Row
    BY <1>2, <1>3, <1>4 DEF StageOf
  <2>3. Counted(loaded[q]) \in Row
    BY <2>2, CountedIsRow
  <2> QED BY <1>2, <1>3, <1>4, <2>1, <2>2, <2>3 DEF On
<1>5. CASE pc[q] = "saveMessage"
  <2>1. Put(op[q].on, Created(q, op[q].by, op[q].to), NoRow)
    BY <1>5 DEF Commit
  <2>2. Created(q, op[q].by, op[q].to) \in Row
    BY <1>3, Texts, CreatedIsRow
  <2> QED BY <1>2, <1>3, <1>5, <2>1, <2>2 DEF On
<1>6. CASE pc[q] = "save"
  <2>1. PICK w \in Execute(op[q], q, loaded[q]) : Put(op[q].on, w, loaded[q])
    BY <1>6 DEF Commit
  <2>2. op[q].kind \in Kind /\ loaded[q] \in Row
    BY <1>2, <1>6 DEF StageOf
  <2>3. w \in Row /\ Execute(op[q], q, loaded[q]) = {w}
    BY <1>3, <2>1, <2>2, Executed
  <2> QED BY <1>2, <1>3, <1>6, <2>1, <2>2, <2>3 DEF On
<1> QED BY <1>1, <1>4, <1>5, <1>6

\* A save changes one row, and takes it for raced if its copy was left behind.
LEMMA PutRow ==
    ASSUME TypeOK, NEW m \in Message, NEW w \in Row, NEW from, Put(m, w, from)
    PROVE  /\ table' \in [Message -> Row \cup {NoRow}]
           /\ table'[m] = w
           /\ \A a \in Message : a # m => table'[a] = table[a]
           /\ raced' \subseteq Message /\ raced \subseteq raced'
           /\ from # table[m] => m \in raced'
           /\ \A a \in Message : a # m /\ a \in raced' => a \in raced
  BY DEF TypeOK, Put

\* What a handler step leaves in the table are rows, and none is removed.
LEMMA RowsStay ==
    ASSUME Typed, Staged, [Next]_vars
    PROVE  /\ table' \in [Message -> Row \cup {NoRow}] /\ raced' \subseteq Message
           /\ \A m \in Message : table[m] # NoRow => table'[m] # NoRow
           /\ \/ UNCHANGED <<table, raced>>
              \/ \E q \in Request : Commit(q) /\ (Save(q) \/ Throws(q))
<1>1. TypeOK
  BY DEF Typed
<1>2. \/ UNCHANGED <<table, raced>>
      \/ \E q \in Request : Commit(q) /\ (Save(q) \/ Throws(q))
  <2>1. CASE UNCHANGED vars
    BY <2>1 DEF vars, store
  <2>2. CASE BrowserStep
    BY <2>2 DEF BrowserStep, Connect, HandleJoinChannel, HandleDisconnect, Arrives, ListMessages,
                Fetched, store
  <2>3. CASE CallStep
    BY <2>3 DEF CallStep, Calls, Receive, store
  <2>5. CASE WaitStep
    BY <2>5 DEF WaitStep, Postpones, ReceiveLater, Flush, Discard, store
  <2>4. CASE HandlerStep
    <3> PICK q \in Request : \/ SendMessage(q) \/ FindParent(q) \/ Find(q) \/ Save(q) \/ ReadBack(q)
                             \/ Emit(q) \/ Throws(q)
      BY <2>4 DEF HandlerStep
    <3>1. CASE SendMessage(q) \/ FindParent(q) \/ Find(q) \/ ReadBack(q) \/ Emit(q)
      BY <3>1 DEF SendMessage, FindParent, Find, ReadBack, Emit, store
    <3>2. CASE Save(q)
      BY <3>2 DEF Save
    <3>3. CASE Throws(q)
      <4>1. Commit(q) \/ UNCHANGED <<table, raced>>
        BY <3>3 DEF Throws
      <4> QED BY <3>3, <4>1
    <3> QED BY <3>1, <3>2, <3>3
  <2> QED BY <1>1, <2>1, <2>2, <2>3, <2>4, <2>5, Steps
<1>3. CASE UNCHANGED <<table, raced>>
  BY <1>1, <1>2, <1>3 DEF TypeOK
<1>4. ASSUME NEW q \in Request, Commit(q)
      PROVE  /\ table' \in [Message -> Row \cup {NoRow}] /\ raced' \subseteq Message
             /\ \A m \in Message : table[m] # NoRow => table'[m] # NoRow
  <2>1. PICK m \in Message, w \in Row, from \in Row \cup {NoRow} : Put(m, w, from)
    BY <1>4, Committed
  <2> QED BY <1>1, <2>1, PutRow, NoRowIsNone
<1> QED BY <1>2, <1>3, <1>4

\* what Typed says of the sockets and the lists
SocketTypes ==
    /\ server \in [Browser -> {{}} \cup {{p} : p \in Process}]
    /\ sockets \in [Browser -> Nat] /\ joined \in [Browser -> BOOLEAN]
    /\ inbox \in [Browser -> Seq(Event)]
    /\ view \in [Browser -> List] /\ temp \in [Browser -> SUBSET Request]
    /\ fetch \in [Browser -> SUBSET List]
    /\ fetches \in 0..MaxFetch /\ faults \in 0..MaxFault

\* of the requests
HandlerTypes ==
    /\ pc \in [Request -> {"idle", "waits", "channel", "findParent", "saveParent", "saveMessage",
                           "find", "save", "readBack", "emit", "done"}]
    /\ op \in [Request -> Command \cup {NoCommand}]
    /\ loaded \in [Request -> Row \cup {NoRow}]

\* of the history
HistoryTypes ==
    /\ doubt \in [Browser -> SUBSET Message] /\ hazy \in [Browser -> SUBSET Message]
    /\ unanswered \subseteq Request /\ orphans \in [Message -> SUBSET Request]

\* The types are those of the threads, the table, the sockets, the requests and the history.
LEMMA TypesAre ==
    Typed <=> /\ thread \in [Browser -> {{}} \cup {{m} : m \in Existing}]
              /\ table \in [Message -> Row \cup {NoRow}] /\ raced \subseteq Message
              /\ SocketTypes /\ HandlerTypes /\ HistoryTypes
<1>1. (inbox \in [Browser -> Seq(Event)]) =>
            \A b \in Browser : \A e \in InTransit(b) : e.c \in Command
  <2> SUFFICES ASSUME inbox \in [Browser -> Seq(Event)], NEW b \in Browser, NEW e \in InTransit(b)
               PROVE  e.c \in Command
    OBVIOUS
  <2>1. inbox[b] \in Seq(Event) /\ InTransit(b) = Items(inbox[b])
    BY DEF InTransit, Items
  <2>2. e \in Event
    BY <2>1, ItemsOf
  <2> QED BY <2>2, EventFields
<1> QED BY <1>1 DEF Typed, TypeOK, SocketTypes, HandlerTypes, HistoryTypes, List

\* On(c) are messages.
LEMMA OnMessages == \A c \in Command : On(c) \subseteq Message
  BY DEF On, Command

\* A command that is given without a socket waits, and reaches its handler or does not.
WaitMove(q) ==
    /\ pc' = [pc EXCEPT ![q] = pc'[q]] /\ op' = [op EXCEPT ![q] = op'[q]]
    /\ loaded' = [loaded EXCEPT ![q] = loaded'[q]]
    /\ loaded'[q] \in {loaded[q], NoRow}
    /\ \/ pc[q] = "idle" /\ pc'[q] = "waits"
       \/ pc[q] = "waits" /\ pc'[q] = "find" /\ op'[q] = op[q]
       \/ pc[q] = "waits" /\ pc'[q] = "done" /\ op'[q] = NoCommand
    /\ pc'[q] # "done" => /\ op'[q] \in Command /\ op'[q].kind \in Kind /\ op'[q].to = {}
                          /\ table[op'[q].on] # NoRow

LEMMA Waits ==
    ASSUME Core, WaitStep
    PROVE  /\ UNCHANGED <<store, socket, inbox, temp, fetching, faults, unanswered>>
           /\ \E q \in Request : WaitMove(q)
<1>0. HandlerTypes /\ Staged /\ Present
  BY TypesAre DEF Core
<1>1. ASSUME NEW b \in Browser, NEW q \in Request, NEW c \in Command, Postpones(b, q, c)
      PROVE  WaitMove(q)
  <2>1. /\ pc[q] = "idle" /\ pc' = [pc EXCEPT ![q] = "waits"]
        /\ op' = [op EXCEPT ![q] = c] /\ loaded' = loaded
        /\ c.to = {} /\ view[b][c.on] # NoRow /\ c.kind \in Menu(b, c.on)
    BY <1>1 DEF Postpones, ReceiveLater, Acts
  <2>2. pc'[q] = "waits" /\ op'[q] = c /\ loaded' = [loaded EXCEPT ![q] = loaded'[q]]
    BY <1>0, <2>1 DEF HandlerTypes
  <2>3. c.kind \in Kind
    BY <2>1 DEF Menu, Kind
  <2>4. table[c.on] # NoRow
    BY <1>0, <2>1 DEF Present, Command
  <2> QED BY <2>1, <2>2, <2>3, <2>4 DEF WaitMove
<1>2. ASSUME NEW q \in Request, Flush(q) PROVE WaitMove(q)
  <2>1. pc[q] = "waits" /\ pc' = [pc EXCEPT ![q] = "find"] /\ op' = op /\ loaded' = loaded
    BY <1>2 DEF Flush, GoTo
  <2>2. /\ pc'[q] = "find" /\ op' = [op EXCEPT ![q] = op'[q]] /\ loaded' = [loaded EXCEPT ![q] = loaded'[q]]
    BY <1>0, <2>1 DEF HandlerTypes
  <2>3. op[q] \in Command /\ op[q].kind \in Kind /\ op[q].to = {} /\ table[op[q].on] # NoRow
    BY <1>0, <2>1 DEF Staged, StageOf, Present, AtWork
  <2> QED BY <2>1, <2>2, <2>3 DEF WaitMove
<1>3. ASSUME NEW q \in Request, Discard(q) PROVE WaitMove(q)
  <2>1. /\ pc[q] = "waits" /\ pc' = [pc EXCEPT ![q] = "done"]
        /\ op' = [op EXCEPT ![q] = NoCommand] /\ loaded' = [loaded EXCEPT ![q] = NoRow]
    BY <1>3 DEF Discard, End
  <2>2. pc'[q] = "done" /\ op'[q] = NoCommand /\ loaded'[q] = NoRow
    BY <1>0, <2>1 DEF HandlerTypes
  <2> QED BY <2>1, <2>2 DEF WaitMove
<1>4. UNCHANGED <<store, socket, inbox, temp, fetching, faults, unanswered>>
  BY DEF WaitStep, Postpones, ReceiveLater, Flush, Discard, list
<1> QED BY <1>1, <1>2, <1>3, <1>4 DEF WaitStep

\* The requests keep what their await is about.
LEMMA HandlersStay ==
    ASSUME Core, [Next]_vars
    PROVE  HandlerTypes' /\ Staged'
<1>0. /\ Typed /\ Staged /\ Present /\ HandlerTypes /\ TypeOK
      /\ table \in [Message -> Row \cup {NoRow}]
  BY TypesAre DEF Core, Typed
<1>1. CASE UNCHANGED handler
  <2>1. pc' = pc /\ op' = op /\ loaded' = loaded
    BY <1>1 DEF handler
  <2> QED BY <1>0, <2>1 DEF HandlerTypes, Staged, StageOf, InFlight
<1>2. ASSUME NEW q \in Request, HandlerTypes', StageOf(q)',
             \A r \in Request : r # q => pc'[r] = pc[r] /\ op'[r] = op[r] /\ loaded'[r] = loaded[r]
      PROVE  HandlerTypes' /\ Staged'
  <2>1. ASSUME NEW r \in Request, r # q PROVE StageOf(r)'
    BY <1>0, <1>2, <2>1 DEF Staged, StageOf, InFlight
  <2> QED BY <1>2, <2>1 DEF Staged
<1>3. ASSUME NEW q \in Request, End(q) PROVE HandlerTypes' /\ Staged'
  <2>1. HandlerTypes'
    BY <1>0, <1>3 DEF End, HandlerTypes
  <2>2. pc'[q] = "done"
    BY <1>0, <1>3 DEF End, HandlerTypes
  <2>3. StageOf(q)'
    BY <2>2 DEF StageOf, InFlight
  <2>4. \A r \in Request : r # q => pc'[r] = pc[r] /\ op'[r] = op[r] /\ loaded'[r] = loaded[r]
    BY <1>0, <1>3 DEF End, HandlerTypes
  <2> QED BY <1>2, <2>1, <2>3, <2>4
<1>4. CASE CallStep
  <2>1. PICK b \in Browser, q \in Request, c \in Command : Calls(b, q, c)
    BY <1>4 DEF CallStep
  <2>2. /\ pc[q] = "idle" /\ loaded' = loaded /\ c.to \subseteq Existing
        /\ Sends(b, c) \/ Acts(b, c)
    BY <2>1 DEF Calls, Receive, Asks
  <2>3. CASE pc' = [pc EXCEPT ![q] = "done"] /\ op' = op
    <3>1. HandlerTypes' /\ pc'[q] = "done"
      BY <1>0, <2>2, <2>3 DEF HandlerTypes
    <3>2. StageOf(q)'
      BY <3>1 DEF StageOf, InFlight
    <3>3. \A r \in Request : r # q => pc'[r] = pc[r] /\ op'[r] = op[r] /\ loaded'[r] = loaded[r]
      BY <1>0, <2>2, <2>3 DEF HandlerTypes
    <3> QED BY <1>2, <3>1, <3>2, <3>3
  <2>4. CASE /\ pc' = [pc EXCEPT ![q] = IF c.kind = "send" THEN "channel" ELSE "find"]
             /\ op' = [op EXCEPT ![q] = c]
    <3>1. HandlerTypes' /\ op'[q] = c
      BY <1>0, <2>2, <2>4 DEF HandlerTypes
    <3>2. c.kind = "send" => pc'[q] = "channel"
      BY <1>0, <2>4 DEF HandlerTypes
    <3>3. c.kind # "send" => pc'[q] = "find" /\ c.kind \in Kind /\ c.to = {}
      BY <1>0, <2>2, <2>4 DEF HandlerTypes, Command, Sends, Acts
    <3>4. StageOf(q)'
      BY <2>2, <3>1, <3>2, <3>3 DEF StageOf, InFlight
    <3>5. \A r \in Request : r # q => pc'[r] = pc[r] /\ op'[r] = op[r] /\ loaded'[r] = loaded[r]
      BY <1>0, <2>2, <2>4 DEF HandlerTypes
    <3> QED BY <1>2, <3>1, <3>4, <3>5
  <2> QED BY <2>1, <2>3, <2>4 DEF Calls, Receive
<1>5. CASE HandlerStep
  <2> PICK q \in Request : \/ SendMessage(q) \/ FindParent(q) \/ Find(q) \/ Save(q) \/ ReadBack(q)
                           \/ Emit(q) \/ Throws(q)
    BY <1>5 DEF HandlerStep
  <2>0. StageOf(q)
    BY <1>0 DEF Staged
  <2>1. CASE SendMessage(q)
    <3>1. CASE End(q)
      BY <1>3, <3>1
    <3>2. CASE ~End(q)
      <4>1. /\ pc' = [pc EXCEPT ![q] = IF op[q].to = {} THEN "saveMessage" ELSE "findParent"]
            /\ op' = op /\ loaded' = loaded /\ pc[q] = "channel"
        BY <2>1, <3>2 DEF SendMessage, GoTo
      <4>2. HandlerTypes'
        BY <1>0, <4>1 DEF HandlerTypes
      <4>3. pc'[q] = IF op[q].to = {} THEN "saveMessage" ELSE "findParent"
        BY <1>0, <4>1 DEF HandlerTypes
      <4>4. StageOf(q)'
        BY <2>0, <4>1, <4>3 DEF StageOf, InFlight
      <4>5. \A r \in Request : r # q => pc'[r] = pc[r] /\ op'[r] = op[r] /\ loaded'[r] = loaded[r]
        BY <1>0, <4>1 DEF HandlerTypes
      <4> QED BY <1>2, <4>2, <4>4, <4>5
    <3> QED BY <3>1, <3>2
  <2>2. CASE FindParent(q)
    <3>1. PICK m \in op[q].to : loaded' = [loaded EXCEPT ![q] = table[m]]
      BY <2>2 DEF FindParent, FindById
    <3>2. pc' = [pc EXCEPT ![q] = "saveParent"] /\ op' = op /\ pc[q] = "findParent"
      BY <2>2 DEF FindParent, GoTo
    <3>3. m \in Existing /\ m \in Message /\ table[m] \in Row
      BY <1>0, <2>0, <3>2 DEF StageOf, InFlight, Present
    <3>4. HandlerTypes' /\ pc'[q] = "saveParent" /\ loaded'[q] = table[m]
      BY <1>0, <3>1, <3>2, <3>3 DEF HandlerTypes
    <3>5. StageOf(q)'
      BY <2>0, <3>2, <3>3, <3>4 DEF StageOf, InFlight
    <3>6. \A r \in Request : r # q => pc'[r] = pc[r] /\ op'[r] = op[r] /\ loaded'[r] = loaded[r]
      BY <1>0, <3>1, <3>2 DEF HandlerTypes
    <3> QED BY <1>2, <3>4, <3>5, <3>6
  <2>3. CASE Find(q)
    <3>1. CASE End(q)
      BY <1>3, <3>1
    <3>2. CASE ~End(q)
      <4>1. /\ Execute(op[q], q, table[op[q].on]) # {}
            /\ loaded' = [loaded EXCEPT ![q] = table[op[q].on]]
            /\ pc' = [pc EXCEPT ![q] = "save"] /\ op' = op /\ pc[q] = "find"
        BY <2>3, <3>2 DEF Find, FindById, GoTo
      <4>2. op[q] \in Command /\ op[q].on \in Message
        BY <2>0, <4>1 DEF StageOf, InFlight, Command
      <4>3. table[op[q].on] \in Row
        BY <1>0, <4>1, <4>2 DEF Present, AtWork
      <4>4. HandlerTypes' /\ pc'[q] = "save" /\ loaded'[q] = table[op[q].on]
        BY <1>0, <4>1, <4>3 DEF HandlerTypes
      <4>5. StageOf(q)'
        BY <2>0, <4>1, <4>3, <4>4 DEF StageOf, InFlight
      <4>6. \A r \in Request : r # q => pc'[r] = pc[r] /\ op'[r] = op[r] /\ loaded'[r] = loaded[r]
        BY <1>0, <4>1 DEF HandlerTypes
      <4> QED BY <1>2, <4>4, <4>5, <4>6
    <3> QED BY <3>1, <3>2
  <2>4. CASE Save(q)
    <3> DEFINE saved == CHOOSE w \in Execute(op[q], q, loaded[q]) : TRUE
               next == IF pc[q] = "saveParent" THEN "saveMessage"
                       ELSE IF op[q].kind \in {"send", "react"} THEN "readBack" ELSE "emit"
    <3>1. /\ pc' = [pc EXCEPT ![q] = next] /\ op' = op
          /\ loaded' = [loaded EXCEPT ![q] = IF pc[q] = "save" THEN saved ELSE NoRow]
          /\ pc[q] \in {"saveParent", "saveMessage", "save"}
      BY <2>4 DEF Save, Commit, GoTo
    <3>2. pc[q] = "save" => saved \in Row
      <4> HAVE pc[q] = "save"
      <4>1. op[q] \in Command /\ op[q].kind \in Kind /\ loaded[q] \in Row
        BY <2>0 DEF StageOf, InFlight
      <4>2. \A w \in Execute(op[q], q, loaded[q]) : w \in Row
        BY <4>1, Executed
      <4>3. Execute(op[q], q, loaded[q]) # {}
        BY <2>0 DEF StageOf
      <4> HIDE DEF Execute
      <4> QED BY <4>2, <4>3
    <3> HIDE DEF saved
    <3>3. HandlerTypes' /\ pc'[q] = next /\ loaded'[q] = IF pc[q] = "save" THEN saved ELSE NoRow
      BY <1>0, <3>1, <3>2 DEF HandlerTypes
    <3>4. StageOf(q)'
      BY <2>0, <3>1, <3>2, <3>3 DEF StageOf, InFlight
    <3>5. \A r \in Request : r # q => pc'[r] = pc[r] /\ op'[r] = op[r] /\ loaded'[r] = loaded[r]
      BY <1>0, <3>1 DEF HandlerTypes
    <3> QED BY <1>2, <3>3, <3>4, <3>5
  <2>5. CASE ReadBack(q)
    <3>1. /\ loaded' = [loaded EXCEPT ![q] = table[op[q].on]]
          /\ pc' = [pc EXCEPT ![q] = "emit"] /\ op' = op /\ pc[q] = "readBack"
      BY <2>5 DEF ReadBack, FindById, GoTo
    <3>2. op[q] \in Command /\ op[q].on \in Message
      BY <2>0, <3>1 DEF StageOf, InFlight, Command
    <3>3. table[op[q].on] \in Row
      BY <1>0, <3>1, <3>2 DEF Present, AtWork
    <3>4. HandlerTypes' /\ pc'[q] = "emit" /\ loaded'[q] = table[op[q].on]
      BY <1>0, <3>1, <3>3 DEF HandlerTypes
    <3>5. StageOf(q)'
      BY <2>0, <3>1, <3>3, <3>4 DEF StageOf, InFlight
    <3>6. \A r \in Request : r # q => pc'[r] = pc[r] /\ op'[r] = op[r] /\ loaded'[r] = loaded[r]
      BY <1>0, <3>1 DEF HandlerTypes
    <3> QED BY <1>2, <3>4, <3>5, <3>6
  <2>6. CASE Emit(q) \/ Throws(q)
    <3>1. End(q)
      BY <2>6 DEF Emit, Throws
    <3> QED BY <1>3, <3>1
  <2> QED BY <2>1, <2>2, <2>3, <2>4, <2>5, <2>6
<1>6. CASE UNCHANGED vars
  BY <1>1, <1>6 DEF vars
<1>7. CASE BrowserStep
  <2>1. UNCHANGED handler
    BY <1>7 DEF BrowserStep, Connect, HandleJoinChannel, HandleDisconnect, Arrives, ListMessages, Fetched
  <2> QED BY <1>1, <2>1
<1>8. CASE WaitStep
  <2>1. PICK q \in Request : WaitMove(q)
    BY <1>8, Waits
  <2>2. /\ pc'[q] \in {"waits", "find", "done"} /\ op'[q] \in Command \cup {NoCommand}
        /\ loaded'[q] \in Row \cup {NoRow}
    BY <1>0, <2>1 DEF WaitMove, HandlerTypes
  <2>3. HandlerTypes'
    BY <1>0, <2>1, <2>2 DEF WaitMove, HandlerTypes
  <2>4. StageOf(q)'
    BY <2>1 DEF WaitMove, StageOf, InFlight, Kind
  <2>5. \A r \in Request : r # q => pc'[r] = pc[r] /\ op'[r] = op[r] /\ loaded'[r] = loaded[r]
    BY <1>0, <2>1 DEF WaitMove, HandlerTypes
  <2> QED BY <1>2, <2>3, <2>4, <2>5
<1> QED BY <1>0, <1>4, <1>5, <1>6, <1>7, <1>8, Steps

\* the events that request q sends to b when it has emitted, in their order
Sent(b, q) ==
    LET c == op[q] IN
    (IF b \in Room(c) THEN <<Told(c, q, loaded[q])>> ELSE <<>>)
        \o (IF c.kind = "send" /\ Reachable(c) /\ b = c.by
            THEN <<Answer("success", c, q)>> ELSE <<>>)

\* What is sent are events about the command, a new message being in the table.
LEMMA SentItems ==
    ASSUME Core, NEW q \in Request, pc[q] = "emit", NEW b \in Browser
    PROVE  /\ Sent(b, q) \in Seq(Event)
           /\ \A e \in Items(Sent(b, q)) : e.c = op[q]
<1>1. op[q] \in Command
  BY DEF Core, Staged, StageOf, InFlight
<1>2. op[q].kind \in {"send", "react", "unreact"} => loaded[q] \in Row
  BY DEF Core, Staged, StageOf, InFlight
<1> DEFINE one == IF b \in Room(op[q]) THEN <<Told(op[q], q, loaded[q])>> ELSE <<>>
           two == IF op[q].kind = "send" /\ Reachable(op[q]) /\ b = op[q].by
                  THEN <<Answer("success", op[q], q)>> ELSE <<>>
<1>3. one \in Seq(Event) /\ \A e \in Items(one) : e.c = op[q]
  <2>1. Told(op[q], q, loaded[q]) \in Event /\ Told(op[q], q, loaded[q]).c = op[q]
    BY <1>1, <1>2, ToldIsEvent
  <2> HIDE DEF Told
  <2>2. CASE b \in Room(op[q])
    <3> DEFINE t == Told(op[q], q, loaded[q])
    <3>1. one = <<t>>
      BY <2>2
    <3> HIDE DEF t, one
    <3>2. t \in Event /\ t.c = op[q]
      BY <2>1 DEF t
    <3>3. <<>> \in Seq(Event)
      OBVIOUS
    <3>4. <<t>> \in Seq(Event) /\ Items(<<t>>) = {t}
      BY <3>2, <3>3, ItemsOf
    <3> QED BY <3>1, <3>2, <3>4
  <2>3. CASE b \notin Room(op[q])
    BY <2>3 DEF Items
  <2> QED BY <2>2, <2>3
<1>4. two \in Seq(Event) /\ \A e \in Items(two) : e.c = op[q]
  <2> DEFINE t == Answer("success", op[q], q)
  <2>1. t \in Event /\ t.c = op[q]
    BY <1>1, AnswerIsEvent
  <2>2. <<>> \in Seq(Event)
    OBVIOUS
  <2>3. two = <<t>> \/ two = <<>>
    OBVIOUS
  <2> HIDE DEF t, two
  <2>4. <<t>> \in Seq(Event) /\ Items(<<t>>) = {t} /\ Items(<<>>) = {}
    BY <2>1, <2>2, ItemsOf
  <2> QED BY <2>1, <2>2, <2>3, <2>4
<1>5. Sent(b, q) = one \o two
  BY DEF Sent
<1> HIDE DEF one, two
<1> QED BY <1>3, <1>4, <1>5, ItemsOf

\* An inbox after the request has told the room.
LEMMA Emitted ==
    ASSUME Core, NEW q \in Request, Emit(q)
    PROVE  /\ inbox' = [b \in Browser |-> inbox[b] \o Sent(b, q)]
           /\ inbox' \in [Browser -> Seq(Event)]
           /\ \A b \in Browser : \A e \in InTransit(b)' : e \in InTransit(b) \/ e.c = op[q]
<1>0. inbox \in [Browser -> Seq(Event)] /\ pc[q] = "emit"
  BY DEF Core, Typed, Emit
<1>1. inbox' = [b \in Browser |-> inbox[b] \o Sent(b, q)]
  <2> DEFINE answered == IF op[q].kind = "send" /\ Reachable(op[q]) THEN {op[q].by} ELSE {}
             one(b) == IF b \in Room(op[q]) THEN <<Told(op[q], q, loaded[q])>> ELSE <<>>
             two(b) == IF b \in answered THEN <<Answer("success", op[q], q)>> ELSE <<>>
  <2>1. inbox' = [b \in Browser |-> inbox[b] \o one(b) \o two(b)]
    BY DEF Emit
  <2>2. ASSUME NEW b \in Browser PROVE inbox[b] \o one(b) \o two(b) = inbox[b] \o Sent(b, q)
    <3>1. Sent(b, q) = one(b) \o two(b)
      BY DEF Sent
    <3>2. one(b) \in Seq({Told(op[q], q, loaded[q])}) /\ two(b) \in Seq({Answer("success", op[q], q)})
      <4>1. \A x : <<x>> \in Seq({x}) /\ <<>> \in Seq({x})
        OBVIOUS
      <4> QED BY <4>1
    <3> HIDE DEF one, two
    <3>3. \A S, T : \A i \in Seq(Event), s \in Seq(S), t \in Seq(T) : (i \o s) \o t = i \o (s \o t)
      OBVIOUS
    <3> QED BY <1>0, <3>1, <3>2, <3>3
  <2> HIDE DEF one, two
  <2> QED BY <2>1, <2>2
<1>2. ASSUME NEW b \in Browser
      PROVE  /\ inbox[b] \o Sent(b, q) \in Seq(Event)
             /\ \A e \in Items(inbox[b] \o Sent(b, q)) : e \in Items(inbox[b]) \/ e.c = op[q]
  <2>1. Sent(b, q) \in Seq(Event) /\ \A e \in Items(Sent(b, q)) : e.c = op[q]
    BY <1>0, SentItems
  <2>2. inbox[b] \in Seq(Event)
    BY <1>0
  <2> QED BY <2>1, <2>2, ItemsOf
<1>3. \A b \in Browser : InTransit(b) = Items(inbox[b]) /\ InTransit(b)' = Items(inbox'[b])
  BY DEF InTransit, Items
<1> QED BY <1>1, <1>2, <1>3

\* An event that arrives is the first of the inbox, and changes list and temp-.
LEMMA Arrival ==
    ASSUME Typed, NEW b \in Browser, Arrives(b)
    PROVE  \E e \in InTransit(b) :
             /\ e \in Event /\ e = Head(inbox[b])
             /\ view' = [view EXCEPT ![b] = Apply(b, view[b], temp[b], e)]
             /\ temp' = [temp EXCEPT ![b] = Settled(temp[b], e)]
             /\ inbox' = [inbox EXCEPT ![b] = Tail(inbox[b])]
             /\ InTransit(b)' \subseteq InTransit(b)
             /\ inbox' \in [Browser -> Seq(Event)]
<1>1. inbox[b] \in Seq(Event) /\ inbox[b] # <<>> /\ inbox \in [Browser -> Seq(Event)]
  BY DEF Typed, Arrives
<1>2. Head(inbox[b]) \in Items(inbox[b]) /\ Items(inbox[b]) \subseteq Event
  BY <1>1, ItemsOf
<1>3. InTransit(b) = Items(inbox[b]) /\ InTransit(b)' = Items(inbox'[b])
  BY DEF InTransit, Items
<1>4. /\ view' = [view EXCEPT ![b] = Apply(b, view[b], temp[b], Head(inbox[b]))]
      /\ temp' = [temp EXCEPT ![b] = Settled(temp[b], Head(inbox[b]))]
      /\ inbox' = [inbox EXCEPT ![b] = Tail(inbox[b])]
  BY <1>1 DEF Arrives
<1>5. /\ Tail(inbox[b]) \in Seq(Event) /\ Items(Tail(inbox[b])) \subseteq Items(inbox[b])
      /\ inbox'[b] = Tail(inbox[b])
  BY <1>1, <1>4, ItemsOf
<1>6. inbox' \in [Browser -> Seq(Event)]
  BY <1>1, <1>4, <1>5
<1> QED BY <1>2, <1>3, <1>4, <1>5, <1>6

\* The end of a request that the channel does not admit.
LEMMA Refused ==
    ASSUME Core, NEW q \in Request, SendMessage(q)
    PROVE  /\ inbox' \in [Browser -> Seq(Event)]
           /\ \/ UNCHANGED <<inbox, unanswered>>
              \/ /\ inbox' = [inbox EXCEPT ![op[q].by] = Append(inbox[op[q].by], Answer("error", op[q], q))]
                 /\ UNCHANGED unanswered
              \/ inbox' = inbox /\ unanswered' = unanswered \cup {q}
           /\ \A b \in Browser : \A e \in InTransit(b)' :
                 e \in InTransit(b) \/ (e.c = op[q] /\ e.type = "error")
<1>0. /\ pc[q] = "channel" /\ op[q] \in Command /\ op[q].by \in Browser
      /\ inbox \in [Browser -> Seq(Event)]
  BY DEF SendMessage, Core, Typed, Staged, StageOf, InFlight, Command
<1>1. \A b \in Browser : InTransit(b) = Items(inbox[b]) /\ InTransit(b)' = Items(inbox'[b])
  BY DEF InTransit, Items
<1>2. CASE inbox' = inbox
  BY <1>0, <1>1, <1>2 DEF SendMessage
<1>3. CASE /\ inbox' = [inbox EXCEPT ![op[q].by] = Append(inbox[op[q].by], Answer("error", op[q], q))]
           /\ UNCHANGED unanswered
  <2> DEFINE t == Answer("error", op[q], q)
  <2>1. t \in Event /\ t.c = op[q] /\ t.type = "error"
    BY <1>0, AnswerIsEvent
  <2> HIDE DEF t
  <2>2. inbox[op[q].by] \in Seq(Event)
    BY <1>0
  <2>3. /\ Append(inbox[op[q].by], t) \in Seq(Event)
        /\ Items(Append(inbox[op[q].by], t)) = Items(inbox[op[q].by]) \cup {t}
    BY <2>1, <2>2, ItemsOf
  <2>4. inbox' = [inbox EXCEPT ![op[q].by] = Append(inbox[op[q].by], t)]
    BY <1>3 DEF t
  <2>5. inbox' \in [Browser -> Seq(Event)]
    BY <1>0, <2>3, <2>4
  <2>6. \A b \in Browser : Items(inbox'[b]) \subseteq Items(inbox[b]) \cup {t}
    BY <1>0, <2>3, <2>4
  <2>7. \A b \in Browser : \A e \in InTransit(b)' :
            e \in InTransit(b) \/ (e.c = op[q] /\ e.type = "error")
    BY <1>1, <2>1, <2>6
  <2> QED BY <1>3, <2>5, <2>7
<1> QED BY <1>2, <1>3 DEF SendMessage

\* Sockets, lists and history keep their types.
LEMMA BrowsersStay ==
    ASSUME Core, [Next]_vars
    PROVE  SocketTypes' /\ HistoryTypes'
<1>0. /\ Typed /\ Staged /\ TypeOK /\ SocketTypes /\ HistoryTypes /\ HandlerTypes
      /\ table \in [Message -> Row \cup {NoRow}]
  BY TypesAre DEF Core, Typed
<1>1. CASE UNCHANGED vars
  BY <1>0, <1>1 DEF vars, store, socket, list, fetching, SocketTypes, HistoryTypes
<1>2. CASE BrowserStep
  <2> PICK b \in Browser : \/ \E p \in Process : Connect(b, p)
                           \/ HandleJoinChannel(b) \/ HandleDisconnect(b)
                           \/ Arrives(b) \/ ListMessages(b) \/ Fetched(b)
    BY <1>2 DEF BrowserStep
  <2>1. CASE \E p \in Process : Connect(b, p)
    <3> PICK p \in Process : Connect(b, p)
      BY <2>1
    <3>1. /\ server' = [server EXCEPT ![b] = {p}] /\ sockets' = [sockets EXCEPT ![b] = @ + 1]
          /\ UNCHANGED <<joined, store, inbox, list, fetching, faults, doubt, hazy, unanswered>>
      BY DEF Connect
    <3>2. server' \in [Browser -> {{}} \cup {{a} : a \in Process}]
      BY <1>0, <3>1 DEF SocketTypes
    <3>3. sockets' \in [Browser -> Nat]
      BY <1>0, <3>1 DEF SocketTypes
    <3> HIDE DEF List
    <3>4. SocketTypes'
      BY <1>0, <3>1, <3>2, <3>3 DEF SocketTypes, list, fetching
    <3> QED BY <1>0, <3>1, <3>4 DEF HistoryTypes, store
  <2>2. CASE HandleJoinChannel(b)
    BY <1>0, <2>2 DEF HandleJoinChannel, SocketTypes, HistoryTypes, store, list, fetching
  <2>3. CASE HandleDisconnect(b)
    <3>1. /\ server' = [server EXCEPT ![b] = {}] /\ joined' = [joined EXCEPT ![b] = FALSE]
          /\ inbox' = [inbox EXCEPT ![b] = <<>>]
          /\ doubt' = [doubt EXCEPT ![b] = @ \cup UNION {On(e.c) : e \in InTransit(b)}]
          /\ unanswered' = unanswered \cup
                UNION {e.row.content : e \in {e \in InTransit(b) : e.type \in {"success", "error"}}}
          /\ UNCHANGED <<sockets, store, list, fetching, faults, hazy>>
      BY <2>3 DEF HandleDisconnect
    <3>2. InTransit(b) \subseteq Event
      <4>1. inbox[b] \in Seq(Event) /\ InTransit(b) = Items(inbox[b])
        BY <1>0 DEF Typed, InTransit, Items
      <4> QED BY <4>1, ItemsOf
    <3>3. SocketTypes'
      <4>1. server' \in [Browser -> {{}} \cup {{a} : a \in Process}]
        BY <1>0, <3>1 DEF SocketTypes
      <4>2. joined' \in [Browser -> BOOLEAN]
        BY <1>0, <3>1 DEF SocketTypes
      <4>3. inbox' \in [Browser -> Seq(Event)]
        BY <1>0, <3>1 DEF SocketTypes
      <4> HIDE DEF List
      <4> QED BY <1>0, <3>1, <4>1, <4>2, <4>3 DEF SocketTypes, list, fetching
    <3>4. \A e \in InTransit(b) : On(e.c) \subseteq Message
      BY <3>2, EventFields, OnMessages
    <3>5. \A e \in InTransit(b) : e.type \in {"success", "error"} => e.row.content \subseteq Request
      BY <3>2, EventFields
    <3>6. unanswered' \subseteq Request
      BY <1>0, <3>1, <3>5 DEF HistoryTypes
    <3>7. UNION {On(e.c) : e \in InTransit(b)} \subseteq Message
      BY <3>4
    <3>8. doubt' \in [Browser -> SUBSET Message]
      BY <1>0, <3>1, <3>7 DEF HistoryTypes
    <3> QED BY <1>0, <3>1, <3>3, <3>6, <3>8 DEF HistoryTypes, store
  <2>4. CASE Arrives(b)
    <3>1. PICK e \in InTransit(b) :
             /\ e \in Event
             /\ view' = [view EXCEPT ![b] = Apply(b, view[b], temp[b], e)]
             /\ temp' = [temp EXCEPT ![b] = Settled(temp[b], e)]
             /\ inbox' \in [Browser -> Seq(Event)]
      BY <1>0, <2>4, Arrival
    <3>2. Apply(b, view[b], temp[b], e) \in List
      BY <1>0, <3>1, AppliedIsList DEF SocketTypes
    <3>3. Settled(temp[b], e) \in SUBSET Request
      BY <1>0 DEF Settled, SocketTypes
    <3> HIDE DEF List
    <3>4. view' \in [Browser -> List] /\ temp' \in [Browser -> SUBSET Request]
      BY <1>0, <3>1, <3>2, <3>3 DEF SocketTypes
    <3>5. UNCHANGED <<store, handler, socket, fetching, faults, doubt, hazy, unanswered>>
      BY <2>4 DEF Arrives
    <3> QED BY <1>0, <3>1, <3>4, <3>5 DEF SocketTypes, HistoryTypes, store, socket, fetching
  <2>5. CASE ListMessages(b)
    <3>1. /\ fetches < MaxFetch /\ fetches' = fetches + 1
          /\ fetch' = [fetch EXCEPT ![b] = {Listed(b)}]
          /\ hazy' = [hazy EXCEPT ![b] =
                {m \in Message : ActiveOn(m) \/ \E e \in InTransit(b) : m \in On(e.c)}]
          /\ UNCHANGED <<store, socket, inbox, list, faults, doubt, unanswered>>
      BY <2>5 DEF ListMessages
    <3>2. Listed(b) \in List
      BY <1>0, ListedIsList
    <3>3. fetches' \in 0..MaxFetch
      BY <1>0, <3>1 DEF SocketTypes
    <3>4. fetch' \in [Browser -> SUBSET List]
      BY <1>0, <3>1, <3>2 DEF SocketTypes, TypeOK
    <3>5. hazy' \in [Browser -> SUBSET Message]
      BY <1>0, <3>1 DEF HistoryTypes
    <3> QED BY <1>0, <3>1, <3>3, <3>4, <3>5 DEF SocketTypes, HistoryTypes, store, socket, list
  <2>6. CASE Fetched(b)
    <3>1. PICK l \in fetch[b] : view' = [view EXCEPT ![b] = l]
      BY <2>6 DEF Fetched
    <3>2. /\ temp' = [temp EXCEPT ![b] = {}] /\ fetch' = [fetch EXCEPT ![b] = {}]
          /\ doubt' = [doubt EXCEPT ![b] = hazy[b]] /\ hazy' = [hazy EXCEPT ![b] = {}]
          /\ UNCHANGED <<store, socket, inbox, fetches, faults, unanswered>>
      BY <2>6 DEF Fetched
    <3>3. l \in List
      BY <1>0, <3>1 DEF SocketTypes
    <3> HIDE DEF List
    <3>4. view' \in [Browser -> List] /\ temp' \in [Browser -> SUBSET Request]
      BY <1>0, <3>1, <3>2, <3>3 DEF SocketTypes
    <3>5. fetch' \in [Browser -> SUBSET List]
      BY <1>0, <3>2 DEF SocketTypes
    <3> QED BY <1>0, <3>2, <3>4, <3>5 DEF SocketTypes, HistoryTypes, store, socket
  <2> QED BY <2>1, <2>2, <2>3, <2>4, <2>5, <2>6
<1>3. CASE CallStep
  <2>1. PICK b \in Browser, q \in Request, c \in Command : Calls(b, q, c)
    BY <1>3 DEF CallStep
  <2>2. /\ c.kind = "send" \/ view[b][c.on] # NoRow
        /\ view' = [view EXCEPT ![b] = Optimistic(view[b], c, q)]
        /\ UNCHANGED <<loaded, store, socket, inbox, fetching, faults, unanswered>>
    BY <2>1 DEF Calls, Receive, Asks, Sends, Acts
  <2>3. Optimistic(view[b], c, q) \in List
    BY <1>0, <2>2, OptimisticIsList DEF SocketTypes
  <2>4. On(c) \subseteq Message
    BY OnMessages
  <2>5. \/ doubt' = [doubt EXCEPT ![b] = @ \cup {c.on}] /\ UNCHANGED <<temp, hazy>>
        \/ /\ doubt' = [a \in Browser |-> doubt[a] \cup {m \in On(c) : ActiveOn(m)}]
           /\ temp' = IF c.kind = "send" THEN [temp EXCEPT ![b] = @ \cup {q}] ELSE temp
           /\ hazy' = [a \in Browser |-> IF fetch[a] = {} THEN {} ELSE hazy[a] \cup On(c)]
    BY <2>1 DEF Calls, Receive
  <2>6. temp' \in [Browser -> SUBSET Request]
    <3>1. temp \in [Browser -> SUBSET Request]
      BY <1>0 DEF SocketTypes
    <3>2. temp' = [temp EXCEPT ![b] = @ \cup {q}] \/ temp' = temp
      BY <2>5
    <3> QED BY <3>1, <3>2
  <2>7. doubt' \in [Browser -> SUBSET Message]
    <3>1. c.on \in Message
      BY DEF Command
    <3>2. CASE doubt' = [doubt EXCEPT ![b] = @ \cup {c.on}]
      BY <1>0, <3>1, <3>2 DEF HistoryTypes
    <3>3. CASE doubt' = [a \in Browser |-> doubt[a] \cup {m \in On(c) : ActiveOn(m)}]
      BY <1>0, <2>4, <3>3 DEF HistoryTypes
    <3> QED BY <2>5, <3>2, <3>3
  <2>8. hazy' \in [Browser -> SUBSET Message]
    BY <1>0, <2>4, <2>5 DEF HistoryTypes
  <2> HIDE DEF List
  <2>9. view' \in [Browser -> List]
    BY <1>0, <2>2, <2>3 DEF SocketTypes
  <2> QED BY <1>0, <2>2, <2>6, <2>7, <2>8, <2>9 DEF SocketTypes, HistoryTypes, store, socket, fetching
<1>4. CASE HandlerStep
  <2> PICK q \in Request : \/ SendMessage(q) \/ FindParent(q) \/ Find(q) \/ Save(q) \/ ReadBack(q)
                           \/ Emit(q) \/ Throws(q)
    BY <1>4 DEF HandlerStep
  <2>1. CASE SendMessage(q)
    <3>1. inbox' \in [Browser -> Seq(Event)] /\ unanswered' \subseteq Request
      BY <1>0, <2>1, Refused DEF Core, HistoryTypes
    <3>2. UNCHANGED <<store, socket, list, fetching, faults, doubt, hazy>>
      BY <2>1 DEF SendMessage
    <3> QED BY <1>0, <3>1, <3>2 DEF SocketTypes, HistoryTypes, store, socket, list, fetching
  <2>2. CASE FindParent(q) \/ Find(q) \/ Save(q) \/ ReadBack(q)
    <3>1. UNCHANGED <<orphans, socket, inbox, list, fetching, faults, doubt, hazy, unanswered>>
      BY <2>2 DEF FindParent, Find, Save, ReadBack, store
    <3> QED BY <1>0, <3>1 DEF SocketTypes, HistoryTypes, socket, list, fetching
  <2>3. CASE Emit(q)
    <3> DEFINE answered == IF op[q].kind = "send" /\ Reachable(op[q]) THEN {op[q].by} ELSE {}
    <3>1. inbox' \in [Browser -> Seq(Event)]
      BY <2>3, Emitted
    <3>2. /\ doubt' = [b \in Browser |->
                IF b \in Room(op[q]) \cup answered
                   /\ (b = op[q].by \/ ~IsDeafTo(b, Told(op[q], q, loaded[q]).type))
                THEN doubt[b] ELSE doubt[b] \cup On(op[q])]
          /\ unanswered' = IF answered = {} THEN unanswered \cup {q} ELSE unanswered
          /\ UNCHANGED <<store, socket, list, fetching, faults, hazy>>
      BY <2>3 DEF Emit
    <3>3. On(op[q]) \subseteq Message
      <4>1. op[q] \in Command
        BY <1>0, <2>3 DEF Emit, Staged, StageOf, InFlight
      <4> QED BY <4>1, OnMessages
    <3> HIDE DEF answered
    <3>4. doubt' \in [Browser -> SUBSET Message] /\ unanswered' \subseteq Request
      BY <1>0, <3>2, <3>3 DEF HistoryTypes
    <3> QED BY <1>0, <3>1, <3>2, <3>4 DEF SocketTypes, HistoryTypes, store, socket, list, fetching
  <2>4. CASE Throws(q)
    <3>1. /\ q \in InFlight /\ faults < MaxFault /\ faults' = faults + 1
          /\ doubt' = [b \in Browser |-> doubt[b] \cup On(op[q])]
          /\ unanswered' = unanswered \cup {q}
          /\ UNCHANGED <<socket, inbox, list, fetching, hazy>>
          /\ \/ orphans' = orphans
             \/ orphans' = [m \in Message |-> IF m \in op[q].to THEN orphans[m] \cup {q} ELSE orphans[m]]
      <4>1. \/ orphans' = orphans
            \/ orphans' = [m \in Message |-> IF m \in op[q].to THEN orphans[m] \cup {q} ELSE orphans[m]]
        BY <2>4 DEF Throws
      <4> QED BY <2>4, <4>1 DEF Throws
    <3>2. On(op[q]) \subseteq Message
      BY <1>0, <3>1, OnMessages DEF Staged, StageOf
    <3>3. doubt' \in [Browser -> SUBSET Message] /\ unanswered' \subseteq Request
      BY <1>0, <3>1, <3>2 DEF HistoryTypes
    <3>4. orphans' \in [Message -> SUBSET Request]
      BY <1>0, <3>1 DEF HistoryTypes
    <3>5. faults' \in 0..MaxFault
      BY <1>0, <3>1 DEF SocketTypes
    <3> QED BY <1>0, <3>1, <3>3, <3>4, <3>5 DEF SocketTypes, HistoryTypes, socket, list, fetching
  <2> QED BY <2>1, <2>2, <2>3, <2>4
<1>5. CASE WaitStep
  <2>1. UNCHANGED <<store, socket, inbox, temp, fetching, faults, unanswered>>
    BY <1>5, Waits
  <2>2. view' \in [Browser -> List] /\ doubt' \in [Browser -> SUBSET Message]
        /\ hazy' \in [Browser -> SUBSET Message]
    <3>1. ASSUME NEW b \in Browser, NEW q \in Request, NEW c \in Command, Postpones(b, q, c)
          PROVE  view' \in [Browser -> List] /\ doubt' \in [Browser -> SUBSET Message]
                 /\ hazy' \in [Browser -> SUBSET Message]
      <4>1. /\ view[b][c.on] # NoRow /\ hazy' = hazy
            /\ view' = [view EXCEPT ![b] = Optimistic(view[b], c, q)]
            /\ doubt' = [doubt EXCEPT ![b] = @ \cup {c.on}]
        BY <3>1 DEF Postpones, ReceiveLater, Acts
      <4>2. Optimistic(view[b], c, q) \in List
        BY <1>0, <4>1, OptimisticIsList DEF SocketTypes
      <4>3. c.on \in Message
        BY DEF Command
      <4>4. doubt' \in [Browser -> SUBSET Message]
        BY <1>0, <4>1, <4>3 DEF HistoryTypes
      <4> HIDE DEF List
      <4> QED BY <1>0, <4>1, <4>2, <4>4 DEF SocketTypes, HistoryTypes
    <3>2. ASSUME NEW q \in Request, Flush(q)
          PROVE  view' = view /\ doubt' \in [Browser -> SUBSET Message]
                 /\ hazy' \in [Browser -> SUBSET Message]
      <4>1. op[q].on \in Message
        BY <1>0, <3>2 DEF Flush, Staged, StageOf, Command
      <4>2. /\ view' = view
            /\ doubt' = [a \in Browser |->
                 IF a = op[q].by \/ ActiveOn(op[q].on) THEN doubt[a] \cup {op[q].on} ELSE doubt[a]]
            /\ hazy' = [a \in Browser |-> IF fetch[a] = {} THEN {} ELSE hazy[a] \cup {op[q].on}]
        BY <3>2 DEF Flush, list
      <4> QED BY <1>0, <4>1, <4>2 DEF HistoryTypes
    <3>3. ASSUME NEW q \in Request, Discard(q) PROVE view' = view /\ doubt' = doubt /\ hazy' = hazy
      BY <3>3 DEF Discard, list
    <3> HIDE DEF List
    <3> QED BY <1>0, <1>5, <3>1, <3>2, <3>3 DEF WaitStep, SocketTypes, HistoryTypes
  <2> QED BY <1>0, <2>1, <2>2 DEF SocketTypes, HistoryTypes, store, socket, fetching
<1> QED BY <1>0, <1>1, <1>2, <1>3, <1>4, <1>5, Steps

\* What is acted upon, shown or told stays in the table.
LEMMA PresentStays ==
    ASSUME Core, [Next]_vars
    PROVE  Present'
<1>0. /\ Typed /\ Staged /\ Present /\ TypeOK /\ SocketTypes /\ HandlerTypes
      /\ table \in [Message -> Row \cup {NoRow}]
      /\ \A m \in Message : table[m] # NoRow => table'[m] # NoRow
      /\ thread' = thread
  BY TypesAre, RowsStay, Steps DEF Core, Typed
<1>1. \A m \in Existing : table'[m] # NoRow
  BY <1>0 DEF Present
<1>2. \A q \in Request : pc'[q] \in AtWork => table'[op'[q].on] # NoRow
  <2> USE DEF AtWork
  <2> SUFFICES ASSUME NEW q \in Request, pc'[q] \in {"waits", "find", "save", "readBack", "emit"}
               PROVE  table'[op'[q].on] # NoRow
    OBVIOUS
  <2>0. q \in InFlight \/ pc[q] = "waits" => op[q].on \in Message
    BY <1>0 DEF Staged, StageOf, Command
  <2>1. CASE op'[q] = op[q] /\ pc[q] \in {"waits", "find", "save", "readBack", "emit"}
    BY <1>0, <2>0, <2>1 DEF Present, InFlight
  <2>2. ASSUME NEW b \in Browser, NEW c \in Command, Calls(b, q, c), op'[q] = c PROVE table'[op'[q].on] # NoRow
    <3>1. c.kind # "send"
      BY <1>0, <2>2 DEF Calls, Receive, HandlerTypes
    <3>2. view[b][c.on] # NoRow /\ c.on \in Message
      BY <2>2, <3>1 DEF Calls, Receive, Asks, Sends, Acts, Command
    <3> QED BY <1>0, <2>2, <3>2 DEF Present
  <2>3. ASSUME Commit(q), Save(q), pc[q] \in {"saveMessage", "save"} PROVE table'[op'[q].on] # NoRow
    <3>1. PICK m \in Message, w \in Row : m = op[q].on /\ \E from : Put(m, w, from)
      BY <1>0, <2>3, Committed
    <3>2. table'[m] = w /\ op' = op
      BY <1>0, <2>3, <3>1, PutRow DEF Save
    <3> QED BY <3>1, <3>2, NoRowIsNone
  <2>4. ASSUME NEW r \in Request, \A s \in Request : s # r => pc'[s] = pc[s] /\ op'[s] = op[s], r # q
        PROVE  table'[op'[q].on] # NoRow
    BY <2>1, <2>4
  <2>5. CASE UNCHANGED handler
    BY <2>1, <2>5 DEF handler
  <2>6. CASE CallStep
    <3>1. PICK b \in Browser, r \in Request, c \in Command : Calls(b, r, c)
      BY <2>6 DEF CallStep
    <3>2. CASE r = q
      <4>1. op'[q] = c
        BY <1>0, <2>0, <3>1, <3>2 DEF Calls, Receive, HandlerTypes
      <4> QED BY <2>2, <3>1, <3>2, <4>1
    <3>3. CASE r # q
      <4>1. pc'[q] = pc[q] /\ op'[q] = op[q]
        BY <1>0, <3>1, <3>3 DEF Calls, Receive, HandlerTypes
      <4> QED BY <2>1, <4>1
    <3> QED BY <3>2, <3>3
  <2>7. CASE HandlerStep
    <3> PICK r \in Request : \/ SendMessage(r) \/ FindParent(r) \/ Find(r) \/ Save(r) \/ ReadBack(r)
                             \/ Emit(r) \/ Throws(r)
      BY <2>7 DEF HandlerStep
    <3>1. CASE r # q
      <4>1. pc'[q] = pc[q] /\ op'[q] = op[q]
        BY <1>0, <3>1 DEF HandlerTypes, SendMessage, FindParent, Find, Save, ReadBack, Emit, Throws, End, GoTo
      <4> QED BY <2>1, <4>1
    <3>2. CASE r = q
      <4>1. CASE SendMessage(q) \/ FindParent(q) \/ Emit(q) \/ Throws(q)
        <5>1. pc'[q] \notin {"waits", "find", "save", "readBack", "emit"}
          BY <1>0, <4>1 DEF HandlerTypes, SendMessage, FindParent, Emit, Throws, End, GoTo
        <5> QED BY <5>1
      <4>2. CASE Find(q) \/ ReadBack(q)
        <5>1. op'[q] = op[q] /\ pc[q] \in {"find", "readBack"}
          BY <1>0, <4>2 DEF HandlerTypes, Find, ReadBack, End, GoTo
        <5> QED BY <2>1, <5>1
      <4>3. CASE Save(q)
        <5>1. pc[q] = "saveParent" => pc'[q] = "saveMessage"
          BY <1>0, <4>3 DEF HandlerTypes, Save, GoTo
        <5>2. Commit(q) /\ pc[q] \in {"saveParent", "saveMessage", "save"}
          BY <4>3 DEF Save, Commit
        <5> QED BY <2>3, <4>3, <5>1, <5>2
      <4> QED BY <3>2, <4>1, <4>2, <4>3
    <3> QED BY <3>1, <3>2
  <2>8. CASE BrowserStep
    BY <2>5, <2>8 DEF BrowserStep, Connect, HandleJoinChannel, HandleDisconnect, Arrives, ListMessages, Fetched
  <2>9. CASE UNCHANGED vars
    BY <2>5, <2>9 DEF vars
  <2>10. CASE WaitStep
    <3>1. table' = table
      BY <2>10, Waits DEF store
    <3>2. PICK r \in Request : WaitMove(r)
      BY <2>10, Waits
    <3>3. CASE r = q
      BY <3>1, <3>2, <3>3 DEF WaitMove
    <3>4. CASE r # q
      <4>1. pc'[q] = pc[q] /\ op'[q] = op[q]
        BY <1>0, <3>2, <3>4 DEF WaitMove, HandlerTypes
      <4> QED BY <2>1, <4>1
    <3> QED BY <3>3, <3>4
  <2> QED BY <1>0, <2>6, <2>7, <2>8, <2>9, <2>10, Steps
<1>3. \A b \in Browser, m \in Message : view'[b][m] # NoRow => table'[m] # NoRow
  <2> SUFFICES ASSUME NEW b \in Browser, NEW m \in Message, view'[b][m] # NoRow PROVE table[m] # NoRow
    BY <1>0
  <2>0. view[b] \in List /\ view \in [Browser -> List] /\ temp[b] \in SUBSET Request
    BY <1>0 DEF SocketTypes
  <2>1. CASE view'[b] = view[b]
    BY <1>0, <2>1 DEF Present
  <2>2. CASE Arrives(b)
    <3>1. PICK e \in InTransit(b) : e \in Event /\ view'[b] = Apply(b, view[b], temp[b], e)
      <4> HIDE DEF List
      <4> QED BY <1>0, <2>0, <2>2, Arrival
    <3>2. view[b][m] # NoRow \/ (m = e.c.on /\ e.type \in {"received", "success"})
      BY <2>0, <3>1, AppliedIsList
    <3> QED BY <1>0, <3>1, <3>2 DEF Present
  <2>3. CASE Fetched(b)
    <3>1. PICK l \in fetch[b] : view'[b] = l
      BY <2>0, <2>3 DEF Fetched
    <3> QED BY <1>0, <3>1 DEF Present
  <2>4. ASSUME NEW q \in Request, NEW c \in Command, Calls(b, q, c) PROVE table[m] # NoRow
    <3>1. /\ c.kind = "send" \/ view[b][c.on] # NoRow
          /\ view'[b] = Optimistic(view[b], c, q)
      BY <2>0, <2>4 DEF Calls, Receive, Asks, Sends, Acts
    <3>2. view[b][m] # NoRow
      BY <2>0, <3>1, OptimisticIsList
    <3> QED BY <1>0, <3>2 DEF Present
  <2>5. CASE UNCHANGED vars
    BY <2>1, <2>5 DEF vars, list
  <2>6. CASE BrowserStep
    <3> PICK a \in Browser : \/ \E p \in Process : Connect(a, p)
                             \/ HandleJoinChannel(a) \/ HandleDisconnect(a)
                             \/ Arrives(a) \/ ListMessages(a) \/ Fetched(a)
      BY <2>6 DEF BrowserStep
    <3>1. view'[b] = view[b] \/ (a = b /\ (Arrives(a) \/ Fetched(a)))
      BY <2>0 DEF Connect, HandleJoinChannel, HandleDisconnect, Arrives, ListMessages, Fetched, list
    <3> QED BY <2>1, <2>2, <2>3, <3>1
  <2>7. CASE CallStep
    <3> PICK a \in Browser, q \in Request, c \in Command : Calls(a, q, c)
      BY <2>7 DEF CallStep
    <3>1. view'[b] = view[b] \/ a = b
      BY <2>0 DEF Calls, Receive
    <3> QED BY <2>1, <2>4, <3>1
  <2>8. CASE HandlerStep
    BY <2>1, <2>8 DEF HandlerStep, SendMessage, FindParent, Find, Save, ReadBack, Emit, Throws, list
  <2>9. CASE WaitStep
    <3>1. CASE view' = view
      BY <2>1, <3>1
    <3>2. ASSUME NEW a \in Browser, NEW q \in Request, NEW c \in Command, Postpones(a, q, c)
          PROVE  table[m] # NoRow
      <4>1. /\ view[a][c.on] # NoRow
            /\ view' = [view EXCEPT ![a] = Optimistic(view[a], c, q)]
        BY <3>2 DEF Postpones, ReceiveLater, Acts
      <4>2. view'[b] = view[b] \/ (a = b /\ view'[b] = Optimistic(view[b], c, q))
        BY <2>0, <4>1
      <4>3. view[b][m] # NoRow
        BY <2>0, <4>1, <4>2, OptimisticIsList
      <4> QED BY <1>0, <4>3 DEF Present
    <3> QED BY <2>9, <3>1, <3>2 DEF WaitStep, Flush, Discard, list
  <2> QED BY <1>0, <2>5, <2>6, <2>7, <2>8, <2>9, Steps
<1>4. \A b \in Browser : \A l \in fetch'[b] : \A m \in Message : l[m] # NoRow => table'[m] # NoRow
  <2> SUFFICES ASSUME NEW b \in Browser, NEW l \in fetch'[b], NEW m \in Message, l[m] # NoRow
               PROVE  table[m] # NoRow
    BY <1>0
  <2>1. l \in fetch[b] \/ l = Listed(b)
    <3>1. UNCHANGED fetching \/ \E a \in Browser : ListMessages(a) \/ Fetched(a)
      BY <1>0, Steps, Waits DEF vars, BrowserStep, CallStep, Calls, HandlerStep, Connect, HandleJoinChannel,
           HandleDisconnect, Arrives, Receive, SendMessage, FindParent, Find, Save, ReadBack, Emit, Throws
    <3>2. fetch' = fetch \/ \E a \in Browser : fetch' = [fetch EXCEPT ![a] = {Listed(a)}]
                                               \/ fetch' = [fetch EXCEPT ![a] = {}]
      BY <3>1 DEF fetching, ListMessages, Fetched
    <3>3. fetch \in [Browser -> SUBSET List]
      BY <1>0 DEF SocketTypes
    <3> HIDE DEF List
    <3> QED BY <3>2, <3>3
  <2>2. CASE l \in fetch[b]
    BY <1>0, <2>2 DEF Present
  <2>3. CASE l = Listed(b)
    BY <1>0, <2>3, ListedIsList
  <2> QED BY <2>1, <2>2, <2>3
<1>5. \A b \in Browser : \A e \in InTransit(b)' :
            e.type \in {"received", "success"} => table'[e.c.on] # NoRow
  <2> SUFFICES ASSUME NEW b \in Browser, NEW e \in InTransit(b)', e.type \in {"received", "success"}
               PROVE  table[e.c.on] # NoRow /\ e.c.on \in Message
    BY <1>0
  <2>0. inbox \in [Browser -> Seq(Event)] /\ \A a \in Browser : InTransit(a) = Items(inbox[a])
    BY <1>0 DEF Typed, InTransit, Items
  <2>1. CASE e \in InTransit(b)
    <3>1. e \in Event
      BY <2>0, <2>1, ItemsOf
    <3> QED BY <1>0, <2>1, <3>1, EventFields DEF Present
  <2>2. CASE UNCHANGED inbox
    BY <2>1, <2>2 DEF InTransit
  <2>3. CASE BrowserStep
    <3> PICK a \in Browser : \/ \E p \in Process : Connect(a, p)
                             \/ HandleJoinChannel(a) \/ HandleDisconnect(a)
                             \/ Arrives(a) \/ ListMessages(a) \/ Fetched(a)
      BY <2>3 DEF BrowserStep
    <3>1. CASE HandleDisconnect(a)
      <4>1. inbox' = [inbox EXCEPT ![a] = <<>>]
        BY <3>1 DEF HandleDisconnect
      <4>2. inbox'[b] = inbox[b] \/ inbox'[b] = <<>>
        BY <2>0, <4>1
      <4>3. e \in InTransit(b)
        BY <4>2 DEF InTransit
      <4> QED BY <2>1, <4>3
    <3>2. CASE Arrives(a)
      <4>1. InTransit(a)' \subseteq InTransit(a) /\ inbox' = [inbox EXCEPT ![a] = Tail(inbox[a])]
        BY <1>0, <3>2, Arrival
      <4>2. a # b => inbox'[b] = inbox[b]
        BY <2>0, <4>1
      <4>3. e \in InTransit(b)
        BY <4>1, <4>2 DEF InTransit
      <4> QED BY <2>1, <4>3
    <3>3. CASE (\E p \in Process : Connect(a, p)) \/ HandleJoinChannel(a) \/ ListMessages(a) \/ Fetched(a)
      BY <2>2, <3>3 DEF Connect, HandleJoinChannel, ListMessages, Fetched
    <3> QED BY <3>1, <3>2, <3>3
  <2>4. CASE CallStep
    BY <2>2, <2>4 DEF CallStep, Calls, Receive
  <2>5. CASE HandlerStep
    <3> PICK q \in Request : \/ SendMessage(q) \/ FindParent(q) \/ Find(q) \/ Save(q) \/ ReadBack(q)
                             \/ Emit(q) \/ Throws(q)
      BY <2>5 DEF HandlerStep
    <3>1. CASE SendMessage(q)
      <4>1. e \in InTransit(b) \/ e.type = "error"
        BY <3>1, Refused
      <4> QED BY <2>1, <4>1
    <3>2. CASE Emit(q)
      <4>1. e \in InTransit(b) \/ e.c = op[q]
        BY <3>2, Emitted
      <4>2. table[op[q].on] # NoRow /\ op[q].on \in Message
        BY <1>0, <3>2 DEF Emit, Present, AtWork, Staged, StageOf, InFlight, Command
      <4> QED BY <2>1, <4>1, <4>2
    <3>3. CASE FindParent(q) \/ Find(q) \/ Save(q) \/ ReadBack(q) \/ Throws(q)
      BY <2>2, <3>3 DEF FindParent, Find, Save, ReadBack, Throws
    <3> QED BY <3>1, <3>2, <3>3
  <2>6. CASE WaitStep
    BY <2>2, <2>6, Waits
  <2> QED BY <1>0, <2>2, <2>3, <2>4, <2>5, <2>6, Steps DEF vars
<1> QED BY <1>1, <1>2, <1>3, <1>4, <1>5 DEF Present

\* One step from a state of the invariant leads to another.
LEMMA CoreStep == Core /\ [Next]_vars => Core'
<1> SUFFICES ASSUME Core, [Next]_vars PROVE Core'
  OBVIOUS
<1>1. table' \in [Message -> Row \cup {NoRow}] /\ raced' \subseteq Message
  BY RowsStay DEF Core
<1>2. thread' \in [Browser -> {{}} \cup {{m} : m \in Existing}]
  BY Steps DEF Core, Typed, TypeOK
<1>3. HandlerTypes' /\ Staged' /\ SocketTypes' /\ HistoryTypes' /\ Present'
  BY HandlersStay, BrowsersStay, PresentStays
<1>4. (/\ thread \in [Browser -> {{}} \cup {{m} : m \in Existing}]
       /\ table \in [Message -> Row \cup {NoRow}] /\ raced \subseteq Message
       /\ SocketTypes /\ HandlerTypes /\ HistoryTypes)' => Typed'
  BY TypesAre, PTL
<1> QED BY <1>1, <1>2, <1>3, <1>4 DEF Core

\* Every variable of Chat keeps its type.
THEOREM TypeCorrect == Spec => []TypeOK
<1>1. Core => TypeOK
  BY DEF Core, Typed
<1> QED BY CoreInit, CoreStep, <1>1, PTL DEF Spec

-----------------------------------------------------------------------------
(* New messages, and what is deleted.                                      *)

Unsaved == {"channel", "findParent", "saveParent", "saveMessage"}

\* A message that is still to be saved is not in the table, and is one request's.
Fresh ==
    \A q \in Request : pc[q] \in Unsaved =>
        /\ table[op[q].on] = NoRow
        /\ \A r \in InFlight : r # q => op[r].on # op[q].on

\* The only commands that change are those of the request that acts.
LEMMA Flights ==
    ASSUME Core, [Next]_vars
    PROVE  \/ /\ CallStep
              /\ \E b \in Browser, q \in Request, c \in Command :
                    /\ Calls(b, q, c) /\ pc[q] = "idle" /\ table' = table /\ orphans' = orphans
                    /\ pc' = [pc EXCEPT ![q] = pc'[q]] /\ op' = [op EXCEPT ![q] = op'[q]]
                    /\ loaded' = loaded
                    /\ \/ pc'[q] = "done"
                       \/ op'[q] = c /\ pc'[q] = IF c.kind = "send" THEN "channel" ELSE "find"
           \/ UNCHANGED <<table, orphans, pc, op, loaded>>
           \/ \E q \in InFlight :
                /\ pc' = [pc EXCEPT ![q] = pc'[q]] /\ op' = [op EXCEPT ![q] = op'[q]]
                /\ loaded' = [loaded EXCEPT ![q] = loaded'[q]]
                /\ pc'[q] = "done" \/ op'[q] = op[q]
                /\ pc'[q] \in Unsaved => pc[q] \in Unsaved
                /\ \/ SendMessage(q) \/ FindParent(q) \/ Find(q) \/ Save(q) \/ ReadBack(q)
                   \/ Emit(q) \/ Throws(q)
           \/ /\ WaitStep /\ table' = table /\ orphans' = orphans
              /\ \E q \in Request : WaitMove(q)
<1>0. HandlerTypes /\ TypeOK
  BY TypesAre DEF Core, Typed
<1>1. CASE UNCHANGED vars \/ BrowserStep
  BY <1>1 DEF vars, handler, store, BrowserStep, Connect, HandleJoinChannel, HandleDisconnect, Arrives,
              ListMessages, Fetched
<1>2. CASE CallStep
  <2>1. PICK b \in Browser, q \in Request, c \in Command : Calls(b, q, c)
    BY <1>2 DEF CallStep
  <2>2. /\ pc[q] = "idle" /\ table' = table /\ orphans' = orphans /\ loaded' = loaded
        /\ \/ pc' = [pc EXCEPT ![q] = "done"] /\ op' = op
           \/ /\ pc' = [pc EXCEPT ![q] = IF c.kind = "send" THEN "channel" ELSE "find"]
              /\ op' = [op EXCEPT ![q] = c]
    BY <2>1 DEF Calls, Receive, store
  <2>3. CASE pc' = [pc EXCEPT ![q] = "done"] /\ op' = op
    <3>1. pc'[q] = "done" /\ op' = [op EXCEPT ![q] = op'[q]]
      BY <1>0, <2>3 DEF HandlerTypes
    <3> QED BY <1>2, <2>1, <2>2, <2>3, <3>1
  <2>4. CASE /\ pc' = [pc EXCEPT ![q] = IF c.kind = "send" THEN "channel" ELSE "find"]
             /\ op' = [op EXCEPT ![q] = c]
    <3>1. op'[q] = c /\ pc'[q] = IF c.kind = "send" THEN "channel" ELSE "find"
      BY <1>0, <2>4 DEF HandlerTypes
    <3>2. pc' = [pc EXCEPT ![q] = pc'[q]] /\ op' = [op EXCEPT ![q] = op'[q]]
      BY <2>4, <3>1
    <3> QED BY <1>2, <2>1, <2>2, <3>1, <3>2
  <2> QED BY <2>2, <2>3, <2>4
<1>3. CASE HandlerStep
  <2> PICK q \in Request : \/ SendMessage(q) \/ FindParent(q) \/ Find(q) \/ Save(q) \/ ReadBack(q)
                           \/ Emit(q) \/ Throws(q)
    BY <1>3 DEF HandlerStep
  <2>1. q \in InFlight
    BY DEF InFlight, SendMessage, FindParent, Find, Save, Commit, ReadBack, Emit, Throws
  <2>2. ASSUME End(q)
        PROVE  /\ pc' = [pc EXCEPT ![q] = pc'[q]] /\ op' = [op EXCEPT ![q] = op'[q]]
               /\ loaded' = [loaded EXCEPT ![q] = loaded'[q]]
               /\ pc'[q] = "done"
    BY <1>0, <2>2 DEF End, HandlerTypes
  <2>3. CASE End(q)
    BY <2>1, <2>2, <2>3 DEF Unsaved
  <2>4. CASE ~End(q)
    <3>1. /\ op' = op
          /\ \E stage : /\ pc' = [pc EXCEPT ![q] = stage]
                        /\ stage \in Unsaved => pc[q] \in Unsaved
          /\ loaded' = loaded \/ \E w : loaded' = [loaded EXCEPT ![q] = w]
      <4>1. CASE SendMessage(q)
        BY <2>4, <4>1 DEF SendMessage, GoTo, Unsaved
      <4>2. CASE FindParent(q)
        BY <4>2 DEF FindParent, FindById, GoTo, Unsaved
      <4>3. CASE Find(q)
        BY <2>4, <4>3 DEF Find, FindById, GoTo, Unsaved
      <4>4. CASE Save(q)
        <5> DEFINE stage == IF pc[q] = "saveParent" THEN "saveMessage"
                            ELSE IF op[q].kind \in {"send", "react"} THEN "readBack" ELSE "emit"
                   w == IF pc[q] = "save" THEN CHOOSE v \in Execute(op[q], q, loaded[q]) : TRUE ELSE NoRow
        <5>1. stage \in Unsaved => pc[q] \in Unsaved
          BY DEF Unsaved
        <5>2. /\ op' = op /\ pc' = [pc EXCEPT ![q] = stage]
              /\ loaded' = [loaded EXCEPT ![q] = w]
          BY <4>4 DEF Save, GoTo
        <5> HIDE DEF stage, w
        <5> QED BY <5>1, <5>2
      <4>5. CASE ReadBack(q)
        <5>1. /\ op' = op /\ pc' = [pc EXCEPT ![q] = "emit"]
              /\ loaded' = [loaded EXCEPT ![q] = table[op[q].on]]
          BY <4>5 DEF ReadBack, FindById, GoTo
        <5>2. "emit" \notin Unsaved
          BY DEF Unsaved
        <5> QED BY <5>1, <5>2
      <4>6. CASE Emit(q) \/ Throws(q)
        BY <2>4, <4>6 DEF Emit, Throws
      <4> QED BY <4>1, <4>2, <4>3, <4>4, <4>5, <4>6
    <3>2. /\ op' = [op EXCEPT ![q] = op'[q]] /\ op'[q] = op[q]
          /\ pc' = [pc EXCEPT ![q] = pc'[q]]
          /\ loaded' = [loaded EXCEPT ![q] = loaded'[q]]
          /\ pc'[q] \in Unsaved => pc[q] \in Unsaved
      <4>1. PICK stage : pc' = [pc EXCEPT ![q] = stage] /\ (stage \in Unsaved => pc[q] \in Unsaved)
        BY <3>1
      <4>2. pc'[q] = stage
        BY <1>0, <4>1 DEF HandlerTypes
      <4>3. loaded' = [loaded EXCEPT ![q] = loaded'[q]]
        BY <1>0, <3>1 DEF HandlerTypes
      <4>4. op' = [op EXCEPT ![q] = op'[q]] /\ op'[q] = op[q]
        BY <1>0, <3>1 DEF HandlerTypes
      <4> QED BY <4>1, <4>2, <4>3, <4>4
    <3> QED BY <2>1, <3>2
  <2> QED BY <2>3, <2>4
<1>4. CASE WaitStep
  BY <1>4, Waits DEF store
<1> QED BY <1>0, <1>1, <1>2, <1>3, <1>4, Steps

\* Sends look for a free message, and only a request's own save ends that.
LEMMA FreshStep ==
    ASSUME Core, Fresh, [Next]_vars
    PROVE  Fresh'
<1>0. /\ Typed /\ Staged /\ Present /\ TypeOK /\ HandlerTypes
      /\ table \in [Message -> Row \cup {NoRow}]
  BY TypesAre DEF Core, Typed
<1>1. CASE UNCHANGED <<table, orphans, pc, op, loaded>>
  BY <1>1 DEF Fresh, InFlight
<1>2. ASSUME NEW b \in Browser, NEW q \in Request, NEW c \in Command,
             Calls(b, q, c), pc[q] = "idle", table' = table,
             pc' = [pc EXCEPT ![q] = pc'[q]], op' = [op EXCEPT ![q] = op'[q]],
             \/ pc'[q] = "done"
             \/ op'[q] = c /\ pc'[q] = IF c.kind = "send" THEN "channel" ELSE "find"
      PROVE  Fresh'
  <2>1. \A r \in Request : r # q => pc'[r] = pc[r] /\ op'[r] = op[r]
    BY <1>0, <1>2 DEF HandlerTypes
  <2>2. CASE pc'[q] = "done"
    <3>1. InFlight' \subseteq InFlight /\ q \notin InFlight'
      BY <2>1, <2>2 DEF InFlight
    <3> SUFFICES ASSUME NEW r \in Request, pc'[r] \in Unsaved
                 PROVE  /\ table'[op'[r].on] = NoRow
                        /\ \A s \in InFlight' : s # r => op'[s].on # op'[r].on
      BY DEF Fresh
    <3>2. r # q /\ pc'[r] = pc[r] /\ op'[r] = op[r]
      BY <2>1, <2>2 DEF Unsaved
    <3>3. table[op[r].on] = NoRow /\ \A s \in InFlight : s # r => op[s].on # op[r].on
      BY <3>2 DEF Fresh
    <3>4. \A s \in InFlight' : s \in InFlight /\ op'[s] = op[s]
      BY <2>1, <3>1 DEF InFlight
    <3> QED BY <1>2, <3>2, <3>3, <3>4
  <2>3. CASE op'[q] = c /\ pc'[q] = IF c.kind = "send" THEN "channel" ELSE "find"
    <3>1. InFlight' = InFlight \cup {q} /\ q \notin InFlight
      BY <1>2, <2>1, <2>3 DEF InFlight
    <3>2. \/ c.kind = "send" /\ table[c.on] = NoRow /\ ~ActiveOn(c.on)
          \/ c.kind # "send" /\ view[b][c.on] # NoRow
      BY <1>0, <1>2 DEF Calls, Receive, Asks, Sends, Acts, Menu
    <3>3. ASSUME NEW r \in Request, r # q, pc[r] \in Unsaved
          PROVE  table[op[r].on] = NoRow /\ \A s \in InFlight : s # r => op[s].on # op[r].on
      BY <3>3 DEF Fresh
    <3>4. \A s \in InFlight : s # q /\ pc'[s] = pc[s] /\ op'[s] = op[s]
      BY <2>1, <3>1 DEF InFlight
    <3>5. CASE c.kind = "send" /\ table[c.on] = NoRow /\ ~ActiveOn(c.on)
      <4>1. \A r \in InFlight : op[r].on # c.on
        BY <3>5 DEF ActiveOn, On
      <4>2. \A r \in Request : pc[r] \in Unsaved => r \in InFlight
        BY DEF Unsaved, InFlight
      <4> QED BY <1>2, <2>1, <2>3, <3>1, <3>3, <3>4, <3>5, <4>1, <4>2 DEF Fresh
    <3>6. CASE c.kind # "send" /\ view[b][c.on] # NoRow
      <4>1. table[c.on] # NoRow
        BY <1>0, <3>6 DEF Present, Command
      <4>2. pc'[q] \notin Unsaved
        BY <2>3, <3>6 DEF Unsaved
      <4> QED BY <1>2, <2>1, <2>3, <3>1, <3>3, <3>4, <4>1, <4>2 DEF Fresh
    <3> QED BY <3>2, <3>5, <3>6
  <2> QED BY <1>2, <2>2, <2>3
<1>3. ASSUME NEW q \in InFlight,
             pc' = [pc EXCEPT ![q] = pc'[q]], op' = [op EXCEPT ![q] = op'[q]],
             pc'[q] = "done" \/ op'[q] = op[q],
             pc'[q] \in Unsaved => pc[q] \in Unsaved,
             \/ SendMessage(q) \/ FindParent(q) \/ Find(q) \/ Save(q) \/ ReadBack(q)
             \/ Emit(q) \/ Throws(q)
      PROVE  Fresh'
  <2>0. q \in Request
    BY DEF InFlight
  <2>1. \A r \in Request : r # q => pc'[r] = pc[r] /\ op'[r] = op[r]
    BY <1>0, <1>3, <2>0 DEF HandlerTypes
  <2>2. InFlight' \subseteq InFlight /\ (q \in InFlight' => op'[q] = op[q])
    BY <1>3, <2>1 DEF InFlight
  <2>3. ASSUME NEW r \in Request, pc'[r] \in Unsaved
        PROVE  pc[r] \in Unsaved /\ op'[r] = op[r] /\ r \in InFlight
    BY <1>3, <2>1, <2>3 DEF Unsaved, InFlight
  <2>4. ASSUME NEW r \in Request, pc'[r] \in Unsaved
        PROVE  table'[op[r].on] = NoRow
    <3>0. table[op[r].on] = NoRow /\ \A s \in InFlight : s # r => op[s].on # op[r].on
      BY <2>3, <2>4 DEF Fresh
    <3>1. op[r].on \in Message
      BY <1>0, <2>3, <2>4 DEF Staged, StageOf, Command
    <3>2. CASE table' = table
      BY <3>0, <3>2
    <3>3. CASE Commit(q)
      <4>1. PICK m \in Message, w \in Row, from \in Row \cup {NoRow} :
              /\ m \in On(op[q]) /\ Put(m, w, from)
              /\ \/ pc[q] = "saveParent" /\ op[q].to = {m}
                 \/ pc[q] # "saveParent" /\ m = op[q].on
        <5>1. PICK m \in Message, w \in Row, from \in Row \cup {NoRow} :
              /\ m \in On(op[q]) /\ Put(m, w, from)
              /\ \/ pc[q] = "saveParent" /\ op[q].to = {m}
                 \/ pc[q] = "saveMessage" /\ m = op[q].on
                 \/ pc[q] = "save" /\ m = op[q].on
          BY <1>0, <2>0, <3>3, Committed
        <5> QED BY <5>1
      <4>2. CASE op[q].to = {m}
        <5>1. m \in Existing
          BY <1>0, <1>3, <2>0, <4>2 DEF Staged, StageOf
        <5>2. op[r].on # m
          BY <1>0, <3>0, <5>1 DEF Present
        <5> QED BY <1>0, <3>0, <3>1, <4>1, <5>2, PutRow
      <4>3. CASE m = op[q].on /\ pc[q] # "saveParent"
        <5>1. q # r
          <6>1. SUFFICES ASSUME q = r PROVE FALSE
            OBVIOUS
          <6>2. pc[q] = "saveMessage"
            BY <2>3, <2>4, <3>3, <4>3, <6>1 DEF Commit, Unsaved
          <6>3. Save(q) \/ Throws(q)
            BY <1>3, <6>2 DEF SendMessage, FindParent, Find, ReadBack, Emit
          <6>4. pc'[q] \notin Unsaved
            <7>1. CASE Save(q)
              BY <1>0, <2>0, <6>2, <7>1 DEF Save, GoTo, HandlerTypes, Unsaved
            <7>2. CASE Throws(q)
              BY <1>0, <2>0, <7>2 DEF Throws, End, HandlerTypes, Unsaved
            <7> QED BY <6>3, <7>1, <7>2
          <6> QED BY <2>4, <6>1, <6>4
        <5>2. op[r].on # m
          BY <1>3, <3>0, <4>3, <5>1
        <5> QED BY <1>0, <3>0, <3>1, <4>1, <5>2, PutRow
      <4> QED BY <4>1, <4>2, <4>3
    <3>4. table' = table \/ Commit(q)
      BY <1>3 DEF SendMessage, FindParent, Find, Save, ReadBack, Emit, Throws, store
    <3> QED BY <3>2, <3>3, <3>4
  <2>5. ASSUME NEW r \in Request, pc'[r] \in Unsaved, NEW s \in InFlight', s # r
        PROVE  op'[s].on # op'[r].on
    <3>1. op'[r] = op[r] /\ \A t \in InFlight : t # r => op[t].on # op[r].on
      BY <2>3, <2>5 DEF Fresh
    <3>2. s \in InFlight /\ op'[s] = op[s]
      BY <2>1, <2>2 DEF InFlight
    <3> QED BY <2>5, <3>1, <3>2
  <2> QED BY <2>3, <2>4, <2>5 DEF Fresh
<1>4. ASSUME NEW q \in Request, WaitMove(q), table' = table PROVE Fresh'
  <2>1. \A r \in Request : r # q => pc'[r] = pc[r] /\ op'[r] = op[r]
    BY <1>0, <1>4 DEF WaitMove, HandlerTypes
  <2>2. /\ pc'[q] \notin Unsaved
        /\ q \in InFlight' => table[op'[q].on] # NoRow
    BY <1>4 DEF WaitMove, Unsaved, InFlight
  <2> SUFFICES ASSUME NEW r \in Request, pc'[r] \in Unsaved
               PROVE  /\ table'[op'[r].on] = NoRow
                      /\ \A s \in InFlight' : s # r => op'[s].on # op'[r].on
    BY DEF Fresh
  <2>3. r # q /\ pc[r] \in Unsaved /\ op'[r] = op[r]
    BY <2>1, <2>2
  <2>4. table[op[r].on] = NoRow /\ \A s \in InFlight : s # r => op[s].on # op[r].on
    BY <2>3 DEF Fresh
  <2>5. \A s \in InFlight' : s = q \/ (s \in InFlight /\ op'[s] = op[s])
    BY <2>1 DEF InFlight
  <2> QED BY <1>4, <2>2, <2>3, <2>4, <2>5
<1> QED BY <1>1, <1>2, <1>3, <1>4, Flights

LEMMA FreshHolds == Spec => [](Core /\ Fresh)
<1>1. Init => Fresh
  BY DEF Init, Fresh, Unsaved
<1> QED BY <1>1, CoreInit, CoreStep, FreshStep, PTL DEF Spec

\* A deleted message stays deleted with its text, unless a stale copy is saved.
THEOREM DeletedStays == Spec => DeletedStaysDeleted
<1>1. ASSUME Core, Fresh, Next, NEW m \in Message,
             table[m] # NoRow, ~StaleSave(m), table[m].deleted
      PROVE  table'[m].deleted /\ table'[m].content = table[m].content
  <2>0. /\ Typed /\ Staged /\ TypeOK /\ HandlerTypes /\ [Next]_vars
        /\ table \in [Message -> Row \cup {NoRow}] /\ table[m] \in Row
    BY <1>1, TypesAre DEF Core, Typed
  <2>1. CASE table' = table
    BY <1>1, <2>1
  <2>2. ASSUME NEW q \in Request, Commit(q), Save(q) \/ Throws(q)
        PROVE  table'[m].deleted /\ table'[m].content = table[m].content
    <3>1. PICK a \in Message, w \in Row, from \in Row \cup {NoRow} :
            /\ q \in InFlight /\ op[q] \in Command /\ Put(a, w, from)
            /\ \/ /\ pc[q] = "saveParent" /\ op[q].to = {a}
                  /\ from = loaded[q] /\ from \in Row /\ w = Counted(from)
               \/ pc[q] = "saveMessage" /\ a = op[q].on
               \/ /\ pc[q] = "save" /\ a = op[q].on /\ op[q].kind \in Kind
                  /\ from = loaded[q] /\ from \in Row /\ Execute(op[q], q, from) = {w}
      BY <2>0, <2>2, Committed
    <3>2. CASE a # m
      BY <1>1, <2>0, <3>1, <3>2, PutRow
    <3>3. CASE a = m
      <4>1. table'[m] = w
        BY <2>0, <3>1, <3>3, PutRow
      <4>2. pc'[q] # pc[q] \/ pc[q] = "saveMessage"
        <5>1. CASE Save(q)
          BY <2>0, <3>1, <5>1 DEF Save, GoTo, HandlerTypes
        <5>2. CASE Throws(q)
          BY <2>0, <3>1, <5>2 DEF Throws, End, HandlerTypes
        <5> QED BY <2>2, <5>1, <5>2
      <4>3. pc[q] # "saveMessage"
        BY <1>1, <3>1, <3>3 DEF Fresh, Unsaved
      <4>4. from = table[m]
        BY <1>1, <3>1, <3>3, <4>2, <4>3 DEF StaleSave
      <4>5. CASE pc[q] = "saveParent"
        <5>1. w = Counted(from) /\ from \in Row
          BY <3>1, <4>5
        <5> QED BY <1>1, <4>1, <4>4, <5>1, CountedIsRow
      <4>6. CASE pc[q] = "save"
        <5>1. /\ op[q] \in Command /\ op[q].kind \in Kind
              /\ from \in Row /\ w \in Execute(op[q], q, from)
          BY <3>1, <4>6
        <5>2. from.deleted => w.deleted /\ w.content = from.content
          BY <5>1, Executed
        <5> QED BY <1>1, <4>1, <4>4, <5>2
      <4> QED BY <3>1, <4>3, <4>5, <4>6
    <3> QED BY <3>2, <3>3
  <2> QED BY <2>0, <2>1, <2>2, RowsStay
<1>2. Core /\ Fresh /\ [Next]_vars =>
        [\A m \in Message :
            table[m] # NoRow /\ ~StaleSave(m) /\ table[m].deleted =>
                table'[m].deleted /\ table'[m].content = table[m].content]_vars
  BY <1>1
<1> QED BY <1>2, FreshHolds, PTL DEF Spec, DeletedStaysDeleted

-----------------------------------------------------------------------------
(* Counting replies.                                                       *)

Replies(m) == {r \in Message : table[r] # NoRow /\ table[r].parent = {m}}
Waiting(m) == {q \in Request : pc[q] = "saveMessage" /\ op[q].to = {m}}
\* the requests that have counted a reply which is not there, or not yet
Ahead(m) == Waiting(m) \cup orphans[m]
Total(m) == Cardinality(Replies(m)) + Cardinality(Ahead(m))

\* the message that request q is about to write back from its copy
Copies(q, m) ==
    \/ pc[q] = "save" /\ op[q].on = m
    \/ pc[q] = "saveParent" /\ op[q].to = {m}

\* Replies are replies to the messages that were there first, and their requests are done.
RepliesInv ==
    /\ \A r \in Message : table[r] # NoRow => table[r].parent \subseteq Existing
    /\ \A m \in Message : orphans[m] # {} => m \in Existing
    /\ \A m \in Message : \A q \in orphans[m] : pc[q] = "done"
    /\ \A m \in Message : IsFiniteSet(Replies(m)) /\ IsFiniteSet(Ahead(m))

\* A copy has the parent of its message and counts no more than was counted.
CopiesInv ==
    \A q \in Request, m \in Message : Copies(q, m) =>
        loaded[q].parent = table[m].parent /\ loaded[q].replies <= Total(m)

CountInv == Core /\ Fresh /\ RepliesInv /\ CopiesInv /\ RepliesAreCounted

\* The replies are counted.
LEMMA Counts ==
    RepliesAreCounted <=>
        \A m \in Message : table[m] # NoRow =>
            /\ table[m].replies <= Total(m)
            /\ m \notin raced => table[m].replies = Total(m)
  BY DEF RepliesAreCounted, Total, Ahead, Waiting, Replies

\* A copy that is about to be written is of a message in the table.
LEMMA CopiesArePresent ==
    ASSUME Core, NEW q \in Request, NEW m \in Message, Copies(q, m)
    PROVE  q \in InFlight /\ table[m] \in Row /\ loaded[q] \in Row
<1>1. q \in InFlight /\ loaded[q] \in Row
  BY DEF Copies, InFlight, Core, Staged, StageOf
<1>2. table[m] \in Row \cup {NoRow}
  BY TypesAre DEF Core
<1>3. table[m] # NoRow
  BY <1>1 DEF Copies, Core, Staged, StageOf, Present, AtWork
<1> QED BY <1>1, <1>2, <1>3

\* the orphans when q dies with its save applied, and without it
SavedOrphans(q) ==
    IF pc[q] = "saveParent"
    THEN [m \in Message |-> IF m \in op[q].to THEN orphans[m] \cup {q} ELSE orphans[m]]
    ELSE orphans
LostOrphans(q) ==
    IF pc[q] = "saveMessage"
    THEN [m \in Message |-> IF m \in op[q].to THEN orphans[m] \cup {q} ELSE orphans[m]]
    ELSE orphans

\* A request dies with its save applied or without it.
LEMMA Deaths ==
    ASSUME NEW q, Throws(q)
    PROVE  \/ Commit(q) /\ orphans' = SavedOrphans(q)
           \/ UNCHANGED <<table, raced>> /\ orphans' = LostOrphans(q)
  BY DEF Throws, SavedOrphans, LostOrphans

\* m is left alone, created, or saved by another request than a reply to it.
Otherwise(m) ==
    \/ table'[m] = table[m]
    \/ \E q \in Request : pc[q] \in {"saveMessage", "save"} /\ op[q].on = m /\ Commit(q)

\* What a step does to the replies of m and to the requests ahead of them.
LEMMA RepliesMove ==
    ASSUME Core, Fresh, RepliesInv, CopiesInv, [Next]_vars, NEW m \in Message
    PROVE  \/ Replies(m)' = Replies(m) /\ Ahead(m)' = Ahead(m) /\ Otherwise(m)
           \/ /\ Replies(m)' = Replies(m)
              /\ \E q \in Request : q \notin Ahead(m) /\ Ahead(m)' = Ahead(m) \cup {q}
                                    /\ pc[q] = "saveParent" /\ op[q].to = {m} /\ Commit(q)
           \/ \E q \in Ahead(m), r \in Message :
                /\ r \notin Replies(m) /\ Replies(m)' = Replies(m) \cup {r} /\ Ahead(m)' = Ahead(m) \ {q}
                /\ table'[m] = table[m]
<1>0. /\ Typed /\ Staged /\ Present /\ TypeOK /\ HandlerTypes
      /\ table \in [Message -> Row \cup {NoRow}] /\ orphans \in [Message -> SUBSET Request]
  BY TypesAre DEF Core, Typed, HistoryTypes
<1>1. ASSUME table' = table PROVE Replies(m)' = Replies(m) /\ Otherwise(m)
  BY <1>1 DEF Replies, Otherwise
<1>2. ASSUME NEW q \in Request, pc' = [pc EXCEPT ![q] = pc'[q]], op' = [op EXCEPT ![q] = op'[q]]
      PROVE  /\ Waiting(m)' \ {q} = Waiting(m) \ {q}
             /\ pc[q] # "saveMessage" \/ op[q].to # {m} => q \notin Waiting(m)
             /\ pc'[q] # "saveMessage" \/ op'[q].to # {m} => q \notin Waiting(m)'
  <2>1. \A r \in Request : r # q => pc'[r] = pc[r] /\ op'[r] = op[r]
    BY <1>0, <1>2 DEF HandlerTypes
  <2> QED BY <2>1 DEF Waiting
<1>3. CASE UNCHANGED <<table, orphans, pc, op, loaded>>
  BY <1>1, <1>3 DEF Ahead, Waiting
<1>4. ASSUME NEW q \in Request, pc[q] = "idle", table' = table, orphans' = orphans,
             pc' = [pc EXCEPT ![q] = pc'[q]], op' = [op EXCEPT ![q] = op'[q]],
             pc'[q] # "saveMessage"
      PROVE  Replies(m)' = Replies(m) /\ Ahead(m)' = Ahead(m) /\ Otherwise(m)
  <2>1. q \notin Waiting(m) /\ q \notin Waiting(m)' /\ Waiting(m)' \ {q} = Waiting(m) \ {q}
    BY <1>2, <1>4
  <2> QED BY <1>1, <1>4, <2>1 DEF Ahead
<1>5. ASSUME NEW q \in InFlight,
             pc' = [pc EXCEPT ![q] = pc'[q]], op' = [op EXCEPT ![q] = op'[q]],
             pc'[q] = "done" \/ op'[q] = op[q],
             \/ SendMessage(q) \/ FindParent(q) \/ Find(q) \/ Save(q) \/ ReadBack(q)
             \/ Emit(q) \/ Throws(q)
      PROVE  \/ Replies(m)' = Replies(m) /\ Ahead(m)' = Ahead(m) /\ Otherwise(m)
             \/ /\ Replies(m)' = Replies(m)
                /\ \E r \in Request : r \notin Ahead(m) /\ Ahead(m)' = Ahead(m) \cup {r}
                                      /\ pc[r] = "saveParent" /\ op[r].to = {m} /\ Commit(r)
             \/ \E s \in Ahead(m), r \in Message :
                  /\ r \notin Replies(m) /\ Replies(m)' = Replies(m) \cup {r} /\ Ahead(m)' = Ahead(m) \ {s}
                  /\ table'[m] = table[m]
  <2>0. q \in Request /\ pc[q] # "done" /\ q \notin orphans[m] /\ op[q] \in Command
    BY <1>0, <1>5 DEF InFlight, RepliesInv, Staged, StageOf
  <2>1. /\ Waiting(m)' \ {q} = Waiting(m) \ {q}
        /\ pc[q] # "saveMessage" \/ op[q].to # {m} => q \notin Waiting(m)
        /\ pc'[q] # "saveMessage" \/ op'[q].to # {m} => q \notin Waiting(m)'
    BY <1>2, <1>5, <2>0
  <2>2. CASE SendMessage(q) \/ FindParent(q) \/ Find(q) \/ ReadBack(q) \/ Emit(q)
    <3>1. table' = table /\ orphans' = orphans
      BY <2>2 DEF SendMessage, FindParent, Find, ReadBack, Emit, store
    <3>2. q \notin Waiting(m)
      BY <2>1, <2>2 DEF SendMessage, FindParent, Find, ReadBack, Emit
    <3>3. q \notin Waiting(m)'
      <4>1. pc'[q] = "saveMessage" => SendMessage(q) /\ op[q].to = {} /\ op'[q] = op[q]
        BY <1>0, <1>5, <2>0, <2>2 DEF SendMessage, FindParent, Find, ReadBack, Emit, End, GoTo, HandlerTypes
      <4> QED BY <2>1, <4>1
    <3> QED BY <1>1, <2>1, <3>1, <3>2, <3>3 DEF Ahead
  <2>3. CASE Throws(q) /\ table' = table /\ orphans' = LostOrphans(q)
    <3>1. pc'[q] = "done"
      BY <1>0, <2>0, <2>3 DEF Throws, End, HandlerTypes
    <3>2. orphans'[m] = IF pc[q] = "saveMessage" /\ m \in op[q].to THEN orphans[m] \cup {q} ELSE orphans[m]
      BY <1>0, <2>3 DEF LostOrphans
    <3>3. q \notin Waiting(m)'
      BY <2>1, <3>1
    <3>4. q \in Waiting(m) <=> pc[q] = "saveMessage" /\ m \in op[q].to
      BY <2>0 DEF Waiting, Command
    <3> QED BY <1>1, <2>1, <2>3, <3>2, <3>3, <3>4 DEF Ahead
  <2>4. CASE Commit(q) /\ (Save(q) \/ (Throws(q) /\ orphans' = SavedOrphans(q)))
    <3>1. PICK a \in Message, w \in Row, from \in Row \cup {NoRow} :
            /\ Put(a, w, from)
            /\ \/ /\ pc[q] = "saveParent" /\ op[q].to = {a}
                  /\ from = loaded[q] /\ from \in Row /\ w = Counted(from)
               \/ /\ pc[q] = "saveMessage" /\ a = op[q].on
                  /\ from = NoRow /\ w = Created(q, op[q].by, op[q].to)
               \/ /\ pc[q] = "save" /\ a = op[q].on /\ op[q].kind \in Kind
                  /\ from = loaded[q] /\ from \in Row /\ Execute(op[q], q, from) = {w}
      BY <1>0, <2>0, <2>4, Committed
    <3>2. table'[a] = w /\ w # NoRow /\ \A b \in Message : b # a => table'[b] = table[b]
      BY <1>0, <3>1, PutRow, NoRowIsNone
    <3>3. Save(q) => orphans' = orphans
      BY DEF Save
    <3>4. pc[q] = "saveParent" /\ Save(q) => pc'[q] = "saveMessage" /\ op'[q] = op[q]
      BY <1>0, <2>0 DEF Save, GoTo, HandlerTypes
    <3>5. pc[q] # "saveParent" \/ Throws(q) => pc'[q] # "saveMessage"
      <4>1. CASE Save(q) /\ pc[q] # "saveParent"
        BY <1>0, <2>0, <4>1 DEF Save, GoTo, HandlerTypes
      <4>2. CASE Throws(q)
        BY <1>0, <2>0, <4>2 DEF Throws, End, HandlerTypes
      <4> QED BY <2>4, <4>1, <4>2
    <3>6. orphans' = SavedOrphans(q) =>
            orphans'[m] = IF pc[q] = "saveParent" /\ m \in op[q].to THEN orphans[m] \cup {q} ELSE orphans[m]
      BY <1>0 DEF SavedOrphans
    <3>7. CASE pc[q] = "saveParent"
      <4>1. table[a] \in Row /\ w.parent = table[a].parent
        <5>1. Copies(q, a)
          BY <3>1, <3>7 DEF Copies
        <5>2. w = Counted(loaded[q]) /\ loaded[q] \in Row
          BY <3>1, <3>7
        <5>3. loaded[q].parent = table[a].parent
          BY <2>0, <5>1 DEF CopiesInv
        <5> QED BY <2>0, <5>1, <5>2, <5>3, CopiesArePresent, CountedIsRow
      <4>2. Replies(m)' = Replies(m)
        BY <3>2, <4>1, NoRowIsNone DEF Replies
      <4>3. op[q].to = {a}
        BY <3>1, <3>7
      <4>4. CASE a = m
        <5>1. Ahead(m)' = Ahead(m) \cup {q}
          <6>1. CASE Save(q)
            <7>1. q \in Waiting(m)'
              BY <2>0, <3>4, <3>7, <4>3, <4>4, <6>1 DEF Waiting
            <7> QED BY <2>1, <3>3, <6>1, <7>1 DEF Ahead
          <6>2. CASE Throws(q) /\ orphans' = SavedOrphans(q)
            <7>1. q \notin Waiting(m)' /\ orphans'[m] = orphans[m] \cup {q}
              BY <2>1, <3>5, <3>6, <3>7, <4>3, <4>4, <6>2
            <7> QED BY <2>1, <7>1 DEF Ahead
          <6> QED BY <2>4, <6>1, <6>2
        <5>2. q \notin Ahead(m)
          BY <2>0, <2>1, <3>7 DEF Ahead
        <5> QED BY <2>0, <2>4, <3>7, <4>2, <4>3, <4>4, <5>1, <5>2
      <4>5. CASE a # m
        <5>1. q \notin Waiting(m) /\ orphans'[m] = orphans[m]
          BY <2>1, <2>4, <3>3, <3>6, <3>7, <4>3, <4>5
        <5>2. q \notin Waiting(m)'
          <6>1. CASE Save(q)
            BY <2>1, <3>4, <3>7, <4>3, <4>5, <6>1
          <6>2. CASE Throws(q)
            BY <2>1, <3>5, <6>2
          <6> QED BY <2>4, <6>1, <6>2
        <5>3. Ahead(m)' = Ahead(m)
          BY <2>1, <5>1, <5>2 DEF Ahead
        <5>4. Otherwise(m)
          BY <3>2, <4>5 DEF Otherwise
        <5> QED BY <4>2, <5>3, <5>4
      <4> QED BY <4>4, <4>5
    <3>8. CASE pc[q] = "saveMessage"
      <4>1. table[a] = NoRow /\ a = op[q].on
        BY <2>0, <3>1, <3>8 DEF Fresh, Unsaved
      <4>2. w.parent = op[q].to
        BY <3>1, <3>8 DEF Created
      <4>3. orphans' = orphans
        <5>1. CASE orphans' = SavedOrphans(q)
          BY <3>8, <5>1 DEF SavedOrphans
        <5> QED BY <2>4, <3>3, <5>1
      <4>4. q \notin Waiting(m)'
        BY <2>1, <3>5, <3>8
      <4>5. q \in Waiting(m) <=> op[q].to = {m}
        BY <2>0, <3>8 DEF Waiting
      <4>6. Ahead(m)' = Ahead(m) \ {q}
        BY <2>0, <2>1, <4>3, <4>4 DEF Ahead
      <4>7. CASE op[q].to = {m}
        <5>1. a \notin Replies(m) /\ Replies(m)' = Replies(m) \cup {a}
          BY <3>2, <4>1, <4>2, <4>7 DEF Replies
        <5>2. q \in Ahead(m)
          BY <4>5, <4>7 DEF Ahead
        <5>3. m \in Existing
          BY <1>0, <1>5, <2>0, <4>7 DEF Staged, StageOf
        <5>4. m # a
          BY <1>0, <4>1, <5>3 DEF Present
        <5> QED BY <3>2, <4>6, <5>1, <5>2, <5>4
      <4>8. CASE op[q].to # {m}
        <5>1. Replies(m)' = Replies(m)
          BY <3>2, <4>1, <4>2, <4>8 DEF Replies
        <5>2. q \notin Ahead(m)
          BY <2>0, <4>5, <4>8 DEF Ahead
        <5>3. Otherwise(m)
          BY <2>0, <2>4, <3>2, <3>8, <4>1 DEF Otherwise
        <5> QED BY <4>6, <5>1, <5>2, <5>3
      <4> QED BY <4>7, <4>8
    <3>9. CASE pc[q] = "save"
      <4>1. table[a] \in Row /\ w.parent = table[a].parent
        <5>1. Copies(q, a)
          BY <3>1, <3>9 DEF Copies
        <5>2. w \in Execute(op[q], q, loaded[q]) /\ op[q].kind \in Kind /\ loaded[q] \in Row
          BY <3>1, <3>9
        <5>3. loaded[q].parent = table[a].parent
          BY <2>0, <5>1 DEF CopiesInv
        <5>4. w.parent = loaded[q].parent
          BY <2>0, <5>2, Executed
        <5> QED BY <2>0, <5>1, <5>3, <5>4, CopiesArePresent
      <4>2. Replies(m)' = Replies(m)
        BY <3>2, <4>1, NoRowIsNone DEF Replies
      <4>3. q \notin Waiting(m) /\ q \notin Waiting(m)' /\ orphans'[m] = orphans[m]
        BY <2>1, <2>4, <3>3, <3>5, <3>6, <3>9
      <4>4. Otherwise(m)
        BY <2>0, <2>4, <3>1, <3>2, <3>9 DEF Otherwise
      <4> QED BY <2>1, <4>2, <4>3, <4>4 DEF Ahead
    <3> QED BY <3>1, <3>7, <3>8, <3>9
  <2>5. Save(q) => Commit(q)
    BY DEF Save
  <2>6. Throws(q) => \/ Commit(q) /\ orphans' = SavedOrphans(q)
                     \/ table' = table /\ orphans' = LostOrphans(q)
    BY Deaths
  <2> QED BY <1>5, <2>2, <2>3, <2>4, <2>5, <2>6
<1>6. CASE \E b \in Browser, q \in Request, c \in Command :
                    /\ Calls(b, q, c) /\ pc[q] = "idle" /\ table' = table /\ orphans' = orphans
                    /\ pc' = [pc EXCEPT ![q] = pc'[q]] /\ op' = [op EXCEPT ![q] = op'[q]]
                    /\ \/ pc'[q] = "done"
                       \/ op'[q] = c /\ pc'[q] = IF c.kind = "send" THEN "channel" ELSE "find"
  <2>1. PICK q \in Request : /\ pc[q] = "idle" /\ table' = table /\ orphans' = orphans
                             /\ pc' = [pc EXCEPT ![q] = pc'[q]] /\ op' = [op EXCEPT ![q] = op'[q]]
                             /\ pc'[q] # "saveMessage"
    BY <1>6
  <2> QED BY <1>4, <2>1
<1>7. ASSUME NEW q \in Request, WaitMove(q), table' = table, orphans' = orphans
      PROVE  Replies(m)' = Replies(m) /\ Ahead(m)' = Ahead(m) /\ Otherwise(m)
  <2>1. q \notin Waiting(m) /\ q \notin Waiting(m)' /\ Waiting(m)' \ {q} = Waiting(m) \ {q}
    BY <1>2, <1>7 DEF WaitMove
  <2> QED BY <1>1, <1>7, <2>1 DEF Ahead
<1> QED BY <1>3, <1>5, <1>6, <1>7, Flights

\* No step lowers what is counted; a counted reply raises it by one.
LEMMA TotalMoves ==
    ASSUME Core, Fresh, RepliesInv, CopiesInv, [Next]_vars, NEW m \in Message
    PROVE  /\ IsFiniteSet(Replies(m))' /\ IsFiniteSet(Ahead(m))'
           /\ Total(m) \in Nat /\ Total(m)' \in Nat
           /\ \/ Total(m)' = Total(m) /\ Otherwise(m)
              \/ /\ Total(m)' = Total(m) + 1
                 /\ \E q \in Request : pc[q] = "saveParent" /\ op[q].to = {m} /\ Commit(q)
<1>0. IsFiniteSet(Replies(m)) /\ IsFiniteSet(Ahead(m))
  BY DEF RepliesInv
<1>1. Cardinality(Replies(m)) \in Nat /\ Cardinality(Ahead(m)) \in Nat
  BY <1>0, FS_CardinalityType
<1>2. Total(m)' = Cardinality(Replies(m)') + Cardinality(Ahead(m)')
  BY DEF Total
<1>3. CASE Replies(m)' = Replies(m) /\ Ahead(m)' = Ahead(m) /\ Otherwise(m)
  BY <1>0, <1>1, <1>2, <1>3 DEF Total
<1>4. ASSUME NEW q \in Request, Replies(m)' = Replies(m), q \notin Ahead(m), Ahead(m)' = Ahead(m) \cup {q},
             pc[q] = "saveParent" /\ op[q].to = {m} /\ Commit(q)
      PROVE  /\ IsFiniteSet(Replies(m))' /\ IsFiniteSet(Ahead(m))'
             /\ Total(m) \in Nat /\ Total(m)' \in Nat
             /\ Total(m)' = Total(m) + 1
  <2>1. IsFiniteSet(Ahead(m) \cup {q}) /\ Cardinality(Ahead(m) \cup {q}) = Cardinality(Ahead(m)) + 1
    BY <1>0, <1>4, FS_AddElement
  <2> QED BY <1>0, <1>1, <1>2, <1>4, <2>1 DEF Total
<1>5. ASSUME NEW q \in Ahead(m), NEW r \in Message,
             r \notin Replies(m), Replies(m)' = Replies(m) \cup {r}, Ahead(m)' = Ahead(m) \ {q},
             table'[m] = table[m]
      PROVE  /\ IsFiniteSet(Replies(m))' /\ IsFiniteSet(Ahead(m))'
             /\ Total(m) \in Nat /\ Total(m)' \in Nat
             /\ Total(m)' = Total(m) /\ Otherwise(m)
  <2>1. IsFiniteSet(Replies(m) \cup {r}) /\ Cardinality(Replies(m) \cup {r}) = Cardinality(Replies(m)) + 1
    BY <1>0, <1>5, FS_AddElement
  <2>2. IsFiniteSet(Ahead(m) \ {q}) /\ Cardinality(Ahead(m) \ {q}) = Cardinality(Ahead(m)) - 1
    BY <1>0, <1>5, FS_RemoveElement
  <2> QED BY <1>1, <1>2, <1>5, <2>1, <2>2 DEF Total, Otherwise
<1> QED BY <1>3, <1>4, <1>5, RepliesMove


\* A message without row has no replies and nobody is ahead of them.
LEMMA NewIsUncounted ==
    ASSUME Core, RepliesInv, NEW m \in Message, table[m] = NoRow
    PROVE  Total(m) = 0
<1>1. m \notin Existing
  BY DEF Core, Present
<1>2. Replies(m) = {}
  BY <1>1 DEF Replies, RepliesInv
<1>3. Waiting(m) = {}
  <2>1. \A q \in Request : pc[q] = "saveMessage" => op[q].to \subseteq Existing
    BY DEF Core, Staged, StageOf, InFlight
  <2> QED BY <1>1, <2>1 DEF Waiting
<1>4. orphans[m] = {}
  BY <1>1 DEF RepliesInv
<1> QED BY <1>2, <1>3, <1>4, FS_EmptySet DEF Total, Ahead

\* What a step leaves in m is counted, exactly if no copy was stale, and m keeps its parent.
LEMMA WrittenCounts ==
    ASSUME CountInv, [Next]_vars, NEW m \in Message, table'[m] # NoRow
    PROVE  /\ table'[m].replies <= Total(m)'
           /\ m \notin raced' => table'[m].replies = Total(m)'
           /\ table[m] # NoRow => table'[m].parent = table[m].parent
           /\ table'[m].parent \subseteq Existing
<1>0. /\ Core /\ Fresh /\ RepliesInv /\ CopiesInv /\ Typed /\ Staged /\ Present /\ TypeOK
      /\ table \in [Message -> Row \cup {NoRow}]
  BY TypesAre DEF CountInv, Core, Typed
<1>1. /\ Total(m) \in Nat /\ Total(m)' \in Nat /\ Total(m) <= Total(m)'
      /\ \/ Total(m)' = Total(m) /\ Otherwise(m)
         \/ /\ Total(m)' = Total(m) + 1
            /\ \E q \in Request : pc[q] = "saveParent" /\ op[q].to = {m} /\ Commit(q)
  BY <1>0, TotalMoves
<1>2. table[m] # NoRow => /\ table[m] \in Row /\ table[m].replies \in Nat
                          /\ table[m].replies <= Total(m)
                          /\ m \notin raced => table[m].replies = Total(m)
                          /\ table[m].parent \subseteq Existing
  BY <1>0, Counts DEF CountInv, RepliesInv, Row
<1>3. raced \subseteq raced'
  BY <1>0, RowsStay DEF Put, Commit
<1>4. CASE table'[m] = table[m] /\ Total(m)' = Total(m)
  BY <1>2, <1>3, <1>4
<1>5. ASSUME NEW q \in Request, Commit(q), pc[q] \in {"saveMessage", "save"}, op[q].on = m,
             Total(m)' = Total(m)
      PROVE  /\ table'[m].replies <= Total(m)'
             /\ m \notin raced' => table'[m].replies = Total(m)'
             /\ table[m] # NoRow => table'[m].parent = table[m].parent
             /\ table'[m].parent \subseteq Existing
  <2>1. PICK a \in Message, w \in Row, from \in Row \cup {NoRow} :
          /\ q \in InFlight /\ op[q] \in Command /\ Put(a, w, from)
          /\ \/ /\ pc[q] = "saveMessage" /\ a = op[q].on
                /\ from = NoRow /\ w = Created(q, op[q].by, op[q].to)
             \/ /\ pc[q] = "save" /\ a = op[q].on /\ op[q].kind \in Kind
                /\ from = loaded[q] /\ from \in Row /\ Execute(op[q], q, from) = {w}
    BY <1>0, <1>5, Committed
  <2>2. a = m /\ table'[m] = w /\ (from # table[m] => m \in raced')
    BY <1>0, <1>5, <2>1, PutRow
  <2>3. CASE pc[q] = "saveMessage"
    <3>1. table[m] = NoRow
      BY <1>0, <1>5, <2>3 DEF Fresh, Unsaved
    <3>2. Total(m) = 0
      BY <1>0, <3>1, NewIsUncounted
    <3>3. w.replies = 0 /\ w.parent = op[q].to
      BY <2>1, <2>3 DEF Created
    <3>4. op[q].to \subseteq Existing
      BY <1>0, <2>1 DEF Staged, StageOf
    <3> QED BY <1>5, <2>2, <3>1, <3>2, <3>3, <3>4
  <2>4. CASE pc[q] = "save"
    <3>1. Copies(q, m)
      BY <1>5, <2>4 DEF Copies
    <3>2. loaded[q].parent = table[m].parent /\ loaded[q].replies <= Total(m)
      BY <1>0, <3>1 DEF CopiesInv
    <3>3. w \in Execute(op[q], q, loaded[q]) /\ op[q].kind \in Kind /\ loaded[q] \in Row /\ op[q] \in Command
      BY <2>1, <2>4
    <3>4. w.parent = loaded[q].parent /\ w.replies = loaded[q].replies
      BY <3>3, Executed
    <3>5. table[m] # NoRow
      BY <1>0, <3>1, CopiesArePresent, NoRowIsNone
    <3>6. m \notin raced' => loaded[q] = table[m]
      BY <2>1, <2>2, <2>4
    <3> QED BY <1>2, <1>3, <1>5, <2>2, <3>2, <3>4, <3>5, <3>6
  <2> QED BY <1>5, <2>3, <2>4
<1>6. ASSUME NEW q \in Request, Commit(q), pc[q] = "saveParent", op[q].to = {m},
             Total(m)' = Total(m) + 1
      PROVE  /\ table'[m].replies <= Total(m)'
             /\ m \notin raced' => table'[m].replies = Total(m)'
             /\ table[m] # NoRow => table'[m].parent = table[m].parent
             /\ table'[m].parent \subseteq Existing
  <2>1. PICK a \in Message, w \in Row, from \in Row \cup {NoRow} :
          /\ Put(a, w, from) /\ op[q].to = {a}
          /\ from = loaded[q] /\ from \in Row /\ w = Counted(from)
    BY <1>0, <1>6, Committed
  <2>2. a = m /\ table'[m] = w /\ (from # table[m] => m \in raced')
    BY <1>0, <1>6, <2>1, PutRow
  <2>3. Copies(q, m)
    BY <1>6 DEF Copies
  <2>4. loaded[q].parent = table[m].parent /\ loaded[q].replies <= Total(m)
    BY <1>0, <2>3 DEF CopiesInv
  <2>5. w.parent = loaded[q].parent /\ w.replies = loaded[q].replies + 1 /\ loaded[q].replies \in Nat
    BY <2>1, CountedIsRow DEF Row
  <2>6. table[m] # NoRow
    BY <1>0, <2>3, CopiesArePresent, NoRowIsNone
  <2>7. m \notin raced' => loaded[q] = table[m]
    BY <2>1, <2>2
  <2> QED BY <1>1, <1>2, <1>3, <1>6, <2>2, <2>4, <2>5, <2>6, <2>7
<1> QED BY <1>1, <1>4, <1>5, <1>6 DEF Otherwise

\* One step from a state where replies are counted leads to another.
LEMMA CountStep == CountInv /\ [Next]_vars => CountInv'
<1> SUFFICES ASSUME CountInv, [Next]_vars PROVE CountInv'
  OBVIOUS
<1>0. /\ Core /\ Fresh /\ RepliesInv /\ CopiesInv /\ Typed /\ Staged /\ Present /\ TypeOK
      /\ HandlerTypes /\ table \in [Message -> Row \cup {NoRow}] /\ orphans \in [Message -> SUBSET Request]
      /\ \A m \in Message : table[m] # NoRow => table'[m] # NoRow
  BY TypesAre, RowsStay DEF CountInv, Core, Typed, HistoryTypes
<1>1. Core' /\ Fresh'
  BY <1>0, CoreStep, FreshStep
<1>2. RepliesAreCounted'
  <2>1. \A m \in Message : table'[m] # NoRow =>
            /\ table'[m].replies <= Total(m)'
            /\ m \notin raced' => table'[m].replies = Total(m)'
    BY WrittenCounts
  <2>2. (\A m \in Message : table[m] # NoRow =>
            /\ table[m].replies <= Total(m)
            /\ m \notin raced => table[m].replies = Total(m))' => RepliesAreCounted'
    BY Counts, PTL
  <2> QED BY <2>1, <2>2
<1>3. \A q \in Request : pc[q] = "done" => pc'[q] = "done"
  <2>1. ASSUME NEW q \in Request, NEW r \in Request, pc[r] # "done", pc' = [pc EXCEPT ![r] = pc'[r]],
               pc[q] = "done"
        PROVE  pc'[q] = "done"
    BY <1>0, <2>1 DEF HandlerTypes
  <2> QED BY <1>0, <2>1, Flights DEF InFlight, WaitMove
<1>4. /\ \A m \in Message : orphans'[m] # {} => m \in Existing
      /\ \A m \in Message : \A q \in orphans'[m] : pc'[q] = "done"
  <2>1. CASE orphans' = orphans
    BY <1>0, <1>3, <2>1 DEF RepliesInv
  <2>2. ASSUME NEW q \in Request, Throws(q)
        PROVE  /\ \A m \in Message : orphans'[m] # {} => m \in Existing
               /\ \A m \in Message : \A r \in orphans'[m] : pc'[r] = "done"
    <3>1. \A m \in Message : orphans'[m] = orphans[m] \/ (m \in op[q].to /\ orphans'[m] = orphans[m] \cup {q})
      BY <1>0, <2>2, Deaths DEF SavedOrphans, LostOrphans
    <3>2. op[q].to \subseteq Existing /\ pc'[q] = "done"
      BY <1>0, <2>2 DEF Throws, End, HandlerTypes, Staged, StageOf
    <3> QED BY <1>0, <1>3, <3>1, <3>2 DEF RepliesInv
  <2>3. orphans' = orphans \/ \E q \in Request : Throws(q)
    BY <1>0, Flights DEF InFlight, SendMessage, FindParent, Find, Save, ReadBack, Emit, store
  <2> QED BY <2>1, <2>2, <2>3
<1>5. RepliesInv'
  <2>1. \A m \in Message : table'[m] # NoRow => table'[m].parent \subseteq Existing
    BY WrittenCounts
  <2>2. \A m \in Message : IsFiniteSet(Replies(m))' /\ IsFiniteSet(Ahead(m))'
    BY <1>0, TotalMoves
  <2> QED BY <1>4, <2>1, <2>2 DEF RepliesInv
<1>6. ASSUME NEW q \in Request, NEW m \in Message, Copies(q, m)'
      PROVE  loaded'[q].parent = table'[m].parent /\ loaded'[q].replies <= Total(m)'
  <2>1. Total(m) \in Nat /\ Total(m)' \in Nat /\ Total(m) <= Total(m)'
    BY <1>0, TotalMoves
  <2>2. CASE Copies(q, m) /\ loaded'[q] = loaded[q]
    <3>1. loaded[q] \in Row /\ table[m] # NoRow
      BY <1>0, <2>2, CopiesArePresent, NoRowIsNone
    <3>2. table'[m].parent = table[m].parent
      BY <1>0, <3>1, WrittenCounts
    <3>3. loaded[q].replies \in Nat
      BY <3>1 DEF Row
    <3> QED BY <1>0, <2>1, <2>2, <3>2, <3>3 DEF CopiesInv
  <2>3. CASE loaded'[q] = table[m] /\ table[m] # NoRow
    <3>1. table[m].replies \in Nat /\ table[m].replies <= Total(m)
      BY <1>0, <2>3, Counts DEF CountInv, Row
    <3>2. table'[m].parent = table[m].parent
      BY <1>0, <2>3, WrittenCounts
    <3> QED BY <2>1, <2>3, <3>1, <3>2
  <2>4. pc'[q] \in {"save", "saveParent"} /\ (pc'[q] = "save" => op'[q].on = m)
        /\ (pc'[q] = "saveParent" => op'[q].to = {m})
    BY <1>6 DEF Copies
  <2>5. ASSUME NEW r \in Request, pc' = [pc EXCEPT ![r] = pc'[r]], op' = [op EXCEPT ![r] = op'[r]],
               loaded' = [loaded EXCEPT ![r] = loaded'[r]], r # q
        PROVE  Copies(q, m) /\ loaded'[q] = loaded[q]
    <3>1. pc'[q] = pc[q] /\ op'[q] = op[q] /\ loaded'[q] = loaded[q]
      BY <1>0, <2>5 DEF HandlerTypes
    <3> QED BY <2>4, <3>1 DEF Copies
  <2>6. CASE UNCHANGED <<table, orphans, pc, op, loaded>>
    BY <2>2, <2>4, <2>6 DEF Copies
  <2>7. ASSUME NEW r \in Request, pc' = [pc EXCEPT ![r] = pc'[r]], op' = [op EXCEPT ![r] = op'[r]],
               loaded' = loaded, pc'[r] \notin {"save", "saveParent"}
        PROVE  Copies(q, m) /\ loaded'[q] = loaded[q]
    <3>1. r # q
      BY <2>4, <2>7
    <3>2. pc'[q] = pc[q] /\ op'[q] = op[q] /\ loaded'[q] = loaded[q]
      BY <1>0, <2>7, <3>1 DEF HandlerTypes
    <3> QED BY <2>4, <3>2 DEF Copies
  <2>8. ASSUME FindParent(q) \/ Find(q), q \in InFlight
        PROVE  loaded'[q] = table[m] /\ table[m] # NoRow
    <3>1. CASE FindParent(q)
      <4>1. pc'[q] = "saveParent" /\ op'[q] = op[q] /\ pc[q] = "findParent"
        BY <1>0, <3>1 DEF FindParent, GoTo, HandlerTypes
      <4>2. PICK a \in op[q].to : loaded' = [loaded EXCEPT ![q] = table[a]]
        BY <3>1 DEF FindParent, FindById
      <4>3. a = m /\ m \in Existing
        BY <1>0, <2>4, <2>8, <4>1, <4>2 DEF Staged, StageOf
      <4>4. loaded'[q] = table[a]
        BY <1>0, <4>2 DEF HandlerTypes
      <4> QED BY <1>0, <4>3, <4>4 DEF Present
    <3>2. CASE Find(q)
      <4>1. ~End(q)
        BY <1>0, <2>4 DEF End, HandlerTypes
      <4>2. /\ pc' = [pc EXCEPT ![q] = "save"] /\ op' = op /\ pc[q] = "find"
            /\ loaded' = [loaded EXCEPT ![q] = table[op[q].on]]
        BY <3>2, <4>1 DEF Find, FindById, GoTo
      <4>3. pc'[q] = "save" /\ loaded'[q] = table[op[q].on]
        BY <1>0, <4>2 DEF HandlerTypes
      <4>4. op[q].on = m
        BY <2>4, <4>2, <4>3
      <4> QED BY <1>0, <4>2, <4>3, <4>4 DEF Present, AtWork
    <3> QED BY <2>8, <3>1, <3>2
  <2>9. ASSUME q \in InFlight, \/ SendMessage(q) \/ FindParent(q) \/ Find(q) \/ Save(q) \/ ReadBack(q)
                               \/ Emit(q) \/ Throws(q)
        PROVE  FindParent(q) \/ Find(q)
    <3>1. SendMessage(q) \/ Save(q) \/ ReadBack(q) \/ Emit(q) \/ Throws(q) =>
                pc'[q] \notin {"save", "saveParent"}
      BY <1>0 DEF SendMessage, Save, ReadBack, Emit, Throws, End, GoTo, HandlerTypes
    <3> QED BY <2>4, <2>9, <3>1
  <2>10. CASE \E b \in Browser, r \in Request, c \in Command :
                /\ pc' = [pc EXCEPT ![r] = pc'[r]] /\ op' = [op EXCEPT ![r] = op'[r]]
                /\ loaded' = loaded
                /\ \/ pc'[r] = "done"
                   \/ op'[r] = c /\ pc'[r] = IF c.kind = "send" THEN "channel" ELSE "find"
    <3>1. PICK r \in Request : /\ pc' = [pc EXCEPT ![r] = pc'[r]] /\ op' = [op EXCEPT ![r] = op'[r]]
                               /\ loaded' = loaded /\ pc'[r] \notin {"save", "saveParent"}
      BY <2>10
    <3> QED BY <2>2, <2>7, <3>1
  <2>11. ASSUME NEW r \in InFlight, pc' = [pc EXCEPT ![r] = pc'[r]], op' = [op EXCEPT ![r] = op'[r]],
                loaded' = [loaded EXCEPT ![r] = loaded'[r]],
                \/ SendMessage(r) \/ FindParent(r) \/ Find(r) \/ Save(r) \/ ReadBack(r)
                \/ Emit(r) \/ Throws(r)
         PROVE  loaded'[q].parent = table'[m].parent /\ loaded'[q].replies <= Total(m)'
    <3>0. r \in Request
      BY DEF InFlight
    <3>1. CASE r # q
      BY <2>2, <2>5, <2>11, <3>0, <3>1
    <3>2. CASE r = q
      BY <2>3, <2>8, <2>9, <2>11, <3>2
    <3> QED BY <3>1, <3>2
  <2>12. ASSUME NEW r \in Request, WaitMove(r)
         PROVE  loaded'[q].parent = table'[m].parent /\ loaded'[q].replies <= Total(m)'
    <3>1. r # q
      BY <2>4, <2>12 DEF WaitMove
    <3>2. Copies(q, m) /\ loaded'[q] = loaded[q]
      BY <2>5, <2>12, <3>1 DEF WaitMove
    <3> QED BY <2>2, <3>2
  <2> QED BY <1>0, <2>2, <2>6, <2>10, <2>11, <2>12, Flights
<1>7. CopiesInv'
  BY <1>6 DEF CopiesInv
<1> QED BY <1>1, <1>2, <1>5, <1>7 DEF CountInv

\* At first there are no replies.
LEMMA CountInit == Init => CountInv
<1> SUFFICES ASSUME Init PROVE CountInv
  OBVIOUS
<1>1. Core /\ Fresh
  BY CoreInit DEF Init, Fresh, Unsaved
<1>2. PICK by \in [Existing -> Browser] :
         table = [m \in Message |-> IF m \in Existing THEN Created("first", by[m], {}) ELSE NoRow]
  BY DEF Init
<1>3. \A m \in Message : table[m] # NoRow => table[m].parent = {} /\ table[m].replies = 0
  BY <1>2 DEF Created
<1>4. \A m \in Message : Replies(m) = {} /\ Ahead(m) = {}
  BY <1>3 DEF Init, Replies, Ahead, Waiting
<1>5. \A m \in Message : Total(m) = 0 /\ IsFiniteSet(Replies(m)) /\ IsFiniteSet(Ahead(m))
  BY <1>4, FS_EmptySet DEF Total
<1>6. RepliesInv
  BY <1>3, <1>5 DEF RepliesInv, Init
<1>7. CopiesInv
  BY DEF CopiesInv, Copies, Init
<1>8. RepliesAreCounted
  BY <1>3, <1>5, Counts
<1> QED BY <1>1, <1>6, <1>7, <1>8 DEF CountInv

\* The number of replies of a message is never too high, and right unless a
\* stale copy of the message was saved.
THEOREM RepliesCounted == Spec => []RepliesAreCounted
<1>1. CountInv => RepliesAreCounted
  BY DEF CountInv
<1> QED BY CountInit, CountStep, <1>1, PTL DEF Spec

-----------------------------------------------------------------------------
(* What browsers show.  A list and the events on their way to it, in their *)
(* order, are compared with the table one column at a time: the last event *)
(* that sets the column brings what the table has, or the list shows it.   *)

\* no item of s is in W
NoneIn(s, W) == \A i \in 1..Len(s) : s[i] \notin W

\* the last item of s that is in W is in G
LastIn(s, W, G) ==
    \E j \in 1..Len(s) : s[j] \in W \cap G /\ \A i \in 1..Len(s) : j < i => s[i] \notin W

\* When an item joins or leaves.
LEMMA LastItems ==
    ASSUME NEW S, NEW s \in Seq(S), NEW W, NEW G
    PROVE  /\ \A x \in S : x \in W \cap G => LastIn(Append(s, x), W, G)
           /\ \A x \in S : x \notin W =>
                /\ NoneIn(s, W) => NoneIn(Append(s, x), W)
                /\ LastIn(s, W, G) => LastIn(Append(s, x), W, G)
           /\ s # <<>> /\ NoneIn(s, W) => Head(s) \notin W /\ NoneIn(Tail(s), W)
           /\ s # <<>> /\ LastIn(s, W, G) =>
                LastIn(Tail(s), W, G) \/ (Head(s) \in W \cap G /\ NoneIn(Tail(s), W))
           /\ NoneIn(s, W) <=> \A e \in Items(s) : e \notin W
           /\ LastIn(s, W, G) => \E e \in Items(s) : e \in W \cap G
<1>0. Len(s) \in Nat
  OBVIOUS
<1>1. ASSUME NEW x \in S
      PROVE  /\ Len(Append(s, x)) = Len(s) + 1 /\ Append(s, x)[Len(s) + 1] = x
             /\ \A i \in 1..Len(s) : Append(s, x)[i] = s[i]
  OBVIOUS
<1>2. ASSUME NEW x \in S, x \in W \cap G PROVE LastIn(Append(s, x), W, G)
  <2>1. Len(s) + 1 \in 1..(Len(s) + 1) /\ \A i \in 1..(Len(s) + 1) : ~(Len(s) + 1 < i)
    BY <1>0
  <2> QED BY <1>1, <1>2, <2>1 DEF LastIn
<1>3. ASSUME NEW x \in S, x \notin W, NoneIn(s, W) PROVE NoneIn(Append(s, x), W)
  <2>1. \A i \in 1..(Len(s) + 1) : i \in 1..Len(s) \/ i = Len(s) + 1
    BY <1>0
  <2> QED BY <1>1, <1>3, <2>1 DEF NoneIn
<1>4. ASSUME NEW x \in S, x \notin W, LastIn(s, W, G) PROVE LastIn(Append(s, x), W, G)
  <2>1. PICK j \in 1..Len(s) : s[j] \in W \cap G /\ \A i \in 1..Len(s) : j < i => s[i] \notin W
    BY <1>4 DEF LastIn
  <2>2. \A i \in 1..(Len(s) + 1) : i \in 1..Len(s) \/ i = Len(s) + 1
    BY <1>0
  <2>3. j \in 1..(Len(s) + 1)
    BY <1>0
  <2>4. Append(s, x)[j] \in W \cap G
    BY <1>1, <2>1
  <2>5. \A i \in 1..(Len(s) + 1) : j < i => Append(s, x)[i] \notin W
    BY <1>1, <1>4, <2>1, <2>2
  <2> QED BY <1>1, <2>3, <2>4, <2>5 DEF LastIn
<1>5. ASSUME s # <<>>
      PROVE  /\ Head(s) = s[1] /\ Len(Tail(s)) = Len(s) - 1 /\ Len(s) >= 1
             /\ \A i \in 1..(Len(s) - 1) : Tail(s)[i] = s[i + 1] /\ i + 1 \in 1..Len(s)
             /\ \A i \in 1..Len(s) : i = 1 \/ (i - 1 \in 1..(Len(s) - 1) /\ Tail(s)[i - 1] = s[i])
  <2>1. /\ Head(s) = s[1] /\ Len(Tail(s)) = Len(s) - 1 /\ Len(s) >= 1
        /\ \A i \in 1..(Len(s) - 1) : Tail(s)[i] = s[i + 1] /\ i + 1 \in 1..Len(s)
    BY <1>5
  <2>2. \A i \in 1..Len(s) : i = 1 \/ (i - 1 \in 1..(Len(s) - 1) /\ i - 1 + 1 = i)
    BY <1>0
  <2> QED BY <2>1, <2>2
<1>6. ASSUME s # <<>>, NoneIn(s, W) PROVE Head(s) \notin W /\ NoneIn(Tail(s), W)
  BY <1>0, <1>5, <1>6 DEF NoneIn
<1>7. ASSUME s # <<>>, LastIn(s, W, G)
      PROVE  LastIn(Tail(s), W, G) \/ (Head(s) \in W \cap G /\ NoneIn(Tail(s), W))
  <2>1. PICK j \in 1..Len(s) : s[j] \in W \cap G /\ \A i \in 1..Len(s) : j < i => s[i] \notin W
    BY <1>7 DEF LastIn
  <2>2. CASE j = 1
    <3>1. \A i \in 1..(Len(s) - 1) : 1 < i + 1
      BY <1>0
    <3>2. NoneIn(Tail(s), W)
      BY <1>5, <1>7, <2>1, <2>2, <3>1 DEF NoneIn
    <3> QED BY <1>5, <1>7, <2>1, <2>2, <3>2
  <2>3. CASE j # 1
    <3>1. j - 1 \in 1..(Len(s) - 1) /\ Tail(s)[j - 1] = s[j]
      BY <1>5, <1>7, <2>3
    <3>2. \A i \in 1..(Len(s) - 1) : j - 1 < i => j < i + 1
      BY <1>0
    <3>3. \A i \in 1..(Len(s) - 1) : j - 1 < i => Tail(s)[i] \notin W
      BY <1>5, <1>7, <2>1, <3>2
    <3> QED BY <1>5, <1>7, <2>1, <3>1, <3>3 DEF LastIn
  <2> QED BY <2>2, <2>3
<1>8. NoneIn(s, W) <=> \A e \in Items(s) : e \notin W
  BY DEF NoneIn, Items
<1>9. LastIn(s, W, G) => \E e \in Items(s) : e \in W \cap G
  BY DEF LastIn, Items
<1> QED BY <1>2, <1>3, <1>4, <1>6, <1>7, <1>8, <1>9

-----------------------------------------------------------------------------
(* What the browsers show is what the table has.                           *)

\* the events that a list shows a message by
Creations(m) == {e \in Event : e.c.on = m /\ e.type \in {"received", "success"}}

\* what a list shows of a message, and the event and the commands that change it
Column == {"there", "content", "pinned", "reactions"}
Setter(k) ==
    CASE k = "there" -> "deleted" [] k = "content" -> "edited"
      [] k = "pinned" -> "pinned" [] k = "reactions" -> "reactions"
Doing(k) ==
    CASE k = "there" -> {"send", "delete"} [] k = "content" -> {"edit"}
      [] k = "pinned" -> {"pin", "unpin"} [] k = "reactions" -> {"react", "unreact"}

\* the events that set column k of m in the list of b
Sets(b, m, k) == Creations(m) \cup {e \in Event : e.c.on = m /\ e.type = Setter(k) /\ ~IsDeafTo(b, e.type)}

\* the events that set it to what row w has, and the items that show this
Brings(k, w) ==
    {e \in Event :
        CASE k = "there"     -> (e.type = "deleted") <=> w.deleted
          [] k = "content"   -> e.row.content = w.content
          [] k = "pinned"    -> (e.type = "pinned" /\ e.c.kind = "pin") <=> w.pinned
          [] k = "reactions" -> (IF e.type = "reactions" THEN e.row.reactions ELSE {}) = w.reactions}
Has(k, w) ==
    CASE k = "there"     -> IF w.deleted THEN {NoRow} ELSE Shown
      [] k = "content"   -> {NoRow} \cup {v \in Shown : v.content = w.content}
      [] k = "pinned"    -> {NoRow} \cup {v \in Shown : v.pinned <=> w.pinned}
      [] k = "reactions" -> {NoRow} \cup {v \in Shown : v.reactions = w.reactions}

\* The last event of s in W is in G, or there is none and the item v is in U.
Comes(s, W, G, v, U) == (NoneIn(s, W) /\ v \in U) \/ LastIn(s, W, G)

Comply(b, m, k) == Comes(inbox[b], Sets(b, m, k), Brings(k, table[m]), view[b][m], Has(k, table[m]))

\* A request that has still to tell column k of m, or not to.
Excused(m, k) ==
    \E q \in InFlight :
        /\ op[q].on = m /\ op[q].kind \in Doing(k)
        /\ op[q].kind = "delete" /\ pc[q] = "find" => ~table[m].deleted

\* In the panel of a thread nobody is told what b pins, so b has pinned it already.
OwnPin(b, m) ==
    \A q \in InFlight : op[q].on = m /\ op[q].by = b /\ op[q].kind \in {"pin", "unpin"} /\ thread[b] # {} =>
        /\ NoneIn(inbox[b], Creations(m))
        /\ view[b][m] # NoRow => (view[b][m].pinned <=> op[q].kind = "pin")

\* the replies to m that b is still to be told, and that are counted but not told
Underway(b, m) == {r \in Message : \E e \in InTransit(b) : e.type = "received" /\ e.c.on = r /\ e.c.to = {m}}
Midway(m) == {q \in InFlight : op[q].to = {m} /\ pc[q] \in {"saveMessage", "readBack", "emit"}}
RepliesCome(b, m) ==
    thread[b] = {} /\ m \in Existing /\ view[b][m] # NoRow =>
        view[b][m].replies + Cardinality(Underway(b, m)) + (IF Midway(m) = {} THEN 0 ELSE 1)
            = table[m].replies

Agreeing(b, m) ==
    table[m] # NoRow /\ table[m].parent = thread[b] =>
        /\ \A k \in Column : k = "there" \/ ~table[m].deleted => Excused(m, k) \/ Comply(b, m, k)
        /\ OwnPin(b, m)
        /\ RepliesCome(b, m)

\* The last event that sets a column brings what the table has, or the list has it.
AgreeInv == \A b \in Browser, m \in Message : m \notin doubt[b] => Agreeing(b, m)

\* Events are of the commands that make them, told when the request is done.
MatchInv ==
    \A b \in Browser : \A e \in InTransit(b) :
        /\ e.c.to \subseteq Existing
        /\ e.c.kind = "send" <=> e.type \in {"received", "success", "error"}
        /\ e.c.kind = "send" => e.c.on \notin Existing
        /\ e.c.kind # "send" => e.c.to = {} /\ table[e.c.on] # NoRow
        /\ e.type \in {"received", "success"} =>
                /\ table[e.c.on].parent = e.c.to
                /\ \A q \in InFlight : op[q].kind = "send" => op[q].on # e.c.on
        /\ e.type = "received" => e.row.parent = e.c.to
        /\ e.type \in {"success", "error"} => \A q \in e.row.content : pc[q] = "done"

\* Two events neither create the same message nor answer the same request.
OnceInv ==
    \A b \in Browser : \A i, j \in 1..Len(inbox[b]) : i # j =>
        LET e == inbox[b][i] f == inbox[b][j] IN
        /\ e.type \in {"received", "success"} /\ f.type \in {"received", "success"} => e.c.on # f.c.on
        /\ e.type \in {"success", "error"} /\ f.type \in {"success", "error"} => e.row.content # f.row.content

\* A new message goes to the list of its sender.
SendInv ==
    /\ \A q \in InFlight : op[q].kind = "send" =>
        /\ op[q].to = thread[op[q].by] /\ op[q].on \notin Existing
        /\ pc[q] \in {"readBack", "emit"} => table[op[q].on].parent = op[q].to
        /\ pc[q] = "emit" => loaded[q].parent = op[q].to
        /\ \A r \in InFlight : r # q /\ op[r].kind = "send" => op[r].on # op[q].on
    /\ \A m \in Existing : table[m].parent = {}
    /\ \A m \in Message \ Existing : table[m] # NoRow => table[m].replies = 0

\* A list shows messages of its own, and no reply has replies.
PlacedInv ==
    \A b \in Browser, m \in Message : \A l \in fetch[b] \cup {view[b]} :
        l[m] # NoRow =>
            /\ table[m].parent = thread[b]
            /\ m \notin Existing => l[m].replies = 0

\* Who is in no doubt has seen one request on m at a time.
OverlapInv ==
    \A b \in Browser, m \in Message :
        /\ m \notin doubt[b] => \A q, r \in InFlight : m \in On(op[q]) /\ m \in On(op[r]) => q = r
        /\ fetch[b] # {} /\ ActiveOn(m) => m \in hazy[b]

\* What a fetch has read is the table still, unless its browser knows otherwise.
SnapInv ==
    \A b \in Browser : \A l \in fetch[b] : \A m \in Message \ hazy[b] :
        /\ l[m] = ShownOf(b, table[m])
        /\ \A e \in InTransit(b) : m \notin On(e.c)

\* Request q has before it what the table has of m, and the table has what it wrote.
Written(q, m) ==
    /\ Copies(q, m) => loaded[q] = table[m]
    /\ op[q].on = m /\ pc[q] = "emit" =>
        /\ op[q].kind = "edit" => table[m].content = {q}
        /\ op[q].kind = "delete" => table[m].deleted
        /\ op[q].kind \in {"pin", "unpin"} => (table[m].pinned <=> op[q].kind = "pin")
        /\ op[q].kind \in {"react", "unreact"} => table[m].reactions = loaded[q].reactions
        /\ op[q].kind = "send" => loaded[q] = table[m]
    /\ op[q].on = m /\ op[q].kind = "send" /\ pc[q] \in {"readBack", "emit"} =>
        table[m] = Created(q, op[q].by, op[q].to)

\* b does not show yet what q sends, except as a temp- message of its own.
Awaited(b, q, m) ==
    op[q].on = m /\ op[q].kind = "send" => view[b][m] = NoRow /\ (op[q].by = b => q \in temp[b])

\* Nothing stale is under way on a message that is not in doubt.
CurrentInv ==
    \A b \in Browser, q \in InFlight, m \in Message :
        m \notin doubt[b] => Written(q, m) /\ Awaited(b, q, m)

\* An event that creates a message meets a list without it, and its temp- message.
ComingInv ==
    \A b \in Browser : \A e \in InTransit(b) : e.c.on \notin doubt[b] =>
        /\ e.type \in {"received", "success"} => view[b][e.c.on] = NoRow
        /\ e.type = "received" => \E q \in Request : e.row = Created(q, e.c.by, e.c.to)
        /\ e.type = "success" => e.row.content \subseteq temp[b]

\* What the steps do, seen from one browser b: its lists and what is known of
\* them stay, or they move by themselves, or a call begins, or a handler acts.
RequestStays(q) ==
    \/ pc'[q] = pc[q] /\ op'[q] = op[q] /\ loaded'[q] = loaded[q]
    \/ q \notin InFlight /\ q \notin InFlight'

ListStays(b) == view'[b] = view[b] /\ temp'[b] = temp[b] /\ fetch'[b] = fetch[b] /\ hazy'[b] = hazy[b]

Loses(b) ==
    /\ ListStays(b) /\ inbox'[b] = <<>>
    /\ doubt'[b] = doubt[b] \cup UNION {On(e.c) : e \in InTransit(b)}

Takes(b, e) ==
    /\ e \in Event /\ e \in InTransit(b) /\ inbox[b] # <<>> /\ e = Head(inbox[b])
    /\ view'[b] = Apply(b, view[b], temp[b], e) /\ temp'[b] = Settled(temp[b], e)
    /\ inbox'[b] = Tail(inbox[b])
    /\ fetch'[b] = fetch[b] /\ hazy'[b] = hazy[b] /\ doubt'[b] = doubt[b]

Reads(b) ==
    /\ view'[b] = view[b] /\ temp'[b] = temp[b] /\ inbox'[b] = inbox[b] /\ doubt'[b] = doubt[b]
    /\ fetch'[b] = {Listed(b)}
    /\ hazy'[b] = {m \in Message : ActiveOn(m) \/ \E e \in InTransit(b) : m \in On(e.c)}

Replaces(b, l) ==
    /\ l \in fetch[b] /\ view'[b] = l /\ temp'[b] = {} /\ fetch'[b] = {}
    /\ inbox'[b] = inbox[b] /\ doubt'[b] = hazy[b] /\ hazy'[b] = {}

Snubs(b, q, c) ==
    /\ c.kind \in Kind /\ Acts(b, c) /\ view'[b] = Optimistic(view[b], c, q)
    /\ temp'[b] = temp[b] /\ fetch'[b] = fetch[b] /\ hazy'[b] = hazy[b]
    /\ inbox'[b] = inbox[b] /\ doubt'[b] = doubt[b] \cup {c.on}

ListMoves(b) ==
    /\ table' = table /\ \A q \in Request : RequestStays(q)
    /\ \/ ListStays(b) /\ inbox'[b] = inbox[b] /\ doubt'[b] = doubt[b]
       \/ Loses(b) \/ Reads(b)
       \/ \E e \in Event : Takes(b, e)
       \/ \E l \in List : Replaces(b, l)
       \/ \E q \in Request, c \in Command : Snubs(b, q, c)

\* Command c of browser a comes to its handler, and the list of a has been changed
\* with it, or a knows that its list may be wrong.
Begins(b, a, q, c) ==
    /\ c.by = a /\ c.to \subseteq Existing
    /\ (c.kind = "send" /\ Sends(a, c)) \/ (c.kind \in Kind /\ table[c.on] # NoRow)
    /\ q \notin InFlight /\ op'[q] = c /\ pc'[q] = (IF c.kind = "send" THEN "channel" ELSE "find")
    /\ \A r \in Request \ {q} : RequestStays(r)
    /\ table' = table /\ inbox'[b] = inbox[b] /\ fetch'[b] = fetch[b]
    /\ doubt[b] \cup {m \in On(c) : ActiveOn(m)} \subseteq doubt'[b]
    /\ hazy'[b] = (IF fetch[b] = {} THEN {} ELSE hazy[b] \cup On(c))
    /\ \/ a # b /\ view'[b] = view[b] /\ temp'[b] = temp[b]
       \/ /\ a = b /\ (c.kind = "send" \/ Acts(b, c))
          /\ view'[b] = Optimistic(view[b], c, q)
          /\ temp'[b] = (IF c.kind = "send" THEN temp[b] \cup {q} ELSE temp[b])
       \/ /\ a = b /\ c.kind \in Kind /\ c.on \in doubt'[b]
          /\ view'[b] = view[b] /\ temp'[b] = temp[b]

\* Request q comes to another await and has read what it needs.
Goes(b, q) ==
    /\ table' = table /\ inbox'[b] = inbox[b] /\ doubt'[b] = doubt[b] /\ op'[q] = op[q]
    /\ \/ /\ pc[q] = "channel" /\ pc'[q] = (IF op[q].to = {} THEN "saveMessage" ELSE "findParent")
       \/ /\ pc[q] = "findParent" /\ pc'[q] = "saveParent"
          /\ \E m \in op[q].to : loaded'[q] = table[m]
       \/ /\ pc[q] = "find" /\ pc'[q] = "save" /\ loaded'[q] = table[op[q].on]
          /\ Execute(op[q], q, table[op[q].on]) # {}
       \/ pc[q] = "readBack" /\ pc'[q] = "emit" /\ loaded'[q] = table[op[q].on]

Quits(b, q) ==
    /\ table' = table /\ doubt'[b] = doubt[b] /\ pc'[q] = "done"
    /\ \/ /\ pc[q] = "find" /\ Execute(op[q], q, table[op[q].on]) = {} /\ inbox'[b] = inbox[b]
       \/ /\ pc[q] = "channel"
          /\ inbox'[b] = inbox[b] \/ inbox'[b] = Append(inbox[b], Answer("error", op[q], q))

Saves(b, q, m, w) ==
    /\ table' = [table EXCEPT ![m] = w] /\ inbox'[b] = inbox[b] /\ doubt'[b] = doubt[b] /\ op'[q] = op[q]
    /\ \/ /\ pc[q] = "saveParent" /\ pc'[q] = "saveMessage" /\ op[q].to = {m} /\ w = Counted(loaded[q])
       \/ /\ pc[q] = "saveMessage" /\ pc'[q] = "readBack" /\ op[q].on = m
          /\ w = Created(q, op[q].by, op[q].to)
       \/ /\ pc[q] = "save" /\ op[q].on = m /\ op[q].kind \in Kind /\ Execute(op[q], q, loaded[q]) = {w}
          /\ pc'[q] = (IF op[q].kind = "react" THEN "readBack" ELSE "emit") /\ loaded'[q] = w

\* the event that q sends to b, if any
Tells(b, q) ==
    /\ pc[q] = "emit" /\ table' = table /\ pc'[q] = "done"
    /\ \/ inbox'[b] = inbox[b] /\ doubt'[b] = doubt[b] \cup On(op[q])
       \/ /\ inbox'[b] = Append(inbox[b], Told(op[q], q, loaded[q]))
          /\ \/ doubt'[b] = doubt[b] \cup On(op[q])
             \/ /\ doubt'[b] = doubt[b]
                /\ b = op[q].by \/ ~IsDeafTo(b, Told(op[q], q, loaded[q]).type)
       \/ /\ inbox'[b] = Append(inbox[b], Answer("success", op[q], q)) /\ doubt'[b] = doubt[b]
          /\ op[q].kind = "send" /\ b = op[q].by

Dies(b, q) ==
    /\ inbox'[b] = inbox[b] /\ doubt'[b] = doubt[b] \cup On(op[q]) /\ pc'[q] = "done"
    /\ \A m \in Message \ On(op[q]) : table'[m] = table[m]

Acting(b, q) ==
    /\ q \in InFlight /\ op[q] \in Command /\ ListStays(b)
    /\ \A r \in Request \ {q} : RequestStays(r)
    /\ \/ Goes(b, q) \/ Quits(b, q) \/ Tells(b, q) \/ Dies(b, q)
       \/ \E m \in Message, w \in Row : Saves(b, q, m, w)

\* What a step of a browser is to another one, or to itself.
LEMMA BrowserMoves ==
    ASSUME Core, NEW b \in Browser, UNCHANGED vars \/ BrowserStep
    PROVE  ListMoves(b)
<1>0. /\ SocketTypes /\ HistoryTypes /\ Typed
  BY TypesAre DEF Core
<1>00. /\ inbox \in [Browser -> Seq(Event)] /\ view \in [Browser -> List] /\ temp \in [Browser -> SUBSET Request]
       /\ fetch \in [Browser -> SUBSET List] /\ doubt \in [Browser -> SUBSET Message]
       /\ hazy \in [Browser -> SUBSET Message]
  BY <1>0 DEF SocketTypes, HistoryTypes
<1>1. CASE UNCHANGED vars
  BY <1>1 DEF vars, store, handler, list, fetching, ListMoves, RequestStays, ListStays
<1>2. CASE BrowserStep
  <2> PICK a \in Browser : \/ \E p \in Process : Connect(a, p)
                           \/ HandleJoinChannel(a) \/ HandleDisconnect(a)
                           \/ Arrives(a) \/ ListMessages(a) \/ Fetched(a)
    BY <1>2 DEF BrowserStep
  <2>1. table' = table /\ \A q \in Request : RequestStays(q)
    <3>1. UNCHANGED <<store, handler>>
      BY DEF Connect, HandleJoinChannel, HandleDisconnect, Arrives, ListMessages, Fetched
    <3> QED BY <3>1 DEF store, handler, RequestStays
  <2>2. CASE ListStays(b) /\ inbox'[b] = inbox[b] /\ doubt'[b] = doubt[b]
    BY <2>1, <2>2 DEF ListMoves
  <2>3. CASE (\E p \in Process : Connect(a, p)) \/ HandleJoinChannel(a)
    BY <2>2, <2>3 DEF Connect, HandleJoinChannel, list, fetching, ListStays
  <2>4. CASE HandleDisconnect(a)
    <3>1. /\ inbox' = [inbox EXCEPT ![a] = <<>>]
          /\ doubt' = [doubt EXCEPT ![a] = @ \cup UNION {On(e.c) : e \in InTransit(a)}]
          /\ ListStays(b)
      BY <2>4 DEF HandleDisconnect, list, fetching, ListStays
    <3>2. CASE a = b
      <4>1. Loses(b)
        BY <1>00, <3>1, <3>2 DEF Loses
      <4> QED BY <2>1, <4>1 DEF ListMoves
    <3>3. CASE a # b
      BY <1>00, <2>2, <3>1, <3>3
    <3> QED BY <3>2, <3>3
  <2>5. CASE Arrives(a)
    <3>1. PICK e \in InTransit(a) :
              /\ e \in Event /\ e = Head(inbox[a])
              /\ view' = [view EXCEPT ![a] = Apply(a, view[a], temp[a], e)]
              /\ temp' = [temp EXCEPT ![a] = Settled(temp[a], e)]
              /\ inbox' = [inbox EXCEPT ![a] = Tail(inbox[a])]
      BY <1>0, <2>5, Arrival
    <3>2. inbox[a] # <<>> /\ fetch' = fetch /\ doubt' = doubt /\ hazy' = hazy
      BY <2>5 DEF Arrives, fetching
    <3>3. CASE a = b
      <4>1. Takes(b, e)
        <5> HIDE DEF List
        <5> QED BY <1>00, <3>1, <3>2, <3>3 DEF Takes
      <4> QED BY <2>1, <3>1, <4>1 DEF ListMoves
    <3>4. CASE a # b
      <4> HIDE DEF List
      <4> QED BY <1>00, <2>2, <3>1, <3>2, <3>4 DEF ListStays
    <3> QED BY <3>3, <3>4
  <2>6. CASE ListMessages(a)
    <3>1. /\ fetch' = [fetch EXCEPT ![a] = {Listed(a)}] /\ fetch[a] = {}
          /\ hazy' = [hazy EXCEPT ![a] =
                {m \in Message : ActiveOn(m) \/ \E e \in InTransit(a) : m \in On(e.c)}]
          /\ UNCHANGED <<inbox, view, temp, doubt>>
      BY <2>6 DEF ListMessages, list
    <3>2. CASE a = b
      <4>1. Reads(b)
        BY <1>00, <3>1, <3>2 DEF Reads
      <4> QED BY <2>1, <4>1 DEF ListMoves
    <3>3. CASE a # b
      BY <1>00, <2>2, <3>1, <3>3 DEF ListStays
    <3> QED BY <3>2, <3>3
  <2>7. CASE Fetched(a)
    <3>1. PICK l \in fetch[a] : view' = [view EXCEPT ![a] = l]
      BY <2>7 DEF Fetched
    <3>2. /\ temp' = [temp EXCEPT ![a] = {}] /\ fetch' = [fetch EXCEPT ![a] = {}]
          /\ doubt' = [doubt EXCEPT ![a] = hazy[a]] /\ hazy' = [hazy EXCEPT ![a] = {}]
          /\ inbox' = inbox
      BY <2>7 DEF Fetched
    <3>3. CASE a = b
      <4>1. Replaces(b, l) /\ l \in List
        <5> HIDE DEF List
        <5> QED BY <1>00, <3>1, <3>2, <3>3 DEF Replaces
      <4> QED BY <2>1, <4>1 DEF ListMoves
    <3>4. CASE a # b
      BY <1>00, <2>2, <3>1, <3>2, <3>4 DEF ListStays
    <3> QED BY <3>3, <3>4
  <2> QED BY <2>3, <2>4, <2>5, <2>6, <2>7
<1> QED BY <1>1, <1>2

\* What a call is to the one who makes it and to others.
LEMMA CallMoves ==
    ASSUME Core, NEW b \in Browser, CallStep
    PROVE  ListMoves(b) \/ \E a \in Browser, q \in Request, c \in Command : Begins(b, a, q, c)
<1>0. /\ SocketTypes /\ HistoryTypes /\ HandlerTypes /\ Typed
      /\ inbox \in [Browser -> Seq(Event)] /\ view \in [Browser -> List] /\ temp \in [Browser -> SUBSET Request]
      /\ fetch \in [Browser -> SUBSET List] /\ doubt \in [Browser -> SUBSET Message]
      /\ hazy \in [Browser -> SUBSET Message]
      /\ pc \in [Request -> {"idle", "waits", "channel", "findParent", "saveParent", "saveMessage",
                           "find", "save", "readBack", "emit", "done"}]
      /\ op \in [Request -> Command \cup {NoCommand}]
  BY TypesAre DEF Core, SocketTypes, HistoryTypes, HandlerTypes
<1>1. PICK a \in Browser, q \in Request, c \in Command : Calls(a, q, c)
  BY DEF CallStep
<1>2. /\ pc[q] = "idle" /\ Asks(a, c) /\ c.by = a /\ c.to \subseteq Existing
      /\ view' = [view EXCEPT ![a] = Optimistic(view[a], c, q)]
      /\ table' = table /\ inbox' = inbox /\ fetch' = fetch /\ loaded' = loaded
  BY <1>1 DEF Calls, Receive, Asks, store, fetching
<1>3. (c.kind = "send" /\ Sends(a, c)) \/ (c.kind \in Kind /\ Acts(a, c))
  <2>1. Sends(a, c) => c.kind = "send"
    BY DEF Sends
  <2>2. Acts(a, c) => c.kind \in Kind
    <3>1. \A m : Menu(a, m) \subseteq Kind
      BY DEF Menu, Kind
    <3> QED BY <3>1 DEF Acts
  <2> QED BY <1>2, <2>1, <2>2 DEF Asks
<1>4. CASE /\ Acts(a, c)
           /\ pc' = [pc EXCEPT ![q] = "done"]
           /\ doubt' = [doubt EXCEPT ![a] = @ \cup {c.on}]
           /\ UNCHANGED <<op, temp, hazy>>
  <2>1. c.kind \in Kind /\ Acts(a, c)
    BY <1>3, <1>4 DEF Acts, Menu, Kind
  <2>2. \A r \in Request : RequestStays(r)
    BY <1>0, <1>2, <1>4 DEF RequestStays, InFlight
  <2>3. CASE a = b
    <3>1. view'[b] = Optimistic(view[b], c, q) /\ doubt'[b] = doubt[b] \cup {c.on}
      <4> HIDE DEF List
      <4> QED BY <1>0, <1>2, <1>4, <2>3
    <3>2. Snubs(b, q, c)
      BY <1>2, <1>4, <2>1, <2>3, <3>1 DEF Snubs
    <3> QED BY <1>2, <2>2, <3>2 DEF ListMoves
  <2>4. CASE a # b
    <3>1. view'[b] = view[b] /\ doubt'[b] = doubt[b]
      <4> HIDE DEF List
      <4> QED BY <1>0, <1>2, <1>4, <2>4
    <3> QED BY <1>2, <1>4, <2>2, <3>1 DEF ListMoves, ListStays
  <2> QED BY <2>3, <2>4
<1>5. CASE /\ pc' = [pc EXCEPT ![q] = IF c.kind = "send" THEN "channel" ELSE "find"]
           /\ op' = [op EXCEPT ![q] = c]
           /\ temp' = IF c.kind = "send" THEN [temp EXCEPT ![a] = @ \cup {q}] ELSE temp
           /\ doubt' = [x \in Browser |-> doubt[x] \cup {m \in On(c) : ActiveOn(m)}]
           /\ hazy' = [x \in Browser |-> IF fetch[x] = {} THEN {} ELSE hazy[x] \cup On(c)]
  <2>1. \A r \in Request \ {q} : RequestStays(r)
    BY <1>0, <1>2, <1>5 DEF RequestStays
  <2>2. op'[q] = c /\ pc'[q] = (IF c.kind = "send" THEN "channel" ELSE "find")
    BY <1>0, <1>5
  <2>3. a # b => view'[b] = view[b] /\ temp'[b] = temp[b]
    <3> HIDE DEF List
    <3> QED BY <1>0, <1>2, <1>5
  <2>4. a = b => /\ view'[b] = Optimistic(view[b], c, q)
                 /\ temp'[b] = (IF c.kind = "send" THEN temp[b] \cup {q} ELSE temp[b])
    <3>1. a = b => view'[b] = Optimistic(view[b], c, q)
      <4> HIDE DEF List
      <4> QED BY <1>0, <1>2
    <3>2. a = b => temp'[b] = (IF c.kind = "send" THEN temp[b] \cup {q} ELSE temp[b])
      <4>1. CASE c.kind = "send"
        BY <1>0, <1>5, <4>1
      <4>2. CASE c.kind # "send"
        BY <1>0, <1>5, <4>2
      <4> QED BY <4>1, <4>2
    <3> QED BY <3>1, <3>2
  <2>5. /\ doubt'[b] = doubt[b] \cup {m \in On(c) : ActiveOn(m)}
        /\ hazy'[b] = (IF fetch[b] = {} THEN {} ELSE hazy[b] \cup On(c))
    BY <1>5
  <2>6. q \notin InFlight /\ (c.kind \in Kind => table[c.on] # NoRow)
    BY <1>2, <1>3 DEF InFlight, Acts, Core, Present, Command, Kind, Sends
  <2>7. Begins(b, a, q, c)
    BY <1>2, <1>3, <2>1, <2>2, <2>3, <2>4, <2>5, <2>6 DEF Begins
  <2> QED BY <2>7
<1> QED BY <1>1, <1>4, <1>5 DEF Calls, Receive

\* What a command that waits is to the one who gave it and to others.
LEMMA WaitMoves ==
    ASSUME Core, NEW b \in Browser, WaitStep
    PROVE  ListMoves(b) \/ \E a \in Browser, q \in Request, c \in Command : Begins(b, a, q, c)
<1>0. /\ SocketTypes /\ HistoryTypes /\ HandlerTypes /\ Staged /\ Present
      /\ view \in [Browser -> List] /\ doubt \in [Browser -> SUBSET Message]
      /\ table' = table /\ inbox' = inbox /\ temp' = temp /\ fetch' = fetch
  BY TypesAre, Waits DEF Core, SocketTypes, HistoryTypes, store, fetching
<1>1. ASSUME NEW a \in Browser, NEW q \in Request, NEW c \in Command, Postpones(a, q, c)
      PROVE  ListMoves(b)
  <2>1. /\ view' = [view EXCEPT ![a] = Optimistic(view[a], c, q)] /\ Acts(a, c)
        /\ doubt' = [doubt EXCEPT ![a] = @ \cup {c.on}] /\ hazy' = hazy
        /\ pc[q] = "idle" /\ pc' = [pc EXCEPT ![q] = "waits"]
        /\ op' = [op EXCEPT ![q] = c] /\ loaded' = loaded
    BY <1>1 DEF Postpones, ReceiveLater
  <2>2. c.kind \in Kind
    BY <2>1 DEF Acts, Menu, Kind
  <2>3. \A r \in Request : RequestStays(r)
    BY <1>0, <2>1 DEF RequestStays, HandlerTypes, InFlight
  <2> HIDE DEF List
  <2>4. CASE a = b
    <3>1. view'[b] = Optimistic(view[b], c, q) /\ doubt'[b] = doubt[b] \cup {c.on}
      BY <1>0, <2>1, <2>4
    <3>2. Snubs(b, q, c)
      BY <1>0, <2>1, <2>2, <2>4, <3>1 DEF Snubs
    <3> QED BY <1>0, <2>3, <3>2 DEF ListMoves
  <2>5. CASE a # b
    <3>1. view'[b] = view[b] /\ doubt'[b] = doubt[b]
      BY <1>0, <2>1, <2>5
    <3> QED BY <1>0, <2>1, <2>3, <3>1 DEF ListMoves, ListStays
  <2> QED BY <2>4, <2>5
<1>2. ASSUME NEW q \in Request, Flush(q)
      PROVE  \E a \in Browser, c \in Command : Begins(b, a, q, c)
  <2> DEFINE c == op[q]
  <2>1. /\ pc[q] = "waits" /\ pc' = [pc EXCEPT ![q] = "find"] /\ op' = op /\ loaded' = loaded
        /\ view' = view
        /\ doubt'[b] = IF b = c.by \/ ActiveOn(c.on) THEN doubt[b] \cup {c.on} ELSE doubt[b]
        /\ hazy'[b] = IF fetch[b] = {} THEN {} ELSE hazy[b] \cup {c.on}
    BY <1>2 DEF Flush, GoTo, list
  <2>2. c \in Command /\ c.kind \in Kind /\ c.to = {} /\ table[c.on] # NoRow
    BY <1>0, <2>1 DEF Staged, StageOf, Present, AtWork
  <2>3. c.by \in Browser /\ c.kind # "send" /\ On(c) = {c.on}
    BY <2>2 DEF Command, Kind, On
  <2>4. pc'[q] = "find" /\ q \notin InFlight /\ \A r \in Request \ {q} : RequestStays(r)
    BY <1>0, <2>1 DEF HandlerTypes, InFlight, RequestStays
  <2>5. Begins(b, c.by, q, c)
    BY <1>0, <2>1, <2>2, <2>3, <2>4 DEF Begins
  <2> QED BY <2>2, <2>3, <2>5
<1>3. ASSUME NEW q \in Request, Discard(q) PROVE ListMoves(b)
  <2>1. /\ pc[q] = "waits" /\ pc' = [pc EXCEPT ![q] = "done"]
        /\ op' = [op EXCEPT ![q] = NoCommand] /\ loaded' = [loaded EXCEPT ![q] = NoRow]
        /\ view' = view /\ doubt' = doubt /\ hazy' = hazy
    BY <1>3 DEF Discard, End, list
  <2>2. \A r \in Request : RequestStays(r)
    BY <1>0, <2>1 DEF RequestStays, HandlerTypes, InFlight
  <2> QED BY <1>0, <2>1, <2>2 DEF ListMoves, ListStays
<1> QED BY <1>1, <1>2, <1>3 DEF WaitStep

\* What an event or an answer does to the inbox of b.
LEMMA SentIs ==
    ASSUME Core, NEW b \in Browser, NEW q \in Request, Emit(q)
    PROVE  Tells(b, q)
<1>0. /\ SocketTypes /\ HistoryTypes /\ HandlerTypes /\ Typed
      /\ inbox[b] \in Seq(Event) /\ pc[q] = "emit" /\ op[q] \in Command
      /\ op[q].kind \in {"send", "react", "unreact"} => loaded[q] \in Row
  BY TypesAre DEF Core, SocketTypes, Emit, Staged, StageOf, InFlight
<1> DEFINE c == op[q]
           x == Told(c, q, loaded[q])
           y == Answer("success", c, q)
           answered == IF c.kind = "send" /\ Reachable(c) THEN {c.by} ELSE {}
<1>1. x \in Event /\ y \in Event
  BY <1>0, ToldIsEvent, AnswerIsEvent
<1>2. /\ inbox'[b] = inbox[b] \o Sent(b, q)
      /\ doubt'[b] = IF b \in Room(c) \cup answered /\ (b = c.by \/ ~IsDeafTo(b, x.type))
                     THEN doubt[b] ELSE doubt[b] \cup On(c)
  BY Emitted DEF Emit
<1>3. pc'[q] = "done" /\ table' = table
  BY <1>0 DEF Emit, End, HandlerTypes, store
<1>4. inbox[b] \o <<>> = inbox[b] /\ inbox[b] \o <<x>> = Append(inbox[b], x) /\ inbox[b] \o <<y>> = Append(inbox[b], y)
  <2> HIDE DEF x, y
  <2> QED BY <1>0, <1>1
<1>5. /\ b \in Room(c) /\ b \in answered => FALSE
      /\ b \in answered => c.kind = "send" /\ b = c.by
  BY DEF Room
<1>6. Sent(b, q) = (IF b \in Room(c) THEN <<x>> ELSE <<>>) \o (IF b \in answered THEN <<y>> ELSE <<>>)
  BY DEF Sent
<1>7. <<x>> \o <<>> = <<x>> /\ <<>> \o <<y>> = <<y>> /\ <<>> \o <<>> = <<>>
  <2>1. \A v : <<v>> \o <<>> = <<v>> /\ <<>> \o <<v>> = <<v>> /\ <<>> \o <<>> = <<>>
    OBVIOUS
  <2> QED BY <2>1
<1>8. CASE b \in Room(c)
  <2>1. Sent(b, q) = <<x>>
    BY <1>5, <1>6, <1>7, <1>8
  <2>2. inbox'[b] = Append(inbox[b], x)
    BY <1>2, <1>4, <2>1
  <2> QED BY <1>0, <1>2, <1>3, <1>8, <2>2 DEF Tells
<1>9. CASE b \notin Room(c) /\ b \in answered
  <2>1. Sent(b, q) = <<y>>
    BY <1>6, <1>7, <1>9
  <2>2. inbox'[b] = Append(inbox[b], y)
    BY <1>2, <1>4, <2>1
  <2> QED BY <1>0, <1>2, <1>3, <1>5, <1>9, <2>2 DEF Tells
<1>10. CASE b \notin Room(c) /\ b \notin answered
  <2>1. Sent(b, q) = <<>>
    BY <1>6, <1>7, <1>10
  <2>2. inbox'[b] = inbox[b]
    BY <1>2, <1>4, <2>1
  <2> QED BY <1>0, <1>2, <1>3, <1>10, <2>2 DEF Tells
<1> QED BY <1>8, <1>9, <1>10

\* What a save writes.
LEMMA SavedIs ==
    ASSUME Core, NEW b \in Browser, NEW q \in Request, Save(q)
    PROVE  \E m \in Message, w \in Row : Saves(b, q, m, w)
<1>0. Typed /\ Staged /\ HandlerTypes
  BY TypesAre DEF Core
<1>1. PICK m \in Message, w \in Row, from \in Row \cup {NoRow} :
        /\ m \in On(op[q]) /\ q \in InFlight /\ op[q] \in Command
        /\ Put(m, w, from)
        /\ \/ /\ pc[q] = "saveParent" /\ op[q].to = {m}
              /\ from = loaded[q] /\ from \in Row /\ w = Counted(from)
           \/ /\ pc[q] = "saveMessage" /\ m = op[q].on
              /\ from = NoRow /\ w = Created(q, op[q].by, op[q].to)
           \/ /\ pc[q] = "save" /\ m = op[q].on /\ op[q].kind \in Kind
              /\ from = loaded[q] /\ from \in Row /\ Execute(op[q], q, from) = {w}
  BY <1>0, Committed DEF Save
<1>2. /\ table' = [table EXCEPT ![m] = w] /\ inbox'[b] = inbox[b] /\ doubt'[b] = doubt[b] /\ op'[q] = op[q]
      /\ pc' = [pc EXCEPT ![q] = IF pc[q] = "saveParent" THEN "saveMessage"
               ELSE IF op[q].kind \in {"send", "react"} THEN "readBack" ELSE "emit"]
      /\ loaded' = [loaded EXCEPT ![q] =
            IF pc[q] = "save" THEN CHOOSE v \in Execute(op[q], q, loaded[q]) : TRUE ELSE NoRow]
  BY <1>1 DEF Save, Put, GoTo
<1>3. CASE pc[q] = "saveParent"
  <2>1. pc'[q] = "saveMessage"
    BY <1>0, <1>2, <1>3 DEF HandlerTypes
  <2> QED BY <1>1, <1>2, <1>3, <2>1 DEF Saves
<1>4. CASE pc[q] = "saveMessage"
  <2>1. pc'[q] = "readBack" /\ op[q].kind = "send"
    BY <1>0, <1>2, <1>4 DEF HandlerTypes, Staged, StageOf
  <2> QED BY <1>1, <1>2, <1>4, <2>1 DEF Saves
<1>5. CASE pc[q] = "save"
  <2>1. pc'[q] = (IF op[q].kind = "react" THEN "readBack" ELSE "emit") /\ op[q].kind # "send"
    BY <1>0, <1>1, <1>2, <1>5 DEF HandlerTypes, Kind
  <2>2. loaded'[q] = CHOOSE v \in Execute(op[q], q, loaded[q]) : TRUE
    BY <1>0, <1>2, <1>5 DEF HandlerTypes
  <2>3. (CHOOSE v \in {w} : TRUE) = w
    OBVIOUS
  <2>4. Execute(op[q], q, loaded[q]) = {w}
    BY <1>1, <1>5
  <2>5. loaded'[q] = w
    BY <2>2, <2>3, <2>4
  <2> QED BY <1>1, <1>2, <1>5, <2>1, <2>4, <2>5 DEF Saves
<1> QED BY <1>1, <1>3, <1>4, <1>5

\* What a handler's step is to b.
LEMMA HandlerMoves ==
    ASSUME Core, NEW b \in Browser, HandlerStep
    PROVE  \E q \in Request : Acting(b, q)
<1>0. Typed /\ Staged /\ HandlerTypes /\ SocketTypes /\ HistoryTypes
  BY TypesAre DEF Core
<1>1. PICK q \in Request : \/ SendMessage(q) \/ FindParent(q) \/ Find(q) \/ Save(q) \/ ReadBack(q)
                           \/ Emit(q) \/ Throws(q)
  BY DEF HandlerStep
<1>2. ListStays(b)
  BY <1>1 DEF SendMessage, FindParent, Find, Save, ReadBack, Emit, Throws, list, fetching, ListStays
<1>3. \A r \in Request \ {q} : RequestStays(r)
  BY <1>0, <1>1 DEF SendMessage, FindParent, FindById, Find, Save, ReadBack, Emit, Throws, End, GoTo,
                    HandlerTypes, RequestStays
<1>4. q \in InFlight /\ op[q] \in Command
  <2>1. q \in InFlight
    BY <1>1 DEF SendMessage, FindParent, Find, Save, Commit, ReadBack, Emit, Throws, InFlight
  <2> QED BY <1>0, <2>1 DEF Staged, StageOf
<1>5. CASE SendMessage(q)
  <2>1. pc[q] = "channel" /\ table' = table /\ doubt' = doubt
    BY <1>5 DEF SendMessage, store
  <2>2. CASE /\ GoTo(q, IF op[q].to = {} THEN "saveMessage" ELSE "findParent")
             /\ UNCHANGED <<op, loaded, inbox, unanswered>>
    <3>1. pc'[q] = (IF op[q].to = {} THEN "saveMessage" ELSE "findParent")
      BY <1>0, <2>2 DEF GoTo, HandlerTypes
    <3>2. Goes(b, q)
      BY <2>1, <2>2, <3>1 DEF Goes
    <3> QED BY <1>2, <1>3, <1>4, <3>2 DEF Acting
  <2>3. CASE End(q)
    <3>1. pc'[q] = "done"
      BY <1>0, <2>3 DEF End, HandlerTypes
    <3>2. inbox'[b] = inbox[b] \/ inbox'[b] = Append(inbox[b], Answer("error", op[q], q))
      <4>1. inbox' = inbox \/ inbox' = [inbox EXCEPT ![op[q].by] = Append(inbox[op[q].by], Answer("error", op[q], q))]
        BY <1>5, Refused
      <4>2. inbox \in [Browser -> Seq(Event)] /\ op[q].by \in Browser
        BY <1>0, <1>4 DEF SocketTypes, Command
      <4> QED BY <4>1, <4>2
    <3>3. Quits(b, q)
      BY <2>1, <3>1, <3>2 DEF Quits
    <3> QED BY <1>2, <1>3, <1>4, <3>3 DEF Acting
  <2> QED BY <1>5, <2>2, <2>3 DEF SendMessage
<1>6. CASE FindParent(q)
  <2>1. PICK m \in op[q].to : loaded' = [loaded EXCEPT ![q] = table[m]]
    BY <1>6 DEF FindParent, FindById
  <2>2. pc'[q] = "saveParent" /\ loaded'[q] = table[m]
    BY <1>0, <1>6, <2>1 DEF FindParent, GoTo, HandlerTypes
  <2>3. Goes(b, q)
    BY <1>6, <2>2 DEF FindParent, Goes, store
  <2> QED BY <1>2, <1>3, <1>4, <2>3 DEF Acting
<1>7. CASE Find(q)
  <2>1. pc[q] = "find" /\ table' = table /\ doubt' = doubt /\ inbox' = inbox
    BY <1>7 DEF Find, store
  <2>2. CASE Execute(op[q], q, table[op[q].on]) = {}
    <3>1. pc'[q] = "done"
      BY <1>0, <1>7, <2>2 DEF Find, End, HandlerTypes
    <3>2. Quits(b, q)
      BY <2>1, <2>2, <3>1 DEF Quits
    <3> QED BY <1>2, <1>3, <1>4, <3>2 DEF Acting
  <2>3. CASE Execute(op[q], q, table[op[q].on]) # {}
    <3>1. op' = op /\ pc' = [pc EXCEPT ![q] = "save"] /\ loaded' = [loaded EXCEPT ![q] = table[op[q].on]]
      BY <1>7, <2>3 DEF Find, FindById, GoTo
    <3>2. pc'[q] = "save" /\ loaded'[q] = table[op[q].on]
      BY <1>0, <3>1 DEF HandlerTypes
    <3>3. Goes(b, q)
      BY <2>1, <2>3, <3>1, <3>2 DEF Goes
    <3> QED BY <1>2, <1>3, <1>4, <3>3 DEF Acting
  <2> QED BY <2>2, <2>3
<1>8. CASE Save(q)
  BY <1>2, <1>3, <1>4, <1>8, SavedIs DEF Acting
<1>9. CASE ReadBack(q)
  <2>1. pc'[q] = "emit" /\ loaded'[q] = table[op[q].on]
    BY <1>0, <1>9 DEF ReadBack, FindById, GoTo, HandlerTypes
  <2>2. Goes(b, q)
    BY <1>9, <2>1 DEF ReadBack, Goes, store
  <2> QED BY <1>2, <1>3, <1>4, <2>2 DEF Acting
<1>10. CASE Emit(q)
  BY <1>2, <1>3, <1>4, <1>10, SentIs DEF Acting
<1>11. CASE Throws(q)
  <2>1. /\ inbox'[b] = inbox[b] /\ doubt'[b] = doubt[b] \cup On(op[q]) /\ pc'[q] = "done"
    BY <1>0, <1>11 DEF Throws, End, HandlerTypes
  <2>2. \A m \in Message \ On(op[q]) : table'[m] = table[m]
    <3>1. CASE Commit(q)
      <4>1. PICK m \in Message, w \in Row : m \in On(op[q]) /\ \E from : Put(m, w, from)
        BY <1>0, <3>1, Committed
      <4> QED BY <1>0, <4>1, PutRow DEF Typed
    <3> QED BY <1>11, <3>1 DEF Throws
  <2>3. Dies(b, q)
    BY <2>1, <2>2 DEF Dies
  <2> QED BY <1>2, <1>3, <1>4, <2>3 DEF Acting
<1> QED BY <1>1, <1>5, <1>6, <1>7, <1>8, <1>9, <1>10, <1>11

\* Every step moves the lists, or begins a call or is a handler's; what is done
\* stays done, and no row goes away.
LEMMA ViewMoves ==
    ASSUME Core, NEW b \in Browser, [Next]_vars
    PROVE  \/ ListMoves(b)
           \/ \E a \in Browser, q \in Request, c \in Command : Begins(b, a, q, c)
           \/ \E q \in Request : Acting(b, q)
BY Steps, BrowserMoves, CallMoves, WaitMoves, HandlerMoves DEF Core, Typed

\* What holds before and after each step.
LEMMA Basis ==
    ASSUME CountInv, [Next]_vars
    PROVE  /\ Core /\ Core' /\ Fresh /\ Staged /\ Staged' /\ Present /\ Present'
           /\ thread' = thread /\ thread \in [Browser -> {{}} \cup {{m} : m \in Existing}]
           /\ table \in [Message -> Row \cup {NoRow}] /\ table' \in [Message -> Row \cup {NoRow}]
           /\ \A m \in Message : table[m] # NoRow =>
                 table'[m] # NoRow /\ table'[m].parent = table[m].parent
           /\ \A q \in Request : pc[q] = "done" => pc'[q] = "done"
<1>1. /\ Core /\ Fresh /\ RepliesInv /\ CopiesInv /\ Core' /\ thread' = thread /\ HandlerTypes
  BY CoreStep, Steps, TypesAre DEF CountInv, Core, Typed
<1>2. \A m \in Message : table[m] # NoRow =>
                 table'[m] # NoRow /\ table'[m].parent = table[m].parent
  BY <1>1, RowsStay, WrittenCounts DEF Core
<1>3. \A q \in Request : pc[q] = "done" => pc'[q] = "done"
  <2>1. ASSUME NEW q \in Request, NEW r \in Request, pc[r] # "done", pc' = [pc EXCEPT ![r] = pc'[r]],
               pc[q] = "done"
        PROVE  pc'[q] = "done"
    BY <1>1, <2>1 DEF HandlerTypes
  <2> QED BY <1>1, <2>1, Flights DEF InFlight, WaitMove
<1> QED BY <1>1, <1>2, <1>3 DEF Core, Typed, TypeOK

\* A request in flight has a browser.
LEMMA Owner ==
    ASSUME Core, NEW q \in InFlight
    PROVE  /\ q \in Request /\ op[q] \in Command /\ op[q].by \in Browser /\ op[q].on \in Message
           /\ op[q].to \subseteq Existing /\ op[q].kind \in {"send"} \cup Kind
           /\ op[q].kind # "send" => op[q].to = {}
           /\ On(op[q]) \subseteq Message
BY OnMessages DEF Core, Staged, StageOf, InFlight, Command

\* The command of a request in flight is a browser's.
LEMMA Owners == Core => \A q \in InFlight : q \in Request /\ op[q].by \in Browser
BY Owner

\* No reply is replied to.
LEMMA Unreplied == CountInv => \A m \in Message \ Existing : table[m] # NoRow => table[m].replies = 0
<1> SUFFICES ASSUME CountInv, NEW m \in Message \ Existing, table[m] # NoRow PROVE table[m].replies = 0
  OBVIOUS
<1>0. RepliesInv /\ Core /\ Staged /\ table \in [Message -> Row \cup {NoRow}]
  BY TypesAre DEF CountInv, Core
<1>1. table[m].replies <= Total(m)
  BY Counts DEF CountInv
<1>2. Replies(m) = {}
  BY <1>0 DEF Replies, RepliesInv
<1>3. Ahead(m) = {}
  BY <1>0 DEF Ahead, Waiting, RepliesInv, Staged, StageOf, InFlight
<1>4. Total(m) = 0
  BY <1>2, <1>3, FS_EmptySet DEF Total
<1>5. table[m].replies \in Nat
  BY <1>0 DEF Row
<1> QED BY <1>1, <1>4, <1>5

\* A new message keeps its place: only its own request saves it.
LEMMA SendStep ==
    ASSUME CountInv, CountInv', SendInv, [Next]_vars
    PROVE  SendInv'
<1>0. /\ Core /\ Core' /\ Fresh /\ Staged /\ Staged' /\ Present /\ thread' = thread
      /\ table \in [Message -> Row \cup {NoRow}] /\ table' \in [Message -> Row \cup {NoRow}]
      /\ \A m \in Message : table[m] # NoRow =>
                 table'[m] # NoRow /\ table'[m].parent = table[m].parent
  BY Basis
<1>1. \A m \in Existing : table'[m].parent = {}
  BY <1>0 DEF Present, SendInv
<1>2. /\ (\A m \in Message \ Existing : table[m] # NoRow => table[m].replies = 0)'
      /\ (\A q \in InFlight : q \in Request /\ op[q].by \in Browser)'
  BY <1>0, Owners, Unreplied, PTL
<1>3. ASSUME NEW q \in InFlight', op'[q].kind = "send"
      PROVE  /\ op'[q].to = thread[op'[q].by] /\ op'[q].on \notin Existing
             /\ pc'[q] \in {"readBack", "emit"} => table'[op'[q].on].parent = op'[q].to
             /\ pc'[q] = "emit" => loaded'[q].parent = op'[q].to
             /\ \A r \in InFlight' : r # q /\ op'[r].kind = "send" => op'[r].on # op'[q].on
  <2> DEFINE b == op'[q].by
  <2>0. q \in Request /\ b \in Browser
    BY <1>2
  <2> HIDE DEF b
  <2>1. ASSUME q \in InFlight, RequestStays(q)
        PROVE  /\ op'[q].to = thread[op'[q].by] /\ op'[q].on \notin Existing
               /\ pc'[q] \in {"readBack", "emit"} => table'[op'[q].on].parent = op'[q].to
               /\ pc'[q] = "emit" => loaded'[q].parent = op'[q].to
    <3>1. pc'[q] = pc[q] /\ op'[q] = op[q] /\ loaded'[q] = loaded[q]
      BY <2>1 DEF RequestStays
    <3>2. op[q].on \in Message
      BY <1>0, <2>1, Owner
    <3>3. pc[q] \in {"readBack", "emit"} => table[op[q].on] # NoRow
      BY <1>0, <2>0 DEF Present, AtWork
    <3> QED BY <1>0, <1>3, <2>1, <3>1, <3>2, <3>3 DEF SendInv
  <2>2. \A r \in Request : RequestStays(r) /\ r \in InFlight' => r \in InFlight /\ op'[r] = op[r]
    BY DEF RequestStays, InFlight
  <2>3. CASE ListMoves(b)
    BY <1>3, <2>0, <2>1, <2>2, <2>3 DEF ListMoves, SendInv, InFlight
  <2>4. ASSUME NEW a \in Browser, NEW p \in Request, NEW c \in Command, Begins(b, a, p, c)
        PROVE  /\ op'[q].to = thread[op'[q].by] /\ op'[q].on \notin Existing
               /\ pc'[q] \in {"readBack", "emit"} => table'[op'[q].on].parent = op'[q].to
               /\ pc'[q] = "emit" => loaded'[q].parent = op'[q].to
               /\ \A r \in InFlight' : r # q /\ op'[r].kind = "send" => op'[r].on # op'[q].on
    <3>0. /\ op'[p] = c /\ c.by = a /\ pc'[p] \notin {"readBack", "emit"}
          /\ \A r \in Request \ {p} : RequestStays(r)
      BY <2>4 DEF Begins
    <3>1. c.kind = "send" => c.to = thread[a] /\ c.on \notin Existing /\ ~ActiveOn(c.on)
      BY <1>0, <2>4 DEF Begins, Sends, Present, Kind, Acts
    <3>2. \A r \in InFlight : c.kind = "send" => op[r].on # c.on
      BY <3>1 DEF ActiveOn, On
    <3>3. \A r \in InFlight' : r \in Request
      BY DEF InFlight
    <3>4. CASE q = p
      BY <1>3, <2>2, <3>0, <3>1, <3>2, <3>3, <3>4
    <3>5. CASE q # p
      <4>1. q \in InFlight /\ op'[q] = op[q]
        BY <1>3, <2>0, <2>2, <3>0, <3>5
      <4>2. \A r \in InFlight' : r # q /\ op'[r].kind = "send" => op'[r].on # op'[q].on
        BY <1>3, <2>2, <3>0, <3>2, <3>3, <4>1 DEF SendInv
      <4> QED BY <2>0, <2>1, <3>0, <3>5, <4>1, <4>2
    <3> QED BY <3>4, <3>5
  <2>5. ASSUME NEW p \in Request, Acting(b, p)
        PROVE  /\ op'[q].to = thread[op'[q].by] /\ op'[q].on \notin Existing
               /\ pc'[q] \in {"readBack", "emit"} => table'[op'[q].on].parent = op'[q].to
               /\ pc'[q] = "emit" => loaded'[q].parent = op'[q].to
               /\ \A r \in InFlight' : r # q /\ op'[r].kind = "send" => op'[r].on # op'[q].on
    <3>1. p \in InFlight /\ \A r \in Request \ {p} : RequestStays(r)
      BY <2>5 DEF Acting
    <3>2. p \in InFlight' => op'[p] = op[p]
      BY <2>5 DEF Acting, Goes, Quits, Tells, Dies, Saves, InFlight
    <3>3. \A r \in InFlight' : r \in InFlight /\ op'[r] = op[r]
      BY <2>2, <3>1, <3>2 DEF InFlight
    <3>4. \A r \in InFlight' : r # q /\ op'[r].kind = "send" => op'[r].on # op'[q].on
      BY <1>3, <3>3 DEF SendInv
    <3>5. CASE q # p
      BY <2>0, <2>1, <3>1, <3>3, <3>4, <3>5, <1>3
    <3>6. CASE q = p
      <4>1. op'[q] = op[q] /\ op[q].kind = "send" /\ op[q].to = thread[op[q].by] /\ op[q].on \notin Existing
        BY <1>3, <3>3 DEF SendInv
      <4>2. CASE Goes(b, q)
        <5>1. pc'[q] \in {"readBack", "emit"} =>
                pc[q] = "readBack" /\ pc'[q] = "emit" /\ loaded'[q] = table[op[q].on] /\ table' = table
          BY <4>2 DEF Goes
        <5>2. pc[q] = "readBack" => table[op[q].on].parent = op[q].to
          BY <3>3, <3>6, <3>1, <4>1 DEF SendInv
        <5> QED BY <3>4, <4>1, <5>1, <5>2
      <4>3. ASSUME NEW m \in Message, NEW w \in Row, Saves(b, q, m, w)
            PROVE  pc'[q] \in {"readBack", "emit"} => /\ table'[op'[q].on].parent = op'[q].to
                                                      /\ pc'[q] # "emit"
        <5>1. table'[m] = w
          BY <1>0, <4>3 DEF Saves
        <5>2. pc[q] # "save"
          BY <1>0, <2>0, <4>1 DEF Staged, StageOf, Kind
        <5> QED BY <4>1, <4>3, <5>1, <5>2 DEF Saves, Created
      <4>4. Goes(b, q) \/ \E m \in Message, w \in Row : Saves(b, q, m, w)
        BY <1>3, <2>5, <3>6 DEF Acting, Quits, Tells, Dies, InFlight
      <4> QED BY <3>4, <4>1, <4>2, <4>3, <4>4
    <3> QED BY <3>5, <3>6
  <2> QED BY <1>0, <2>0, <2>3, <2>4, <2>5, ViewMoves
<1> QED BY <1>0, <1>1, <1>2, <1>3 DEF SendInv

\* Only the start of a call brings a command.
LEMMA NoNewFlights ==
    ASSUME NEW b \in Browser, ListMoves(b) \/ \E q \in Request : Acting(b, q)
    PROVE  \A r \in InFlight' : r \in InFlight /\ op'[r] = op[r]
<1>1. \A r \in Request : RequestStays(r) /\ r \in InFlight' => r \in InFlight /\ op'[r] = op[r]
  BY DEF RequestStays, InFlight
<1>2. \A r \in InFlight' : r \in Request
  BY DEF InFlight
<1>3. CASE ListMoves(b)
  BY <1>1, <1>2, <1>3 DEF ListMoves
<1>4. ASSUME NEW q \in Request, Acting(b, q) PROVE \A r \in InFlight' : r \in InFlight /\ op'[r] = op[r]
  <2>1. q \in InFlight /\ \A r \in Request \ {q} : RequestStays(r)
    BY <1>4 DEF Acting
  <2>2. q \in InFlight' => op'[q] = op[q]
    BY <1>4 DEF Acting, Goes, Quits, Tells, Dies, Saves, InFlight
  <2> QED BY <1>1, <1>2, <2>1, <2>2
<1> QED BY <1>3, <1>4

\* A call meets those that it finds in flight.
LEMMA NewFlight ==
    ASSUME NEW b \in Browser, NEW a, NEW q \in Request, NEW c, Begins(b, a, q, c)
    PROVE  /\ q \notin InFlight /\ q \in InFlight' /\ op'[q] = c
           /\ \A r \in InFlight' : r # q => r \in InFlight /\ op'[r] = op[r] /\ pc'[r] = pc[r] /\ loaded'[r] = loaded[r]
BY DEF Begins, RequestStays, InFlight

\* Every step keeps to one request at a time on a message that is not in doubt.
LEMMA OverlapStep ==
    ASSUME CountInv, OverlapInv, [Next]_vars
    PROVE  OverlapInv'
<1>0. Core
  BY DEF CountInv
<1> SUFFICES ASSUME NEW b \in Browser, NEW m \in Message
             PROVE  /\ m \notin doubt'[b] => \A q, r \in InFlight' : m \in On(op'[q]) /\ m \in On(op'[r]) => q = r
                    /\ fetch'[b] # {} /\ ActiveOn(m)' => m \in hazy'[b]
  BY DEF OverlapInv, On, ActiveOn
<1>00. /\ m \notin doubt[b] => \A q, r \in InFlight : m \in On(op[q]) /\ m \in On(op[r]) => q = r
       /\ fetch[b] # {} /\ ActiveOn(m) => m \in hazy[b]
  BY DEF OverlapInv
<1>1. ASSUME \A r \in InFlight' : r \in InFlight /\ op'[r] = op[r] PROVE ActiveOn(m)' => ActiveOn(m)
  BY <1>1 DEF ActiveOn, On
<1>2. CASE ListMoves(b)
  <2>1. \A r \in InFlight' : r \in InFlight /\ op'[r] = op[r]
    BY <1>2, NoNewFlights
  <2>2. CASE doubt[b] \subseteq doubt'[b] /\ fetch'[b] = fetch[b] /\ hazy'[b] = hazy[b]
    BY <1>00, <1>1, <2>1, <2>2
  <2>3. CASE Reads(b)
    <3>1. doubt'[b] = doubt[b] /\ (ActiveOn(m) => m \in hazy'[b])
      BY <2>3 DEF Reads
    <3> QED BY <1>00, <1>1, <2>1, <3>1
  <2>4. ASSUME NEW l, Replaces(b, l)
        PROVE  /\ m \notin doubt'[b] => \A q, r \in InFlight' : m \in On(op'[q]) /\ m \in On(op'[r]) => q = r
               /\ fetch'[b] = {}
    <3>1. m \notin doubt'[b] => ~ActiveOn(m)
      BY <1>00, <2>4 DEF Replaces
    <3>2. m \notin doubt'[b] => \A q \in InFlight' : m \notin On(op'[q])
      BY <1>1, <2>1, <3>1 DEF ActiveOn
    <3> QED BY <2>4, <3>2 DEF Replaces
  <2> QED BY <1>2, <2>2, <2>3, <2>4 DEF ListMoves, ListStays, Loses, Takes, Snubs
<1>3. ASSUME NEW a \in Browser, NEW q \in Request, NEW c \in Command, Begins(b, a, q, c)
      PROVE  /\ m \notin doubt'[b] => \A p, r \in InFlight' : m \in On(op'[p]) /\ m \in On(op'[r]) => p = r
             /\ fetch'[b] # {} /\ ActiveOn(m)' => m \in hazy'[b]
  <2>1. /\ doubt[b] \cup {n \in On(c) : ActiveOn(n)} \subseteq doubt'[b] /\ fetch'[b] = fetch[b]
        /\ fetch[b] # {} => hazy'[b] = hazy[b] \cup On(c)
    BY <1>3 DEF Begins
  <2>2. /\ q \notin InFlight /\ q \in InFlight' /\ op'[q] = c
        /\ \A r \in InFlight' : r # q => r \in InFlight /\ op'[r] = op[r]
    BY <1>3, NewFlight
  <2>3. m \in On(c) /\ m \notin doubt'[b] => \A r \in InFlight : m \notin On(op[r])
    BY <2>1 DEF ActiveOn
  <2>4. ActiveOn(m)' => ActiveOn(m) \/ m \in On(c)
    BY <2>2 DEF ActiveOn, On
  <2>5. m \notin doubt'[b] => \A p, r \in InFlight' : m \in On(op'[p]) /\ m \in On(op'[r]) => p = r
    BY <1>00, <2>1, <2>2, <2>3
  <2> QED BY <1>00, <2>1, <2>4, <2>5
<1>4. ASSUME NEW q \in Request, Acting(b, q)
      PROVE  /\ m \notin doubt'[b] => \A p, r \in InFlight' : m \in On(op'[p]) /\ m \in On(op'[r]) => p = r
             /\ fetch'[b] # {} /\ ActiveOn(m)' => m \in hazy'[b]
  <2>1. \A r \in InFlight' : r \in InFlight /\ op'[r] = op[r]
    BY <1>4, NoNewFlights
  <2>2. doubt[b] \subseteq doubt'[b] /\ fetch'[b] = fetch[b] /\ hazy'[b] = hazy[b]
    BY <1>4 DEF Acting, ListStays, Goes, Quits, Tells, Dies, Saves
  <2> QED BY <1>00, <1>1, <2>1, <2>2
<1> QED BY <1>0, <1>2, <1>3, <1>4, ViewMoves

\* Request q adds event x to what is on its way to b, and is done.
Adds(b, q, x) ==
    /\ q \in InFlight /\ x \in Event /\ x.c = op[q] /\ Acting(b, q)
    /\ inbox'[b] = Append(inbox[b], x) /\ pc'[q] = "done" /\ table' = table
    /\ \/ /\ pc[q] = "channel" /\ x.type = "error" /\ x.row.content = {q} /\ op[q].kind = "send"
          /\ doubt'[b] = doubt[b]
       \/ /\ pc[q] = "emit" /\ x = Told(op[q], q, loaded[q])
          /\ x.type \notin {"success", "error"} /\ (x.type = "received" <=> op[q].kind = "send")
          /\ \/ doubt'[b] = doubt[b] \cup On(op[q])
             \/ doubt'[b] = doubt[b] /\ (b = op[q].by \/ ~IsDeafTo(b, x.type))
       \/ /\ pc[q] = "emit" /\ x.type = "success" /\ x.row.content = {q} /\ op[q].kind = "send"
          /\ b = op[q].by /\ doubt'[b] = doubt[b]

\* Events join what is on its way at the end, by the step of their request.
LEMMA InboxMoves ==
    ASSUME Core, NEW b \in Browser, [Next]_vars
    PROVE  /\ inbox[b] \in Seq(Event) /\ InTransit(b) \subseteq Event
           /\ \/ inbox'[b] = inbox[b] \/ inbox'[b] = <<>>
              \/ inbox[b] # <<>> /\ inbox'[b] = Tail(inbox[b])
              \/ \E q \in InFlight, x \in Event : Adds(b, q, x)
           /\ \/ InTransit(b)' \subseteq InTransit(b)
              \/ \E q \in InFlight, x \in Event :
                    Adds(b, q, x) /\ InTransit(b)' = InTransit(b) \cup {x}
<1>0. inbox[b] \in Seq(Event) /\ Staged
  BY DEF Core, Typed
<1>1. InTransit(b) = Items(inbox[b]) /\ InTransit(b)' = Items(inbox'[b])
  BY DEF InTransit, Items
<1>2. ASSUME NEW q \in Request, Acting(b, q), inbox'[b] # inbox[b]
      PROVE  \E x \in Event : Adds(b, q, x)
  <2>0. q \in InFlight /\ op[q] \in Command /\ StageOf(q)
    BY <1>0, <1>2 DEF Acting, Staged
  <2>1. Quits(b, q) \/ Tells(b, q)
    BY <1>2 DEF Acting, Goes, Dies, Saves
  <2>2. CASE Quits(b, q)
    <3>1. /\ Answer("error", op[q], q) \in Event /\ Answer("error", op[q], q).c = op[q]
          /\ Answer("error", op[q], q).type = "error" /\ Answer("error", op[q], q).row.content = {q}
      BY <2>0, AnswerIsEvent
    <3>2. /\ pc[q] = "channel" /\ inbox'[b] = Append(inbox[b], Answer("error", op[q], q))
          /\ pc'[q] = "done" /\ table' = table /\ doubt'[b] = doubt[b]
      BY <1>2, <2>2 DEF Quits
    <3>3. op[q].kind = "send"
      BY <2>0, <3>2 DEF StageOf
    <3> QED BY <1>2, <2>0, <3>1, <3>2, <3>3 DEF Adds
  <2>3. CASE Tells(b, q)
    <3>1. /\ Answer("success", op[q], q) \in Event /\ Answer("success", op[q], q).c = op[q]
          /\ Answer("success", op[q], q).type = "success" /\ Answer("success", op[q], q).row.content = {q}
      BY <2>0, AnswerIsEvent
    <3>2. pc[q] = "emit" /\ pc'[q] = "done" /\ table' = table
      BY <2>3 DEF Tells
    <3>3. op[q].kind \in {"send", "react", "unreact"} => loaded[q] \in Row
      BY <2>0, <3>2 DEF StageOf
    <3> DEFINE x == Told(op[q], q, loaded[q])
    <3>4. /\ x \in Event /\ x.c = op[q] /\ (x.type = "received" <=> op[q].kind = "send")
          /\ x.type \notin {"success", "error"}
      BY <2>0, <3>3, ToldIsEvent
    <3>5. CASE /\ inbox'[b] = Append(inbox[b], x)
               /\ \/ doubt'[b] = doubt[b] \cup On(op[q])
                  \/ doubt'[b] = doubt[b] /\ (b = op[q].by \/ ~IsDeafTo(b, x.type))
      <4>1. Adds(b, q, x)
        BY <1>2, <2>0, <3>2, <3>4, <3>5 DEF Adds
      <4> QED BY <3>4, <4>1
    <3>6. CASE /\ inbox'[b] = Append(inbox[b], Answer("success", op[q], q)) /\ doubt'[b] = doubt[b]
               /\ op[q].kind = "send" /\ b = op[q].by
      BY <1>2, <2>0, <3>1, <3>2, <3>6 DEF Adds
    <3> QED BY <1>2, <2>3, <3>5, <3>6 DEF Tells
  <2> QED BY <2>1, <2>2, <2>3
<1>3. \/ inbox'[b] = inbox[b] \/ inbox'[b] = <<>>
      \/ inbox[b] # <<>> /\ inbox'[b] = Tail(inbox[b])
      \/ \E q \in InFlight, x \in Event : Adds(b, q, x)
  <2>1. ListMoves(b) => \/ inbox'[b] = inbox[b] \/ inbox'[b] = <<>>
                        \/ inbox[b] # <<>> /\ inbox'[b] = Tail(inbox[b])
    BY DEF ListMoves, Loses, Reads, Takes, Replaces, Snubs
  <2>2. ASSUME NEW a, NEW q, NEW c, Begins(b, a, q, c) PROVE inbox'[b] = inbox[b]
    BY <2>2 DEF Begins
  <2>3. \A q \in Request : \A x : Adds(b, q, x) => q \in InFlight
    BY DEF Adds
  <2> QED BY <1>2, <2>1, <2>2, <2>3, ViewMoves
<1>4. \/ InTransit(b)' \subseteq InTransit(b)
      \/ \E q \in InFlight, x \in Event :
            Adds(b, q, x) /\ InTransit(b)' = InTransit(b) \cup {x}
  <2>1. \A x \in Event : Items(Append(inbox[b], x)) = Items(inbox[b]) \cup {x}
    BY <1>0, ItemsOf
  <2>2. Items(<<>>) = {}
    BY DEF Items
  <2>3. inbox[b] # <<>> => Items(Tail(inbox[b])) \subseteq Items(inbox[b])
    BY <1>0, ItemsOf
  <2>4. \A q \in InFlight, x \in Event : Adds(b, q, x) => InTransit(b)' = InTransit(b) \cup {x}
    BY <1>1, <2>1 DEF Adds
  <2> QED BY <1>1, <1>3, <2>2, <2>3, <2>4
<1>5. InTransit(b) \subseteq Event
  BY <1>0, <1>1, ItemsOf
<1> QED BY <1>0, <1>3, <1>4, <1>5

\* What is on its way stays what its message and its request are, and no new
\* message takes the place of one that was told.
LEMMA MatchStep ==
    ASSUME CountInv, SendInv, MatchInv, [Next]_vars
    PROVE  MatchInv'
<1>0. /\ Core /\ Core' /\ Staged /\ Present
      /\ table \in [Message -> Row \cup {NoRow}]
      /\ \A m \in Message : table[m] # NoRow =>
                 table'[m] # NoRow /\ table'[m].parent = table[m].parent
      /\ \A q \in Request : pc[q] = "done" => pc'[q] = "done"
  BY Basis
<1> SUFFICES ASSUME NEW b \in Browser, NEW e \in InTransit(b)'
             PROVE  /\ e.c.to \subseteq Existing
                    /\ e.c.kind = "send" <=> e.type \in {"received", "success", "error"}
                    /\ e.c.kind = "send" => e.c.on \notin Existing
                    /\ e.c.kind # "send" => e.c.to = {} /\ table'[e.c.on] # NoRow
                    /\ e.type \in {"received", "success"} =>
                            /\ table'[e.c.on].parent = e.c.to
                            /\ \A q \in InFlight' : op'[q].kind = "send" => op'[q].on # e.c.on
                    /\ e.type = "received" => e.row.parent = e.c.to
                    /\ e.type \in {"success", "error"} => \A q \in e.row.content : pc'[q] = "done"
  BY DEF MatchInv
<1>1. CASE e \in InTransit(b)
  <2>0. e \in Event /\ e.c.on \in Message
    BY <1>0, <1>1, InboxMoves, EventFields
  <2>1. /\ e.c.to \subseteq Existing
        /\ e.c.kind = "send" <=> e.type \in {"received", "success", "error"}
        /\ e.c.kind = "send" => e.c.on \notin Existing
        /\ e.c.kind # "send" => e.c.to = {} /\ table[e.c.on] # NoRow
        /\ e.type \in {"received", "success"} =>
                /\ table[e.c.on].parent = e.c.to
                /\ \A q \in InFlight : op[q].kind = "send" => op[q].on # e.c.on
        /\ e.type = "received" => e.row.parent = e.c.to
        /\ e.type \in {"success", "error"} => \A q \in e.row.content : pc[q] = "done"
    BY <1>1 DEF MatchInv
  <2>2. e.type \in {"received", "success"} => table[e.c.on] # NoRow
    BY <1>0, <1>1 DEF Present
  <2>3. e.type \in {"success", "error"} => \A q \in e.row.content : q \in Request
    BY <2>0, EventFields
  <2>4. ASSUME e.type \in {"received", "success"}, NEW q \in InFlight', op'[q].kind = "send"
        PROVE  op'[q].on # e.c.on
    <3>1. CASE ListMoves(b) \/ \E r \in Request : Acting(b, r)
      BY <2>1, <2>4, <3>1, NoNewFlights
    <3>2. ASSUME NEW a, NEW r \in Request, NEW c, Begins(b, a, r, c) PROVE op'[q].on # e.c.on
      <4>1. CASE r = q
        <5>1. op'[q] = c
          BY <3>2, <4>1, NewFlight
        <5>2. table[c.on] = NoRow
          BY <2>4, <3>2, <5>1 DEF Begins, Sends, Kind
        <5> QED BY <2>2, <2>4, <5>1, <5>2
      <4>2. CASE r # q
        BY <2>1, <2>4, <3>2, <4>2, NewFlight
      <4> QED BY <4>1, <4>2
    <3> QED BY <1>0, <3>1, <3>2, ViewMoves
  <2> QED BY <1>0, <2>0, <2>1, <2>2, <2>3, <2>4
<1>2. ASSUME NEW q \in InFlight, NEW x \in Event, Adds(b, q, x), e = x
      PROVE  /\ e.c.to \subseteq Existing
             /\ e.c.kind = "send" <=> e.type \in {"received", "success", "error"}
             /\ e.c.kind = "send" => e.c.on \notin Existing
             /\ e.c.kind # "send" => e.c.to = {} /\ table'[e.c.on] # NoRow
             /\ e.type \in {"received", "success"} =>
                     /\ table'[e.c.on].parent = e.c.to
                     /\ \A r \in InFlight' : op'[r].kind = "send" => op'[r].on # e.c.on
             /\ e.type = "received" => e.row.parent = e.c.to
             /\ e.type \in {"success", "error"} => \A r \in e.row.content : pc'[r] = "done"
  <2>0. q \in Request /\ e.c = op[q] /\ table' = table /\ pc'[q] = "done" /\ q \notin InFlight'
    BY <1>2 DEF Adds, InFlight
  <2>1. op[q].to \subseteq Existing /\ (op[q].kind # "send" => op[q].to = {})
    BY <1>0, Owner
  <2>2. e.c.kind = "send" <=> e.type \in {"received", "success", "error"}
    BY <1>2, <2>0 DEF Adds
  <2>3. op[q].kind # "send" => table[op[q].on] # NoRow
    BY <1>0, <1>2, <2>0 DEF Adds, Present, AtWork
  <2>4. e.type \in {"received", "success"} => pc[q] = "emit" /\ op[q].kind = "send"
    BY <1>2 DEF Adds
  <2>5. op[q].kind = "send" => /\ op[q].on \notin Existing
                               /\ pc[q] = "emit" => table[op[q].on].parent = op[q].to /\ loaded[q].parent = op[q].to
                               /\ \A r \in InFlight : r # q /\ op[r].kind = "send" => op[r].on # op[q].on
    BY DEF SendInv
  <2>6. \A r \in InFlight' : r \in InFlight /\ op'[r] = op[r] /\ r # q
    <3>1. \A r \in InFlight' : r \in InFlight /\ op'[r] = op[r]
      BY <1>2, <2>0, NoNewFlights DEF Adds
    <3> QED BY <2>0, <3>1
  <2>7. e.type = "received" => e.row = loaded[q]
    BY <1>2, <2>4 DEF Adds, Told
  <2>8. e.type \in {"success", "error"} => e.row.content = {q}
    BY <1>2 DEF Adds
  <2>9. e.c.to \subseteq Existing /\ (e.c.kind = "send" => e.c.on \notin Existing)
    BY <2>0, <2>1, <2>5
  <2>10. e.c.kind # "send" => e.c.to = {} /\ table'[e.c.on] # NoRow
    BY <2>0, <2>1, <2>3
  <2>11. e.type \in {"received", "success"} =>
                     /\ table'[e.c.on].parent = e.c.to
                     /\ \A r \in InFlight' : op'[r].kind = "send" => op'[r].on # e.c.on
    BY <2>0, <2>4, <2>5, <2>6
  <2>12. e.type = "received" => e.row.parent = e.c.to
    BY <2>0, <2>4, <2>5, <2>7
  <2>13. e.type \in {"success", "error"} => \A r \in e.row.content : pc'[r] = "done"
    BY <2>0, <2>8
  <2> QED BY <2>2, <2>9, <2>10, <2>11, <2>12, <2>13
<1>3. e \in InTransit(b) \/ \E q \in InFlight, x \in Event : Adds(b, q, x) /\ e = x
  BY <1>0, InboxMoves
<1> QED BY <1>1, <1>2, <1>3

\* Two of the items that were two before, or one of them is new.
LEMMA OnceStep ==
    ASSUME CountInv, SendInv, MatchInv, OnceInv, [Next]_vars
    PROVE  OnceInv'
<1>0. Core
  BY DEF CountInv
<1> SUFFICES ASSUME NEW b \in Browser, NEW i \in 1..Len(inbox'[b]), NEW j \in 1..Len(inbox'[b]), i # j
             PROVE  LET e == inbox'[b][i] f == inbox'[b][j] IN
                    /\ e.type \in {"received", "success"} /\ f.type \in {"received", "success"} => e.c.on # f.c.on
                    /\ e.type \in {"success", "error"} /\ f.type \in {"success", "error"} => e.row.content # f.row.content
  BY DEF OnceInv
<1>1. inbox[b] \in Seq(Event)
  BY <1>0, InboxMoves
<1> DEFINE s == inbox[b]
           Two(e, f) ==
              /\ e.type \in {"received", "success"} /\ f.type \in {"received", "success"} => e.c.on # f.c.on
              /\ e.type \in {"success", "error"} /\ f.type \in {"success", "error"} => e.row.content # f.row.content
<1>2. \A g, h \in 1..Len(s) : g # h => Two(s[g], s[h])
  BY DEF OnceInv
<1>3. \A e, f : Two(e, f) => Two(f, e)
  OBVIOUS
<1>4. ASSUME NEW q \in InFlight, NEW x \in Event, Adds(b, q, x), NEW e \in InTransit(b) PROVE Two(e, x)
  <2>1. x.type \in {"received", "success"} => op[q].kind = "send"
    BY <1>4 DEF Adds
  <2>2. x.c = op[q] /\ (x.type \in {"success", "error"} => x.row.content = {q}) /\ pc[q] # "done"
    BY <1>4 DEF Adds, InFlight
  <2>3. /\ e.type \in {"received", "success"} => (op[q].kind = "send" => op[q].on # e.c.on)
        /\ e.type \in {"success", "error"} => \A p \in e.row.content : pc[p] = "done"
    BY DEF MatchInv
  <2> QED BY <2>1, <2>2, <2>3
<1>5. \A g \in 1..Len(s) : s[g] \in InTransit(b)
  BY DEF InTransit
<1> HIDE DEF Two
<1>6. CASE inbox'[b] = s
  BY <1>2, <1>6 DEF Two
<1>7. CASE inbox'[b] = <<>>
  BY <1>7
<1>8. CASE s # <<>> /\ inbox'[b] = Tail(s)
  <2>1. /\ \A g \in 1..Len(Tail(s)) : g + 1 \in 1..Len(s) /\ Tail(s)[g] = s[g + 1]
        /\ i + 1 # j + 1
    BY <1>1, <1>8
  <2>2. Two(inbox'[b][i], inbox'[b][j])
    BY <1>2, <1>8, <2>1
  <2> QED BY <2>2 DEF Two
<1>9. ASSUME NEW q \in InFlight, NEW x \in Event, Adds(b, q, x) PROVE Two(inbox'[b][i], inbox'[b][j])
  <2>1. inbox'[b] = Append(s, x)
    BY <1>9 DEF Adds
  <2>2. \A g \in 1..Len(Append(s, x)) : (g \in 1..Len(s) /\ Append(s, x)[g] = s[g])
                                        \/ (g = Len(s) + 1 /\ Append(s, x)[g] = x)
    BY <1>1
  <2>3. \A g \in 1..Len(s) : Two(s[g], x) /\ Two(x, s[g])
    BY <1>3, <1>4, <1>5, <1>9
  <2> QED BY <1>2, <2>1, <2>2, <2>3
<1>10. Two(inbox'[b][i], inbox'[b][j])
  BY <1>0, <1>6, <1>7, <1>8, <1>9, InboxMoves DEF Two
<1> QED BY <1>10 DEF Two

\* What event e does to the item w that a list shows of m: it becomes v.
ItemAfter(b, t, e, m, v, w) ==
    /\ w = NoRow \/ w \in Shown
    /\ e.type = "error" \/ IsDeafTo(b, e.type) => v = w
    /\ e.type \notin {"received", "error"} /\ m # e.c.on => v = w
    /\ e.type = "received" /\ m = e.c.on /\ e.c.to = thread[b] => v = ShownOf(b, AsNew(e.row))
    /\ e.type = "received" /\ ~(m = e.c.on /\ e.c.to = thread[b]) =>
          v = IF w # NoRow /\ thread[b] = {} /\ e.c.to # {} /\ m \in e.c.to
              THEN [w EXCEPT !.replies = @ + 1] ELSE w
    /\ m = e.c.on /\ ~IsDeafTo(b, e.type) =>
          /\ e.type = "edited" => v = IF w = NoRow THEN w ELSE [w EXCEPT !.content = e.row.content]
          /\ e.type = "deleted" => v = NoRow
          /\ e.type = "pinned" => v = IF w = NoRow THEN w ELSE [w EXCEPT !.pinned = (e.c.kind = "pin")]
          /\ e.type = "reactions" => v = IF w = NoRow THEN w ELSE [w EXCEPT !.reactions = e.row.reactions]
          /\ e.type = "success" => \E q \in Request :
                 e.row.content = {q} /\ v = IF q \in t THEN ShownOf(b, Created(q, b, e.c.to)) ELSE w

\* What an event that arrives makes of an item.
LEMMA AppliedAt ==
    ASSUME NEW b \in Browser, NEW l \in List, NEW t \in SUBSET Request, NEW e \in Event, NEW m \in Message,
           NEW v, v = Apply(b, l, t, e)[m], NEW w, w = l[m]
    PROVE  ItemAfter(b, t, e, m, v, w)
<1>0. e.c.on \in Message
  BY EventFields
<1>1. l \in [Message -> Shown \cup {NoRow}] /\ (w = NoRow \/ w \in Shown)
  BY DEF List
<1>2. e.type = "error" \/ IsDeafTo(b, e.type) => v = w
  BY Applied
<1>3. ASSUME e.type = "received"
      PROVE  /\ m = e.c.on /\ e.c.to = thread[b] => v = ShownOf(b, AsNew(e.row))
             /\ ~(m = e.c.on /\ e.c.to = thread[b]) =>
                  v = IF w # NoRow /\ thread[b] = {} /\ e.c.to # {} /\ m \in e.c.to
                      THEN [w EXCEPT !.replies = @ + 1] ELSE w
  <2>1. Apply(b, l, t, e) = Received(b, l, e)
    BY <1>3, Applied
  <2>2. CASE e.c.to = thread[b]
    <3>1. Apply(b, l, t, e) = [l EXCEPT ![e.c.on] = ShownOf(b, AsNew(e.row))]
      BY <2>1, <2>2 DEF Received
    <3> DEFINE y == ShownOf(b, AsNew(e.row))
    <3> HIDE DEF y
    <3>2. Apply(b, l, t, e) = [l EXCEPT ![e.c.on] = y]
      BY <3>1 DEF y
    <3>3. /\ m = e.c.on => v = y
          /\ m # e.c.on => v = w
      BY <1>0, <1>1, <3>2
    <3> QED BY <2>2, <3>3 DEF y
  <2>3. CASE e.c.to # thread[b] /\ thread[b] = {}
    <3>1. Apply(b, l, t, e) = WithReply(l, e.c.to)
      BY <2>1, <2>3 DEF Received
    <3>2. v = IF m \in e.c.to /\ l[m] # NoRow THEN [l[m] EXCEPT !.replies = @ + 1] ELSE l[m]
      BY <3>1 DEF WithReply
    <3> QED BY <2>3, <3>2
  <2>4. CASE e.c.to # thread[b] /\ thread[b] # {}
    BY <2>1, <2>4 DEF Received
  <2> QED BY <2>2, <2>3, <2>4
<1>4. ASSUME e.type = "edited" /\ ~IsDeafTo(b, e.type)
      PROVE v = IF w = NoRow \/ m # e.c.on THEN w ELSE [w EXCEPT !.content = e.row.content]
  <2>1. Apply(b, l, t, e) = WithContent(l, e.c.on, e.row.content)
    BY <1>4, Applied
  <2> QED BY <1>0, <1>1, <2>1 DEF WithContent
<1>5. ASSUME e.type = "deleted" /\ ~IsDeafTo(b, e.type) PROVE v = IF m # e.c.on THEN w ELSE NoRow
  <2>1. Apply(b, l, t, e) = Without(l, e.c.on)
    BY <1>5, Applied
  <2> QED BY <1>0, <1>1, <2>1 DEF Without
<1>6. ASSUME e.type = "pinned" /\ ~IsDeafTo(b, e.type)
      PROVE v = IF w = NoRow \/ m # e.c.on THEN w ELSE [w EXCEPT !.pinned = (e.c.kind = "pin")]
  <2>1. Apply(b, l, t, e) = WithPinned(l, e.c.on, e.c.kind = "pin")
    BY <1>6, Applied
  <2>2. PICK p \in BOOLEAN : p = (e.c.kind = "pin")
    OBVIOUS
  <2>3. Apply(b, l, t, e) = WithPinned(l, e.c.on, p)
    BY <2>1, <2>2
  <2>4. v = IF w = NoRow \/ m # e.c.on THEN w ELSE [w EXCEPT !.pinned = p]
    BY <1>0, <1>1, <2>3 DEF WithPinned
  <2> QED BY <2>2, <2>4
<1>7. ASSUME e.type = "reactions" /\ ~IsDeafTo(b, e.type)
      PROVE v = IF w = NoRow \/ m # e.c.on THEN w ELSE [w EXCEPT !.reactions = e.row.reactions]
  <2>1. Apply(b, l, t, e) = WithReactions(l, e.c.on, e.row.reactions)
    BY <1>7, Applied
  <2> QED BY <1>0, <1>1, <2>1 DEF WithReactions
<1>8. ASSUME e.type = "success" /\ ~IsDeafTo(b, e.type)
      PROVE  \E q \in Request : e.row.content = {q} /\
               v = IF q \in t /\ m = e.c.on THEN ShownOf(b, Created(q, b, e.c.to)) ELSE w
  <2>1. PICK q \in Request :
          /\ e.row.content = {q}
          /\ Apply(b, l, t, e) =
                 IF q \in t THEN [l EXCEPT ![e.c.on] = ShownOf(b, Created(q, b, e.c.to))] ELSE l
    BY <1>8, Applied
  <2> DEFINE y == ShownOf(b, Created(q, b, e.c.to))
  <2> HIDE DEF y
  <2>2. Apply(b, l, t, e) = IF q \in t THEN [l EXCEPT ![e.c.on] = y] ELSE l
    BY <2>1 DEF y
  <2>3. v = IF q \in t /\ m = e.c.on THEN y ELSE w
    BY <1>0, <1>1, <2>2
  <2> QED BY <2>1, <2>3 DEF y
<1>9. e.type \notin {"received", "error"} /\ m # e.c.on => v = w
  BY <1>2, <1>4, <1>5, <1>6, <1>7, <1>8, EventFields
<1> QED BY <1>1, <1>2, <1>3, <1>4, <1>5, <1>6, <1>7, <1>8, <1>9 DEF ItemAfter

\* An item with another text, pin, reactions or number of replies.
ShowsAs(v, c, p, r, n) ==
    v \in Shown /\ v.content = c /\ v.pinned = p /\ v.reactions = r /\ v.replies = n

\* An item that is changed in one column keeps the others.
LEMMA ShownExcept ==
    ASSUME NEW w \in Shown
    PROVE  /\ \A x \in Text : ShowsAs([w EXCEPT !.content = x], x, w.pinned, w.reactions, w.replies)
           /\ \A x \in BOOLEAN : ShowsAs([w EXCEPT !.pinned = x], w.content, x, w.reactions, w.replies)
           /\ \A x \in SUBSET Browser :
                ShowsAs([w EXCEPT !.reactions = x], w.content, w.pinned, x, w.replies)
           /\ ShowsAs([w EXCEPT !.replies = @ + 1], w.content, w.pinned, w.reactions, w.replies + 1)
<1>1. \A x \in Text : ShowsAs([w EXCEPT !.content = x], x, w.pinned, w.reactions, w.replies)
  BY DEF Shown, ShowsAs
<1>2. \A x \in BOOLEAN : ShowsAs([w EXCEPT !.pinned = x], w.content, x, w.reactions, w.replies)
  BY DEF Shown, ShowsAs
<1>3. \A x \in SUBSET Browser :
        ShowsAs([w EXCEPT !.reactions = x], w.content, w.pinned, x, w.replies)
  BY DEF Shown, ShowsAs
<1>4. ShowsAs([w EXCEPT !.replies = @ + 1], w.content, w.pinned, w.reactions, w.replies + 1)
  BY DEF Shown, ShowsAs
<1> QED BY <1>1, <1>2, <1>3, <1>4

\* An item has a column of the row when it shows the same as one that has.
LEMMA HasSame ==
    ASSUME NEW k \in Column, NEW row, NEW w \in Has(k, row), w \in Shown, NEW v \in Shown,
           k = "content" => v.content = w.content, k = "pinned" => v.pinned = w.pinned,
           k = "reactions" => v.reactions = w.reactions
    PROVE  v \in Has(k, row)
BY NoRowIsNone DEF Has, Column

\* Nothing has every column but the row of a deleted message is not shown.
LEMMA NothingHas ==
    ASSUME NEW k \in Column, NEW row, k # "there" \/ row.deleted
    PROVE  NoRow \in Has(k, row)
BY DEF Has, Column

\* An event leaves the columns alone that it does not set.
LEMMA AppliedHas ==
    ASSUME NEW b \in Browser, NEW l \in List, NEW t \in SUBSET Request, NEW e \in Event, NEW m \in Message,
           NEW k \in Column, NEW row, l[m] \in Has(k, row), e \notin Sets(b, m, k)
    PROVE  Apply(b, l, t, e)[m] \in Has(k, row)
<1> DEFINE v == Apply(b, l, t, e)[m]
           w == l[m]
<1>0. v = Apply(b, l, t, e)[m] /\ w = l[m]
  OBVIOUS
<1> HIDE DEF v, w
<1>1. ItemAfter(b, t, e, m, v, w)
  BY <1>0, AppliedAt
<1>2. w \in Has(k, row)
  BY <1>0
<1>3. m = e.c.on => /\ e.type \notin {"received", "success"}
                    /\ e.type = Setter(k) => IsDeafTo(b, e.type)
  BY DEF Sets, Creations
<1>4. CASE v = w
  BY <1>0, <1>2, <1>4
<1>5. CASE e.type = "received"
  <2>1. v = w \/ (w \in Shown /\ v = [w EXCEPT !.replies = @ + 1])
    BY <1>1, <1>3, <1>5 DEF ItemAfter
  <2>2. CASE w \in Shown /\ v = [w EXCEPT !.replies = @ + 1]
    <3>1. v \in Shown /\ v.content = w.content /\ v.pinned = w.pinned /\ v.reactions = w.reactions
      BY <2>2, ShownExcept DEF ShowsAs
    <3> QED BY <1>0, <1>2, <2>2, <3>1, HasSame
  <2> QED BY <1>4, <2>1, <2>2
<1>6. CASE m = e.c.on /\ ~IsDeafTo(b, e.type) /\ e.type = "edited"
  <2>1. k # "content"
    BY <1>3, <1>6 DEF Setter
  <2>2. CASE w = NoRow
    BY <1>1, <1>4, <1>6, <2>2 DEF ItemAfter
  <2>3. CASE w \in Shown
    <3>1. e.row.content \in Text /\ v = [w EXCEPT !.content = e.row.content]
      BY <1>1, <1>6, <2>3, EventFields, NoRowIsNone DEF ItemAfter
    <3>2. v \in Shown /\ v.pinned = w.pinned /\ v.reactions = w.reactions
      BY <2>3, <3>1 DEF Shown
    <3> QED BY <1>0, <1>2, <2>1, <2>3, <3>2, HasSame
  <2> QED BY <1>1, <2>2, <2>3 DEF ItemAfter
<1>7. CASE m = e.c.on /\ ~IsDeafTo(b, e.type) /\ e.type = "deleted"
  <2>1. k # "there"
    BY <1>3, <1>7 DEF Setter
  <2> QED BY <1>0, <1>1, <1>7, <2>1, NothingHas DEF ItemAfter
<1>8. CASE m = e.c.on /\ ~IsDeafTo(b, e.type) /\ e.type = "pinned"
  <2>1. k # "pinned"
    BY <1>3, <1>8 DEF Setter
  <2>2. CASE w = NoRow
    BY <1>1, <1>4, <1>8, <2>2 DEF ItemAfter
  <2>3. CASE w \in Shown
    <3>0. PICK p \in BOOLEAN : p = (e.c.kind = "pin")
      OBVIOUS
    <3>1. v = [w EXCEPT !.pinned = p]
      BY <1>1, <1>8, <2>3, <3>0, NoRowIsNone DEF ItemAfter
    <3>2. v \in Shown /\ v.content = w.content /\ v.reactions = w.reactions
      BY <2>3, <3>1 DEF Shown
    <3> QED BY <1>0, <1>2, <2>1, <2>3, <3>2, HasSame
  <2> QED BY <1>1, <2>2, <2>3 DEF ItemAfter
<1>9. CASE m = e.c.on /\ ~IsDeafTo(b, e.type) /\ e.type = "reactions"
  <2>1. k # "reactions"
    BY <1>3, <1>9 DEF Setter
  <2>2. CASE w = NoRow
    BY <1>1, <1>4, <1>9, <2>2 DEF ItemAfter
  <2>3. CASE w \in Shown
    <3>1. e.row.reactions \in SUBSET Browser /\ v = [w EXCEPT !.reactions = e.row.reactions]
      BY <1>1, <1>9, <2>3, EventFields, NoRowIsNone DEF ItemAfter
    <3>2. v \in Shown /\ v.content = w.content /\ v.pinned = w.pinned
      BY <2>3, <3>1 DEF Shown
    <3> QED BY <1>0, <1>2, <2>1, <2>3, <3>2, HasSame
  <2> QED BY <1>1, <2>2, <2>3 DEF ItemAfter
<1> QED BY <1>1, <1>3, <1>4, <1>5, <1>6, <1>7, <1>8, <1>9, EventFields DEF ItemAfter

\* A new message as it is shown.
NewItem(q) == [content |-> {q}, pinned |-> FALSE, reactions |-> {}, replies |-> 0]

\* A new message is shown the same by the event and by the answer.
LEMMA NewIsShown ==
    ASSUME NEW b \in Browser, NEW q \in Request, NEW a \in Browser
    PROVE  /\ NewItem(q) \in Shown
           /\ ShownOf(b, Created(q, a, thread[b])) = NewItem(q)
           /\ ShownOf(b, AsNew(Created(q, a, thread[b]))) = NewItem(q)
<1> DEFINE w == Created(q, a, thread[b])
<1>1. NewItem(q) \in Shown
  BY Texts DEF NewItem, Shown
<1>2. /\ w.content = {q} /\ w.pinned = FALSE /\ w.reactions = {} /\ w.replies = 0
      /\ w.parent = thread[b] /\ w.deleted = FALSE
  BY DEF Created
<1>3. /\ AsNew(w).content = {q} /\ AsNew(w).pinned = FALSE /\ AsNew(w).reactions = {} /\ AsNew(w).replies = 0
      /\ AsNew(w).parent = thread[b] /\ AsNew(w).deleted = FALSE
  BY DEF Created, AsNew
<1>4. NoRow.content = {}
  BY DEF NoRow
<1>5. \A v : /\ v.content = {q} /\ v.pinned = FALSE /\ v.reactions = {} /\ v.replies = 0
            /\ v.parent = thread[b] /\ v.deleted = FALSE
            => ShownOf(b, v) = NewItem(q)
  <2> TAKE v
  <2> HAVE /\ v.content = {q} /\ v.pinned = FALSE /\ v.reactions = {} /\ v.replies = 0
           /\ v.parent = thread[b] /\ v.deleted = FALSE
  <2>1. v # NoRow
    BY <1>4
  <2> QED BY <2>1 DEF ShownOf, Belongs, NewItem
<1> HIDE DEF w
<1>6. ShownOf(b, w) = NewItem(q) /\ ShownOf(b, AsNew(w)) = NewItem(q)
  BY <1>2, <1>3, <1>5
<1> QED BY <1>1, <1>6 DEF w

\* An event that brings a column of the row gives it to the item.
LEMMA AppliedBrings ==
    ASSUME NEW b \in Browser, NEW l \in List, NEW t \in SUBSET Request, NEW e \in Event, NEW m \in Message,
           NEW k \in Column, NEW row, e \in Sets(b, m, k), e \in Brings(k, row),
           e.type \in {"received", "success"} => e.c.to = thread[b],
           e.type = "received" => \E q \in Request : e.row = Created(q, e.c.by, e.c.to),
           e.type = "success" => e.row.content \subseteq t
    PROVE  Apply(b, l, t, e)[m] \in Has(k, row)
<1> DEFINE v == Apply(b, l, t, e)[m]
           w == l[m]
<1>0. v = Apply(b, l, t, e)[m] /\ w = l[m]
  OBVIOUS
<1> HIDE DEF v, w
<1>1. ItemAfter(b, t, e, m, v, w)
  BY <1>0, AppliedAt
<1>2. m = e.c.on /\ (e.type \in {"received", "success"} \/ (e.type = Setter(k) /\ ~IsDeafTo(b, e.type)))
  BY DEF Sets, Creations
<1>3. CASE e.type \in {"received", "success"}
  <2>1. \E q \in Request : v = NewItem(q) /\ e.row.content = {q}
    <3>1. CASE e.type = "received"
      <4>1. PICK q \in Request : e.row = Created(q, e.c.by, thread[b])
        BY <3>1
      <4>2. v = ShownOf(b, AsNew(Created(q, e.c.by, thread[b])))
        BY <1>1, <1>2, <3>1, <4>1 DEF ItemAfter
      <4>3. e.c.by \in Browser
        BY EventFields DEF Command
      <4>4. e.row.content = {q}
        BY <4>1 DEF Created
      <4> QED BY <4>2, <4>3, <4>4, NewIsShown
    <3>2. CASE e.type = "success"
      <4>1. ~IsDeafTo(b, e.type)
        BY <3>2 DEF IsDeafTo
      <4>2. PICK q \in Request : e.row.content = {q} /\ v = IF q \in t THEN ShownOf(b, Created(q, b, thread[b])) ELSE w
        BY <1>1, <1>2, <3>2, <4>1 DEF ItemAfter
      <4>3. q \in t
        BY <3>2, <4>2
      <4> QED BY <4>2, <4>3, NewIsShown
    <3> QED BY <1>3, <3>1, <3>2
  <2>2. PICK q \in Request : v = NewItem(q) /\ e.row.content = {q}
    BY <2>1
  <2>3. /\ v \in Shown /\ v.content = {q} /\ v.pinned = FALSE /\ v.reactions = {}
    BY <2>2, NewIsShown DEF NewItem
  <2>4. /\ k = "there" => ~row.deleted
        /\ k = "content" => row.content = {q}
        /\ k = "pinned" => ~row.pinned
        /\ k = "reactions" => row.reactions = {}
    BY <1>3, <2>2 DEF Brings, Column
  <2> QED BY <1>0, <2>3, <2>4 DEF Has, Column
<1>4. CASE e.type = Setter(k) /\ ~IsDeafTo(b, e.type)
  <2>1. CASE k = "there"
    <3>1. v = NoRow /\ row.deleted
      BY <1>1, <1>2, <1>4, <2>1 DEF Setter, Brings, ItemAfter
    <3> QED BY <1>0, <2>1, <3>1 DEF Has
  <2>2. CASE w = NoRow /\ k # "there"
    <3>1. v = NoRow
      BY <1>1, <1>2, <1>4, <2>2 DEF Setter, Column, ItemAfter
    <3> QED BY <1>0, <2>2, <3>1, NothingHas
  <2>3. CASE w \in Shown /\ k = "content"
    <3>1. e.row.content \in Text /\ v = [w EXCEPT !.content = e.row.content] /\ e.row.content = row.content
      BY <1>1, <1>2, <1>4, <2>3, EventFields, NoRowIsNone DEF Setter, Brings, ItemAfter
    <3>2. v \in Shown /\ v.content = row.content
      BY <2>3, <3>1 DEF Shown
    <3> QED BY <1>0, <2>3, <3>2 DEF Has
  <2>4. CASE w \in Shown /\ k = "pinned"
    <3>0. PICK p \in BOOLEAN : p = (e.c.kind = "pin")
      OBVIOUS
    <3>1. v = [w EXCEPT !.pinned = p]
      BY <1>1, <1>2, <1>4, <2>4, <3>0, NoRowIsNone DEF Setter, ItemAfter
    <3>2. p <=> row.pinned
      BY <1>4, <2>4, <3>0 DEF Setter, Brings
    <3>3. v \in Shown /\ v.pinned = p
      BY <2>4, <3>1, ShownExcept DEF ShowsAs
    <3> QED BY <1>0, <2>4, <3>2, <3>3 DEF Has
  <2>5. CASE w \in Shown /\ k = "reactions"
    <3>1. e.row.reactions \in SUBSET Browser /\ v = [w EXCEPT !.reactions = e.row.reactions]
      BY <1>1, <1>2, <1>4, <2>5, EventFields, NoRowIsNone DEF Setter, ItemAfter
    <3>2. e.row.reactions = row.reactions
      BY <1>4, <2>5 DEF Setter, Brings
    <3>3. v \in Shown /\ v.reactions = row.reactions
      BY <2>5, <3>1, <3>2 DEF Shown
    <3> QED BY <1>0, <2>5, <3>3 DEF Has
  <2> QED BY <1>1, <2>1, <2>2, <2>3, <2>4, <2>5 DEF Column, ItemAfter
<1> QED BY <1>2, <1>3, <1>4

\* What a browser does to the item w that it shows of m before it calls: it becomes v.
ItemDone(c, q, m, v, w) ==
    /\ w = NoRow \/ w \in Shown
    /\ c.kind = "send" \/ c.on # m \/ w = NoRow => v = w
    /\ c.on = m /\ w # NoRow =>
          /\ c.kind = "edit" => v = [w EXCEPT !.content = {q}]
          /\ c.kind = "delete" => v = NoRow
          /\ c.kind \in {"pin", "unpin"} => v = [w EXCEPT !.pinned = (c.kind = "pin")]
          /\ c.kind \in {"react", "unreact"} => \E r \in SUBSET Browser : v = [w EXCEPT !.reactions = r]

\* What a browser makes of an item before the answer.
LEMMA OptimisticAt ==
    ASSUME NEW l \in List, NEW c \in Command, NEW q \in Request, NEW m \in Message,
           NEW v, v = Optimistic(l, c, q)[m], NEW w, w = l[m]
    PROVE  ItemDone(c, q, m, v, w)
<1>0. c.on \in Message /\ c.by \in Browser /\ c.kind \in {"send"} \cup Kind
  BY DEF Command
<1>1. l \in [Message -> Shown \cup {NoRow}] /\ (w = NoRow \/ w \in Shown)
  BY DEF List
<1>2. c.kind = "send" => v = w
  BY DEF Optimistic
<1>3. ASSUME c.kind = "edit"
      PROVE  v = IF w = NoRow \/ c.on # m THEN w ELSE [w EXCEPT !.content = {q}]
  <2>1. Optimistic(l, c, q) = WithContent(l, c.on, {q})
    BY <1>3 DEF Optimistic
  <2> QED BY <1>0, <1>1, <2>1 DEF WithContent
<1>4. ASSUME c.kind = "delete" PROVE v = IF c.on # m THEN w ELSE NoRow
  <2>1. Optimistic(l, c, q) = Without(l, c.on)
    BY <1>4 DEF Optimistic
  <2> QED BY <1>0, <1>1, <2>1 DEF Without
<1>5. ASSUME c.kind \in {"pin", "unpin"}
      PROVE  v = IF w = NoRow \/ c.on # m THEN w ELSE [w EXCEPT !.pinned = (c.kind = "pin")]
  <2>1. Optimistic(l, c, q) = WithPinned(l, c.on, c.kind = "pin")
    BY <1>5 DEF Optimistic
  <2>2. PICK p \in BOOLEAN : p = (c.kind = "pin")
    OBVIOUS
  <2>3. Optimistic(l, c, q) = WithPinned(l, c.on, p)
    BY <2>1, <2>2
  <2>4. v = IF w = NoRow \/ c.on # m THEN w ELSE [w EXCEPT !.pinned = p]
    BY <1>0, <1>1, <2>3 DEF WithPinned
  <2> QED BY <2>2, <2>4
<1>6. ASSUME c.kind \in {"react", "unreact"}
      PROVE  \E r : /\ w # NoRow /\ c.on = m => r \in SUBSET Browser
                    /\ v = IF w = NoRow \/ c.on # m THEN w ELSE [w EXCEPT !.reactions = r]
  <2> DEFINE r == IF c.kind = "react" THEN l[c.on].reactions \cup {c.by} ELSE l[c.on].reactions \ {c.by}
  <2>1. Optimistic(l, c, q) = WithReactions(l, c.on, r)
    BY <1>6 DEF Optimistic
  <2>2. w # NoRow /\ c.on = m => r \in SUBSET Browser
    BY <1>0, <1>1 DEF Shown
  <2> HIDE DEF r
  <2>3. v = IF w = NoRow \/ c.on # m THEN w ELSE [w EXCEPT !.reactions = r]
    BY <1>0, <1>1, <2>1 DEF WithReactions
  <2> QED BY <2>2, <2>3
<1> QED BY <1>0, <1>1, <1>2, <1>3, <1>4, <1>5, <1>6 DEF ItemDone, Kind

\* It leaves the columns alone that the command does not change, and the replies.
LEMMA OptimisticHas ==
    ASSUME NEW l \in List, NEW c \in Command, NEW q \in Request, NEW m \in Message
    PROVE  /\ \A k \in Column : \A row :
                l[m] \in Has(k, row) /\ (c.on # m \/ c.kind \notin Doing(k)) =>
                    Optimistic(l, c, q)[m] \in Has(k, row)
           /\ Optimistic(l, c, q)[m] # NoRow =>
                l[m] # NoRow /\ Optimistic(l, c, q)[m].replies = l[m].replies
           /\ c.on = m /\ c.kind \in {"pin", "unpin"} /\ l[m] # NoRow =>
                (Optimistic(l, c, q)[m].pinned <=> c.kind = "pin")
           /\ c.on # m => Optimistic(l, c, q)[m] = l[m]
           /\ c.on = m /\ c.kind = "delete" => Optimistic(l, c, q)[m] = NoRow
<1> DEFINE v == Optimistic(l, c, q)[m]
           w == l[m]
<1>0. v = Optimistic(l, c, q)[m] /\ w = l[m] /\ {q} \in Text /\ c.kind \in {"send"} \cup Kind
  BY Texts DEF Command
<1> HIDE DEF v, w
<1>1. ItemDone(c, q, m, v, w)
  BY <1>0, OptimisticAt
<1> DEFINE Good == /\ \A k \in Column : \A row :
                        w \in Has(k, row) /\ (c.on # m \/ c.kind \notin Doing(k)) => v \in Has(k, row)
                   /\ v # NoRow => w # NoRow /\ v.replies = w.replies
                   /\ c.on = m /\ c.kind \in {"pin", "unpin"} /\ w # NoRow => (v.pinned <=> c.kind = "pin")
                   /\ c.on # m => v = w
                   /\ c.on = m /\ c.kind = "delete" => v = NoRow
<1> SUFFICES Good
  BY <1>0
<1>2. CASE c.kind = "send" \/ c.on # m \/ w = NoRow
  <2>1. v = w
    BY <1>1, <1>2 DEF ItemDone
  <2>2. c.on = m => w = NoRow \/ c.kind = "send"
    BY <1>2
  <2> QED BY <2>1, <2>2
<1>3. CASE c.on = m /\ w # NoRow /\ c.kind = "edit"
  <2>1. w \in Shown /\ v = [w EXCEPT !.content = {q}]
    BY <1>1, <1>3 DEF ItemDone
  <2>2. v \in Shown /\ v.pinned = w.pinned /\ v.reactions = w.reactions /\ v.replies = w.replies
    BY <1>0, <2>1 DEF Shown
  <2>3. \A k \in Column : \A row : w \in Has(k, row) /\ c.kind \notin Doing(k) => v \in Has(k, row)
    <3> TAKE k \in Column
    <3> TAKE row
    <3> HAVE w \in Has(k, row) /\ c.kind \notin Doing(k)
    <3>1. k # "content"
      BY <1>3 DEF Doing
    <3> QED BY <2>1, <2>2, <3>1, HasSame
  <2> QED BY <1>3, <2>1, <2>2, <2>3
<1>4. CASE c.on = m /\ w # NoRow /\ c.kind = "delete"
  <2>1. v = NoRow
    BY <1>1, <1>4 DEF ItemDone
  <2>2. \A k \in Column : c.kind \notin Doing(k) => k # "there"
    BY <1>4 DEF Doing
  <2> QED BY <1>4, <2>1, <2>2, NothingHas
<1>5. CASE c.on = m /\ w # NoRow /\ c.kind \in {"pin", "unpin"}
  <2>0. PICK p \in BOOLEAN : p = (c.kind = "pin")
    OBVIOUS
  <2>1. w \in Shown /\ v = [w EXCEPT !.pinned = p]
    BY <1>1, <1>5, <2>0 DEF ItemDone
  <2>2. v \in Shown /\ v.pinned = p /\ v.content = w.content /\ v.reactions = w.reactions /\ v.replies = w.replies
    BY <2>1 DEF Shown
  <2>3. \A k \in Column : \A row : w \in Has(k, row) /\ c.kind \notin Doing(k) => v \in Has(k, row)
    <3> TAKE k \in Column
    <3> TAKE row
    <3> HAVE w \in Has(k, row) /\ c.kind \notin Doing(k)
    <3>1. k # "pinned"
      BY <1>5 DEF Doing
    <3> QED BY <2>1, <2>2, <3>1, HasSame
  <2> QED BY <1>5, <2>0, <2>1, <2>2, <2>3
<1>6. CASE c.on = m /\ w # NoRow /\ c.kind \in {"react", "unreact"}
  <2>0. PICK r \in SUBSET Browser : v = [w EXCEPT !.reactions = r]
    BY <1>1, <1>6 DEF ItemDone
  <2>1. w \in Shown
    BY <1>1, <1>6 DEF ItemDone
  <2>2. v \in Shown /\ v.content = w.content /\ v.pinned = w.pinned /\ v.replies = w.replies
    BY <2>0, <2>1 DEF Shown
  <2>3. \A k \in Column : \A row : w \in Has(k, row) /\ c.kind \notin Doing(k) => v \in Has(k, row)
    <3> TAKE k \in Column
    <3> TAKE row
    <3> HAVE w \in Has(k, row) /\ c.kind \notin Doing(k)
    <3>1. k # "reactions"
      BY <1>6 DEF Doing
    <3> QED BY <2>1, <2>2, <3>1, HasSame
  <2> QED BY <1>6, <2>1, <2>2, <2>3
<1> QED BY <1>0, <1>2, <1>3, <1>4, <1>5, <1>6 DEF Kind

\* What an event does to the replies that an item shows, and where new items come from.
LEMMA AppliedReplies ==
    ASSUME NEW b \in Browser, NEW l \in List, NEW t \in SUBSET Request, NEW e \in Event, NEW m \in Message,
           Apply(b, l, t, e)[m] # NoRow
    PROVE  \/ l[m] # NoRow /\ Apply(b, l, t, e)[m].replies = l[m].replies
              /\ ~(e.type = "received" /\ m \in e.c.to /\ thread[b] = {} /\ e.c.on # m)
           \/ /\ l[m] # NoRow /\ Apply(b, l, t, e)[m].replies = l[m].replies + 1
              /\ e.type = "received" /\ m \in e.c.to
           \/ /\ Apply(b, l, t, e)[m].replies = 0
              /\ m = e.c.on /\ e.type \in {"received", "success"} /\ e.c.to = thread[b]
<1> DEFINE v == Apply(b, l, t, e)[m]
           w == l[m]
<1>0. v = Apply(b, l, t, e)[m] /\ w = l[m]
  OBVIOUS
<1> HIDE DEF v, w
<1>1. ItemAfter(b, t, e, m, v, w)
  BY <1>0, AppliedAt
<1>2. v # NoRow /\ (w = NoRow \/ w \in Shown)
  BY <1>0, <1>1 DEF ItemAfter
<1> SUFFICES \/ w # NoRow /\ v.replies = w.replies
                /\ ~(e.type = "received" /\ m \in e.c.to /\ thread[b] = {} /\ e.c.on # m)
             \/ /\ w # NoRow /\ v.replies = w.replies + 1
                /\ e.type = "received" /\ m \in e.c.to
             \/ /\ v.replies = 0
                /\ m = e.c.on /\ e.type \in {"received", "success"} /\ e.c.to = thread[b]
  BY <1>0
<1>3. \A x : ShownOf(b, x) # NoRow => Belongs(b, x) /\ ShownOf(b, x).replies = x.replies
  BY DEF ShownOf
<1>4. CASE e.type = "received" /\ m = e.c.on /\ e.c.to = thread[b]
  <2>1. v = ShownOf(b, AsNew(e.row)) /\ e.row \in Row
    BY <1>1, <1>4, EventFields DEF ItemAfter
  <2>2. AsNew(e.row).replies = 0
    BY <2>1 DEF AsNew, Row
  <2>3. v.replies = 0
    BY <1>2, <1>3, <2>1, <2>2
  <2> QED BY <1>4, <2>3
<1>5. CASE e.type = "received" /\ ~(m = e.c.on /\ e.c.to = thread[b])
  <2>1. v = IF w # NoRow /\ thread[b] = {} /\ e.c.to # {} /\ m \in e.c.to
            THEN [w EXCEPT !.replies = @ + 1] ELSE w
    BY <1>1, <1>5 DEF ItemAfter
  <2>2. CASE w # NoRow /\ thread[b] = {} /\ m \in e.c.to
    <3>1. w \in Shown /\ v = [w EXCEPT !.replies = @ + 1]
      BY <1>2, <2>1, <2>2
    <3>2. v.replies = w.replies + 1
      BY <3>1, ShownExcept DEF ShowsAs
    <3> QED BY <1>5, <2>2, <3>2
  <2>3. CASE ~(w # NoRow /\ thread[b] = {} /\ m \in e.c.to)
    BY <1>2, <2>1, <2>3
  <2> QED BY <2>2, <2>3
<1>6. CASE v = w /\ e.type # "received"
  BY <1>2, <1>6
<1>7. CASE m = e.c.on /\ ~IsDeafTo(b, e.type) /\ e.type = "edited"
  <2>1. w \in Shown /\ v = [w EXCEPT !.content = e.row.content] /\ e.row.content \in Text
    BY <1>1, <1>2, <1>7, EventFields DEF ItemAfter
  <2>2. v.replies = w.replies
    BY <2>1 DEF Shown
  <2> QED BY <1>7, <2>1, <2>2, NoRowIsNone
<1>8. CASE m = e.c.on /\ ~IsDeafTo(b, e.type) /\ e.type = "pinned"
  <2>0. PICK p \in BOOLEAN : p = (e.c.kind = "pin")
    OBVIOUS
  <2>1. w \in Shown /\ v = [w EXCEPT !.pinned = p]
    BY <1>1, <1>2, <1>8, <2>0 DEF ItemAfter
  <2>2. v.replies = w.replies
    BY <2>1 DEF Shown
  <2> QED BY <1>8, <2>1, <2>2, NoRowIsNone
<1>9. CASE m = e.c.on /\ ~IsDeafTo(b, e.type) /\ e.type = "reactions"
  <2>1. w \in Shown /\ v = [w EXCEPT !.reactions = e.row.reactions]
    BY <1>1, <1>2, <1>9 DEF ItemAfter
  <2>2. v.replies = w.replies
    BY <2>1 DEF Shown
  <2> QED BY <1>9, <2>1, <2>2, NoRowIsNone
<1>10. CASE m = e.c.on /\ ~IsDeafTo(b, e.type) /\ e.type = "success"
  <2>1. PICK q \in Request : v = IF q \in t THEN ShownOf(b, Created(q, b, e.c.to)) ELSE w
    BY <1>1, <1>10 DEF ItemAfter
  <2>2. CASE v = w
    BY <1>6, <1>10, <2>2
  <2>3. CASE v = ShownOf(b, Created(q, b, e.c.to))
    <3>1. Created(q, b, e.c.to).parent = e.c.to /\ Created(q, b, e.c.to).replies = 0
      BY DEF Created
    <3>2. v.replies = 0 /\ e.c.to = thread[b]
      BY <1>2, <1>3, <2>3, <3>1 DEF Belongs
    <3> QED BY <1>10, <3>2
  <2> QED BY <2>1, <2>2, <2>3
<1>11. \/ e.type = "received"
       \/ v = w
       \/ m = e.c.on /\ ~IsDeafTo(b, e.type) /\ e.type \in {"edited", "pinned", "reactions", "success"}
  BY <1>1, <1>2, EventFields DEF ItemAfter
<1> QED BY <1>4, <1>5, <1>6, <1>7, <1>8, <1>9, <1>10, <1>11

\* A list comes to show only what belongs to it.
LEMMA PlacedStep ==
    ASSUME CountInv, CountInv', MatchInv, PlacedInv, [Next]_vars
    PROVE  PlacedInv'
<1>0. /\ Core /\ Present /\ Present' /\ thread' = thread
      /\ table \in [Message -> Row \cup {NoRow}]
      /\ \A m \in Message : table[m] # NoRow =>
                 table'[m] # NoRow /\ table'[m].parent = table[m].parent
      /\ SocketTypes
  BY Basis, TypesAre DEF Core
<1> DEFINE Placed(b, m, l) ==
              l[m] # NoRow => table[m].parent = thread[b] /\ (m \notin Existing => l[m].replies = 0)
<1> SUFFICES ASSUME NEW b \in Browser, NEW m \in Message, NEW l \in fetch'[b] \cup {view'[b]}
             PROVE  l[m] # NoRow => /\ table'[m].parent = thread[b]
                                    /\ m \notin Existing => l[m].replies = 0
  BY <1>0 DEF PlacedInv
<1>1. \A n \in fetch[b] \cup {view[b]} : Placed(b, m, n) /\ (n[m] # NoRow => table[m] # NoRow)
  BY <1>0 DEF PlacedInv, Present
<1>2. Placed(b, m, l) /\ (l[m] # NoRow => table[m] # NoRow) => 
             (l[m] # NoRow => /\ table'[m].parent = thread[b]
                              /\ m \notin Existing => l[m].replies = 0)
  BY <1>0
<1>3. CASE l \in fetch[b] \cup {view[b]}
  BY <1>1, <1>2, <1>3
<1>00. view[b] \in List /\ temp[b] \in SUBSET Request
  BY <1>0 DEF SocketTypes
<1>4. ASSUME NEW e \in Event, Takes(b, e), l = view'[b]
      PROVE  Placed(b, m, l) /\ (l[m] # NoRow => table[m] # NoRow)
  <2>1. l = Apply(b, view[b], temp[b], e) /\ e \in InTransit(b)
    BY <1>4 DEF Takes
  <2>2. /\ e.c.to \subseteq Existing
        /\ e.type \in {"received", "success"} => table[e.c.on].parent = e.c.to /\ table[e.c.on] # NoRow
    BY <1>0, <2>1 DEF MatchInv, Present
  <2> HIDE DEF List
  <2>3. l[m] # NoRow =>
           \/ view[b][m] # NoRow /\ (l[m].replies = view[b][m].replies \/ m \in e.c.to)
           \/ l[m].replies = 0 /\ m = e.c.on /\ e.type \in {"received", "success"} /\ e.c.to = thread[b]
    BY <1>00, <2>1, AppliedReplies
  <2> QED BY <1>1, <2>2, <2>3
<1>5. ASSUME Reads(b) PROVE Placed(b, m, Listed(b)) /\ (Listed(b)[m] # NoRow => table[m] # NoRow)
  <2>1. Listed(b)[m] = ShownOf(b, table[m]) /\ table[m] \in Row \cup {NoRow}
    BY <1>0 DEF Listed
  <2>2. Listed(b)[m] # NoRow => Belongs(b, table[m])
    BY <2>1, ShownIsShown
  <2>3. Belongs(b, table[m]) => /\ Listed(b)[m].replies = table[m].replies
                                /\ table[m] # NoRow /\ table[m].parent = thread[b]
    BY <2>1 DEF ShownOf, Belongs
  <2> QED BY <2>2, <2>3, Unreplied
<1>6. ASSUME NEW q \in Request, NEW c \in Command, l = Optimistic(view[b], c, q)
      PROVE  Placed(b, m, l) /\ (l[m] # NoRow => table[m] # NoRow)
  <2> HIDE DEF List
  <2>1. l[m] # NoRow => view[b][m] # NoRow /\ l[m].replies = view[b][m].replies
    BY <1>00, <1>6, OptimisticHas
  <2> QED BY <1>1, <2>1
<1> HIDE DEF Placed
<1>7. CASE ListMoves(b)
  BY <1>2, <1>3, <1>4, <1>5, <1>6, <1>7 DEF ListMoves, ListStays, Loses, Takes, Reads, Replaces, Snubs
<1>8. ASSUME NEW a \in Browser, NEW q \in Request, NEW c \in Command, Begins(b, a, q, c)
      PROVE  l \in fetch[b] \cup {view[b]} \/ l = Optimistic(view[b], c, q)
  BY <1>8 DEF Begins
<1>9. ASSUME NEW q \in Request, Acting(b, q) PROVE l \in fetch[b] \cup {view[b]}
  BY <1>9 DEF Acting, ListStays
<1> QED BY <1>0, <1>2, <1>3, <1>6, <1>7, <1>8, <1>9, ViewMoves

\* What a handler writes is one of the messages of its command.
LEMMA WritesOn ==
    ASSUME Core, NEW b \in Browser, NEW q \in Request, NEW m \in Message, Acting(b, q), table'[m] # table[m]
    PROVE  m \in On(op[q])
<1>1. table \in [Message -> Row \cup {NoRow}]
  BY TypesAre DEF Core
<1>2. ASSUME NEW n \in Message, NEW w \in Row, Saves(b, q, n, w) PROVE m \in On(op[q])
  <2>1. m = n
    BY <1>1, <1>2 DEF Saves
  <2> QED BY <1>2, <2>1 DEF Saves, On
<1> QED BY <1>2 DEF Acting, Goes, Quits, Tells, Dies

\* What is read is what stays there while nothing is in motion.
LEMMA SnapStep ==
    ASSUME CountInv, OverlapInv, SnapInv, [Next]_vars
    PROVE  SnapInv'
<1>0. Core /\ thread' = thread /\ table \in [Message -> Row \cup {NoRow}]
  BY Basis
<1> SUFFICES ASSUME NEW b \in Browser, NEW l \in fetch'[b], NEW m \in Message \ hazy'[b]
             PROVE  l[m] = ShownOf(b, table'[m]) /\ \A e \in InTransit(b)' : m \notin On(e.c)
  <2>1. ASSUME NEW a \in Browser, NEW n \in Message PROVE ShownOf(a, table[n])' = ShownOf(a, table'[n])
    BY <1>0 DEF ShownOf, Belongs
  <2>2. \A c : On(c)' = On(c)
    BY DEF On
  <2> QED BY <2>1, <2>2 DEF SnapInv
<1>1. CASE Reads(b) /\ table' = table
  <2>1. l[m] = ShownOf(b, table[m])
    BY <1>1 DEF Reads, Listed
  <2>2. InTransit(b)' = InTransit(b)
    BY <1>1 DEF Reads, InTransit
  <2> QED BY <1>1, <2>1, <2>2 DEF Reads
<1>2. CASE fetch'[b] = fetch[b] /\ hazy[b] \subseteq hazy'[b]
  <2>1. l[m] = ShownOf(b, table[m]) /\ \A e \in InTransit(b) : m \notin On(e.c)
    BY <1>2 DEF SnapInv
  <2>2. ~ActiveOn(m)
    BY <1>2 DEF OverlapInv
  <2>3. table'[m] = table[m]
    <3>1. ASSUME NEW q \in Request, Acting(b, q) PROVE table'[m] = table[m]
      BY <1>0, <2>2, <3>1, WritesOn DEF ActiveOn, Acting
    <3> QED BY <1>0, <3>1, ViewMoves DEF ListMoves, Begins
  <2>4. \A q \in InFlight, x \in Event : Adds(b, q, x) => m \notin On(x.c)
    BY <2>2 DEF Adds, ActiveOn
  <2> QED BY <1>0, <2>1, <2>3, <2>4, InboxMoves
<1>3. \/ Reads(b) /\ table' = table
      \/ fetch'[b] = {}
      \/ fetch'[b] = fetch[b] /\ hazy[b] \subseteq hazy'[b]
  <2>1. ASSUME NEW a, NEW q, NEW c, Begins(b, a, q, c)
        PROVE  fetch'[b] = {} \/ (fetch'[b] = fetch[b] /\ hazy[b] \subseteq hazy'[b])
    BY <2>1 DEF Begins
  <2> QED BY <1>0, <2>1, ViewMoves DEF ListMoves, ListStays, Loses, Takes, Replaces, Snubs, Acting
<1> QED BY <1>1, <1>2, <1>3

\* Only a fetch ends a doubt.
LEMMA Doubts ==
    ASSUME Core, NEW b \in Browser, NEW m \in doubt[b], m \notin doubt'[b], [Next]_vars
    PROVE  \E l \in List : Replaces(b, l) /\ m \notin hazy[b] /\ ListMoves(b)
<1>1. ASSUME NEW a, NEW q, NEW c, Begins(b, a, q, c) PROVE doubt[b] \subseteq doubt'[b]
  BY <1>1 DEF Begins
<1>2. ASSUME NEW q, Acting(b, q) PROVE doubt[b] \subseteq doubt'[b]
  BY <1>2 DEF Acting, Goes, Quits, Tells, Dies, Saves
<1>3. ListMoves(b)
  BY <1>1, <1>2, ViewMoves
<1>4. ASSUME ~\E l \in List : Replaces(b, l) PROVE doubt[b] \subseteq doubt'[b]
  BY <1>3, <1>4 DEF ListMoves, Loses, Takes, Reads, Snubs
<1> QED BY <1>3, <1>4 DEF Replaces

\* Who is in no doubt of a message that a request is on was not before.
LEMMA NoDoubt ==
    ASSUME Core, OverlapInv, [Next]_vars, NEW b \in Browser, NEW m \in Message, m \notin doubt'[b],
           NEW q \in InFlight, m \in On(op[q])
    PROVE  m \notin doubt[b]
<1> SUFFICES ASSUME m \in doubt[b] PROVE FALSE
  OBVIOUS
<1>1. PICK l \in List : Replaces(b, l) /\ m \notin hazy[b]
  BY Doubts
<1> QED BY <1>1 DEF Replaces, OverlapInv, ActiveOn

\* What the methods do to the columns of a copy.
LEMMA ExecutedColumns ==
    ASSUME NEW c \in Command, c.kind \in Kind, NEW q \in Request, NEW w \in Row, NEW v, v \in Execute(c, q, w)
    PROVE  /\ c.kind = "edit" => v.content = {q}
           /\ c.kind = "delete" => v.deleted
           /\ c.kind \in {"pin", "unpin"} => (v.pinned <=> c.kind = "pin")
           /\ c.kind # "edit" => v.content = w.content
           /\ c.kind # "delete" => (v.deleted <=> w.deleted)
           /\ c.kind \notin {"pin", "unpin"} => (v.pinned <=> w.pinned)
           /\ c.kind \notin {"react", "unreact"} => v.reactions = w.reactions
<1>1. CASE c.kind = "edit"
  <2>1. v = [w EXCEPT !.content = {q}]
    BY <1>1 DEF Execute, Edit
  <2> QED BY <1>1, <2>1 DEF Row
<1>2. CASE c.kind = "delete"
  <2>1. v = [w EXCEPT !.deleted = TRUE]
    BY <1>2 DEF Execute, SoftDelete
  <2> QED BY <1>2, <2>1 DEF Row
<1>3. CASE c.kind \in {"pin", "unpin"}
  <2>0. PICK p \in BOOLEAN : p = (c.kind = "pin")
    OBVIOUS
  <2>1. v = [w EXCEPT !.pinned = p]
    BY <1>3, <2>0 DEF Execute
  <2>2. v.pinned = p /\ v.content = w.content /\ v.deleted = w.deleted /\ v.reactions = w.reactions
    BY <2>1 DEF Row
  <2> QED BY <1>3, <2>0, <2>2
<1>4. CASE c.kind = "react"
  <2>1. v = [w EXCEPT !.reactions = @ \cup {c.by}]
    BY <1>4 DEF Execute
  <2> QED BY <1>4, <2>1 DEF Row
<1>5. CASE c.kind = "unreact"
  <2>1. v = [w EXCEPT !.reactions = @ \ {c.by}]
    BY <1>5 DEF Execute
  <2> QED BY <1>5, <2>1 DEF Row
<1> QED BY <1>1, <1>2, <1>3, <1>4, <1>5 DEF Kind

\* A request alone on a message writes a copy of what is there.
LEMMA CurrentStep ==
    ASSUME CountInv, CountInv', MatchInv, OverlapInv, OverlapInv', CurrentInv, [Next]_vars
    PROVE  CurrentInv'
<1>0. /\ Core /\ Core' /\ Staged /\ Present /\ Present' /\ thread' = thread
      /\ table \in [Message -> Row \cup {NoRow}] /\ SocketTypes
  BY Basis, TypesAre DEF Core
<1> SUFFICES ASSUME NEW b \in Browser, NEW q \in InFlight', NEW m \in Message, m \notin doubt'[b]
             PROVE  Written(q, m)' /\ Awaited(b, q, m)'
  BY DEF CurrentInv
<1>1. CASE m \notin On(op'[q])
  <2>1. op'[q].on # m /\ ~Copies(q, m)'
    BY <1>1 DEF On, Copies
  <2> QED BY <2>1 DEF Written, Awaited
<1>2. CASE m \in On(op'[q])
  <2>0. view[b] \in List /\ temp[b] \in SUBSET Request
    BY <1>0 DEF SocketTypes
  <2>1. q \in InFlight /\ op'[q] = op[q] => m \notin doubt[b] /\ Written(q, m) /\ Awaited(b, q, m)
    BY <1>0, <1>2, NoDoubt DEF CurrentInv
  <2>2. q \in InFlight /\ op'[q] = op[q] => \A r \in InFlight : m \in On(op[r]) => r = q
    BY <1>2, <2>1 DEF OverlapInv
  <2>3. ASSUME ListMoves(b)
        PROVE  Written(q, m)' /\ Awaited(b, q, m)'
    <3>1. q \in InFlight /\ pc'[q] = pc[q] /\ op'[q] = op[q] /\ loaded'[q] = loaded[q] /\ table' = table
      BY <2>3 DEF ListMoves, RequestStays, InFlight
    <3>2. Written(q, m)'
      BY <2>1, <3>1 DEF Written, Copies
    <3>3. CASE view'[b] = view[b] /\ temp'[b] = temp[b]
      BY <2>1, <3>1, <3>2, <3>3 DEF Awaited
    <3>4. ASSUME op[q].on = m, op[q].kind = "send", NEW e \in Event, Takes(b, e)
          PROVE  view'[b][m] = NoRow /\ (op[q].by = b => q \in temp'[b])
      <4>1. /\ e \in InTransit(b) /\ view'[b] = Apply(b, view[b], temp[b], e) /\ temp'[b] = Settled(temp[b], e)
        BY <3>4 DEF Takes
      <4>2. /\ e.type \in {"received", "success"} => e.c.on # m
            /\ e.type \in {"success", "error"} => q \notin e.row.content
        BY <3>1, <3>4, <4>1 DEF MatchInv, InFlight
      <4>3. view'[b][m] = NoRow
        <5> HIDE DEF List
        <5>1. view[b][m] = NoRow
          BY <2>1, <3>1, <3>4 DEF Awaited
        <5> QED BY <2>0, <4>1, <4>2, <5>1, AppliedReplies
      <4> QED BY <2>1, <3>1, <3>4, <4>1, <4>2, <4>3 DEF Settled, Awaited
    <3>5. ASSUME op[q].on = m, op[q].kind = "send", NEW p \in Request, NEW c \in Command, Snubs(b, p, c)
          PROVE  view'[b][m] = NoRow /\ (op[q].by = b => q \in temp'[b])
      <4>1. c.on # m /\ view[b][m] = NoRow
        BY <2>1, <3>1, <3>5 DEF Snubs, Acts, Awaited
      <4> HIDE DEF List
      <4>2. Optimistic(view[b], c, p)[m] = view[b][m]
        BY <2>0, <4>1, OptimisticHas
      <4> QED BY <2>1, <3>1, <3>5, <4>1, <4>2 DEF Snubs, Awaited
    <3>6. ASSUME NEW l, Replaces(b, l) PROVE FALSE
      BY <1>2, <3>1, <3>6 DEF Replaces, OverlapInv, ActiveOn
    <3> QED BY <2>3, <3>1, <3>2, <3>3, <3>4, <3>5, <3>6 DEF ListMoves, ListStays, Loses, Reads, Awaited
  <2>4. ASSUME NEW a \in Browser, NEW p \in Request, NEW c \in Command, Begins(b, a, p, c)
        PROVE  Written(q, m)' /\ Awaited(b, q, m)'
    <3>0. /\ p \notin InFlight /\ table' = table /\ op'[p] = c /\ pc'[p] \in {"channel", "find"}
          /\ \A r \in InFlight' : r # p => r \in InFlight /\ op'[r] = op[r] /\ pc'[r] = pc[r] /\ loaded'[r] = loaded[r]
      <4>1. table' = table /\ op'[p] = c /\ pc'[p] \in {"channel", "find"}
        BY <2>4 DEF Begins
      <4>2. /\ p \notin InFlight
            /\ \A r \in InFlight' : r # p => r \in InFlight /\ op'[r] = op[r] /\ pc'[r] = pc[r] /\ loaded'[r] = loaded[r]
        BY <2>4, NewFlight
      <4> QED BY <4>1, <4>2
    <3>1. view[b][m] = NoRow => view'[b][m] = NoRow
      <4> HIDE DEF List
      <4>1. Optimistic(view[b], c, p)[m] # NoRow => view[b][m] # NoRow
        BY <2>0, OptimisticHas
      <4> QED BY <2>4, <4>1 DEF Begins
    <3>2. temp[b] \subseteq temp'[b]
      BY <2>4 DEF Begins
    <3>3. CASE q = p
      <4>1. Written(q, m)'
        BY <3>0, <3>3 DEF Written, Copies
      <4>2. c.on = m /\ c.kind = "send" => view[b][m] = NoRow
        BY <1>0, <2>4 DEF Begins, Sends, Present, Kind
      <4>3. c.by = a /\ (c.kind = "send" /\ a = b => p \in temp'[b])
        BY <2>4 DEF Begins, Kind
      <4> QED BY <3>0, <3>1, <3>3, <4>1, <4>2, <4>3 DEF Awaited
    <3>4. CASE q # p
      BY <2>1, <3>0, <3>1, <3>2, <3>4 DEF Written, Awaited, Copies
    <3> QED BY <3>3, <3>4
  <2>5. ASSUME NEW p \in Request, Acting(b, p)
        PROVE  Written(q, m)' /\ Awaited(b, q, m)'
    <3>0. q \in InFlight /\ op'[q] = op[q] /\ view'[b] = view[b] /\ temp'[b] = temp[b] /\ q \in Request
      BY <2>5, NoNewFlights DEF Acting, ListStays, InFlight
    <3>1. Awaited(b, q, m)'
      BY <2>1, <3>0 DEF Awaited
    <3>2. CASE q # p
      <4>1. pc'[q] = pc[q] /\ loaded'[q] = loaded[q]
        BY <2>5, <3>0, <3>2 DEF Acting, RequestStays, InFlight
      <4>2. table'[m] = table[m]
        BY <1>0, <2>2, <2>5, <3>0, <3>2, WritesOn DEF Acting
      <4> QED BY <2>1, <3>0, <3>1, <4>1, <4>2 DEF Written, Copies
    <3>3. CASE q = p
      <4>0. op[q] \in Command /\ StageOf(q) /\ (op[q].kind # "send" => op[q].to = {})
        BY <1>0, <3>0, Owner DEF Staged
      <4>1. CASE Goes(b, q)
        <5>0. table' = table
          BY <4>1 DEF Goes
        <5>1. CASE pc'[q] \notin {"saveParent", "save", "emit"}
          BY <3>1, <3>0, <4>1, <5>1, <2>1, <5>0 DEF Written, Copies, Goes
        <5>2. CASE pc'[q] = "saveParent"
          <6>1. \E n \in op[q].to : loaded'[q] = table[n]
            BY <4>1, <5>2 DEF Goes
          <6> QED BY <3>1, <3>0, <5>0, <5>2, <6>1 DEF Written, Copies
        <5>3. CASE pc'[q] = "save"
          <6>1. loaded'[q] = table[op[q].on]
            BY <4>1, <5>3 DEF Goes
          <6> QED BY <3>1, <3>0, <5>0, <5>3, <6>1 DEF Written, Copies
        <5>4. CASE pc'[q] = "emit"
          <6>1. loaded'[q] = table[op[q].on] /\ pc[q] = "readBack"
            BY <4>1, <5>4 DEF Goes
          <6>2. op[q].kind \in {"send", "react"}
            BY <4>0, <6>1 DEF StageOf
          <6> QED BY <3>1, <2>1, <3>0, <5>0, <5>4, <6>1, <6>2 DEF Written, Copies
        <5> QED BY <3>1, <5>1, <5>2, <5>3, <5>4
      <4>2. ASSUME NEW n \in Message, NEW w \in Row, Saves(b, q, n, w) PROVE Written(q, m)'
        <5>0. table'[n] = w
          BY <1>0, <4>2 DEF Saves
        <5>1. CASE pc[q] = "saveParent"
          BY <3>0, <4>2, <5>1 DEF Saves, Written, Copies
        <5>2. CASE pc[q] = "saveMessage"
          BY <3>0, <4>2, <5>0, <5>2 DEF Saves, Written, Copies
        <5>3. CASE pc[q] = "save"
          <6>1. /\ op[q].on = n /\ op[q].kind \in Kind /\ loaded'[q] = w /\ w \in Execute(op[q], q, loaded[q])
                /\ pc'[q] \in {"readBack", "emit"}
            BY <4>2, <5>3 DEF Saves
          <6>2. loaded[q] \in Row
            BY <4>0, <5>3 DEF StageOf
          <6>3. /\ op[q].kind = "edit" => w.content = {q}
                /\ op[q].kind = "delete" => w.deleted
                /\ op[q].kind \in {"pin", "unpin"} => (w.pinned <=> op[q].kind = "pin")
            BY <3>0, <4>0, <6>1, <6>2, ExecutedColumns
          <6>4. op[q].kind # "send"
            BY <6>1 DEF Kind
          <6> QED BY <3>0, <5>0, <6>1, <6>3, <6>4 DEF Written, Copies
        <5> QED BY <4>2, <5>1, <5>2, <5>3 DEF Saves
      <4>3. Goes(b, q) \/ \E n \in Message, w \in Row : Saves(b, q, n, w)
        BY <2>5, <3>3 DEF Acting, Quits, Tells, Dies, InFlight
      <4> QED BY <3>1, <4>1, <4>2, <4>3
    <3> QED BY <3>2, <3>3
  <2> QED BY <1>0, <2>3, <2>4, <2>5, ViewMoves
<1> QED BY <1>1, <1>2

\* What is left when event f arrives is on its way before, and is no other
\* creation of the same message nor answer to the same request.
LEMMA LeftOver ==
    ASSUME Core, OnceInv, NEW b \in Browser, NEW f \in Event, Takes(b, f), NEW e \in InTransit(b)'
    PROVE  /\ e \in InTransit(b) /\ e \in Event
           /\ e.type \in {"received", "success"} /\ f.type \in {"received", "success"} => e.c.on # f.c.on
           /\ e.type \in {"success", "error"} /\ f.type \in {"success", "error"} => e.row.content # f.row.content
<1> DEFINE s == inbox[b]
<1>1. s \in Seq(Event) /\ s # <<>> /\ f = Head(s) /\ inbox'[b] = Tail(s)
  BY DEF Core, Typed, Takes
<1>2. PICK i \in 1..Len(Tail(s)) : e = Tail(s)[i]
  BY <1>1 DEF InTransit
<1>3. i + 1 \in 1..Len(s) /\ 1 \in 1..Len(s) /\ i + 1 # 1 /\ Tail(s)[i] = s[i + 1] /\ Head(s) = s[1] /\ s[i + 1] \in Event
  BY <1>1
<1> QED BY <1>1, <1>2, <1>3 DEF OnceInv, InTransit

\* What is told is new to who is in no doubt, and its temp- message is there.
LEMMA ComingStep ==
    ASSUME CountInv, MatchInv, OnceInv, SnapInv, CurrentInv, ComingInv, OverlapInv, [Next]_vars
    PROVE  ComingInv'
<1>0. Core /\ SocketTypes
  BY Basis, TypesAre DEF Core
<1> SUFFICES ASSUME NEW b \in Browser, NEW e \in InTransit(b)', e.c.on \notin doubt'[b]
             PROVE  /\ e.type \in {"received", "success"} => view'[b][e.c.on] = NoRow
                    /\ e.type = "received" => \E q \in Request : e.row = Created(q, e.c.by, e.c.to)
                    /\ e.type = "success" => e.row.content \subseteq temp'[b]
  BY DEF ComingInv, Created
<1> DEFINE m == e.c.on
<1>1. CASE e \in InTransit(b)
  <2>0. e \in Event /\ m \in Message /\ (e.type \in {"success", "error"} => \E q \in Request : e.row.content = {q})
        /\ view[b] \in List /\ temp[b] \in SUBSET Request
    BY <1>0, <1>1, InboxMoves, EventFields DEF SocketTypes
  <2>1. m \notin doubt[b]
    <3> SUFFICES ASSUME m \in doubt[b] PROVE FALSE
      OBVIOUS
    <3>1. PICK l \in List : Replaces(b, l) /\ m \notin hazy[b]
      BY <1>0, Doubts
    <3> QED BY <1>1, <2>0, <3>1 DEF Replaces, SnapInv, On
  <2>2. /\ e.type \in {"received", "success"} => view[b][m] = NoRow
        /\ e.type = "received" => \E q \in Request : e.row = Created(q, e.c.by, e.c.to)
        /\ e.type = "success" => e.row.content \subseteq temp[b]
    BY <1>1, <2>1 DEF ComingInv
  <2>3. ASSUME NEW f \in Event, Takes(b, f)
        PROVE  /\ e.type \in {"received", "success"} => view'[b][m] = NoRow
               /\ e.type = "success" => e.row.content \subseteq temp'[b]
    <3>1. view'[b] = Apply(b, view[b], temp[b], f) /\ temp'[b] = Settled(temp[b], f)
      BY <2>3 DEF Takes
    <3>2. /\ e.type \in {"received", "success"} /\ f.type \in {"received", "success"} => m # f.c.on
          /\ e.type \in {"success", "error"} /\ f.type \in {"success", "error"} => e.row.content # f.row.content
      BY <1>0, <2>3, LeftOver
    <3>3. e.type \in {"received", "success"} => view'[b][m] = NoRow
      <4> HIDE DEF List, m
      <4> QED BY <2>0, <2>2, <3>1, <3>2, AppliedReplies
    <3>4. f.type \in {"success", "error"} => \E q \in Request : f.row.content = {q}
      BY EventFields
    <3>5. e.type = "success" => e.row.content \subseteq temp'[b]
      BY <2>0, <2>2, <3>1, <3>2, <3>4 DEF Settled
    <3> QED BY <3>3, <3>5
  <2>4. ASSUME NEW q \in Request, NEW c \in Command PROVE view[b][m] = NoRow => Optimistic(view[b], c, q)[m] = NoRow
    <3> HIDE DEF List, m
    <3> QED BY <2>0, OptimisticHas
  <2>5. ASSUME NEW l \in List, Replaces(b, l) PROVE FALSE
    BY <1>1, <2>0, <2>5 DEF Replaces, SnapInv, On
  <2> HIDE DEF m, List
  <2>6. ASSUME view'[b][m] = view[b][m] \/ \E q \in Request, c \in Command : view'[b] = Optimistic(view[b], c, q),
               temp[b] \subseteq temp'[b]
        PROVE  /\ e.type \in {"received", "success"} => view'[b][m] = NoRow
               /\ e.type = "success" => e.row.content \subseteq temp'[b]
    BY <2>2, <2>4, <2>6
  <2>7. ASSUME NEW a \in Browser, NEW q \in Request, NEW c \in Command, Begins(b, a, q, c)
        PROVE  /\ view'[b] = view[b] \/ view'[b] = Optimistic(view[b], c, q)
               /\ temp[b] \subseteq temp'[b]
    BY <2>7 DEF Begins
  <2>8. CASE ListMoves(b)
    BY <2>2, <2>3, <2>5, <2>6, <2>8 DEF ListMoves, ListStays, Loses, Reads, Snubs, m
  <2>9. CASE \E q : Acting(b, q)
    BY <2>2, <2>6, <2>9 DEF Acting, ListStays, m
  <2> QED BY <1>0, <2>2, <2>6, <2>7, <2>8, <2>9, ViewMoves DEF m
<1>2. ASSUME NEW q \in InFlight, NEW x \in Event, Adds(b, q, x), e = x
      PROVE  /\ e.type \in {"received", "success"} => view'[b][m] = NoRow
             /\ e.type = "received" => \E r \in Request : e.row = Created(r, e.c.by, e.c.to)
             /\ e.type = "success" => e.row.content \subseteq temp'[b]
  <2>1. /\ e.c = op[q] /\ m \in Message /\ view'[b] = view[b] /\ temp'[b] = temp[b] /\ q \in Request
        /\ e.type \in {"received", "success"} => op[q].kind = "send" /\ pc[q] = "emit"
        /\ e.type = "received" => e.row = loaded[q]
        /\ e.type = "success" => e.row.content = {q} /\ op[q].by = b
    BY <1>2, EventFields DEF Adds, Acting, ListStays, Told, InFlight
  <2>2. m \notin doubt[b]
    BY <1>0, <1>2, <2>1, NoDoubt DEF On
  <2>3. Written(q, m) /\ Awaited(b, q, m)
    BY <2>1, <2>2 DEF CurrentInv
  <2> QED BY <2>1, <2>3 DEF Written, Awaited
<1> QED BY <1>0, <1>1, <1>2, InboxMoves

\* What there is none of in a sequence, its items are none of, and its rest.
LEMMA NoneItems ==
    ASSUME NEW S, NEW s \in Seq(S), NEW W
    PROVE  /\ NoneIn(s, W) <=> \A e \in Items(s) : e \notin W
           /\ s # <<>> /\ NoneIn(s, W) => Head(s) \notin W /\ NoneIn(Tail(s), W)
           /\ \A x \in S : x \notin W /\ NoneIn(s, W) => NoneIn(Append(s, x), W)
<1>1. /\ NoneIn(s, W) <=> \A e \in Items(s) : e \notin W
      /\ s # <<>> /\ NoneIn(s, W) => Head(s) \notin W /\ NoneIn(Tail(s), W)
      /\ \A x \in S : x \notin W => (NoneIn(s, W) => NoneIn(Append(s, x), W))
      /\ LastIn(s, W, {}) => \E e \in Items(s) : e \in W \cap {}
  BY LastItems
<1> QED BY <1>1

\* Something comes, or is there.
LEMMA ComesOn ==
    ASSUME NEW S, NEW s \in Seq(S), NEW W, NEW G, NEW v, NEW U
    PROVE  /\ NoneIn(s, W) /\ v \in U => Comes(s, W, G, v, U)
           /\ NoneIn(s, W) /\ Comes(s, W, G, v, U) => v \in U
           /\ \A x \in S : x \in W /\ x \in G => Comes(Append(s, x), W, G, v, U)
           /\ \A x \in S : x \notin W /\ Comes(s, W, G, v, U) => Comes(Append(s, x), W, G, v, U)
<1>1. NoneIn(s, W) => ~LastIn(s, W, G)
  BY DEF NoneIn, LastIn
<1> QED BY <1>1, LastItems DEF Comes

\* Whether b complies after a step.
LEMMA ComplyNext ==
    ASSUME thread' = thread, NEW b, NEW m, NEW k
    PROVE  /\ Comply(b, m, k)' <=>
                Comes(inbox'[b], Sets(b, m, k), Brings(k, table'[m]), view'[b][m], Has(k, table'[m]))
           /\ Creations(m)' = Creations(m)
<1>1. Sets(b, m, k)' = Sets(b, m, k)
  BY DEF Sets, Creations, IsDeafTo
<1>2. Brings(k, table[m])' = Brings(k, table'[m]) /\ Has(k, table[m])' = Has(k, table'[m])
  BY DEF Brings, Has
<1>3. Creations(m)' = Creations(m)
  BY DEF Creations
<1> QED BY <1>1, <1>2, <1>3 DEF Comply, Comes, NoneIn, LastIn

\* What is listed of a row has every column of it.
LEMMA ListedHas ==
    ASSUME NEW b \in Browser, NEW row \in Row, row.parent = thread[b], NEW k \in Column
    PROVE  ShownOf(b, row) \in Has(k, row)
<1>1. CASE row.deleted
  <2>1. ShownOf(b, row) = NoRow
    BY <1>1 DEF ShownOf, Belongs
  <2> QED BY <1>1, <2>1, NothingHas
<1>2. CASE ~row.deleted
  <2>1. Belongs(b, row)
    BY <1>2, NoRowIsNone DEF Belongs
  <2>2. ShownOf(b, row) \in Shown
    BY <2>1, ShownIsShown
  <2>3. /\ ShownOf(b, row).content = row.content /\ ShownOf(b, row).pinned = row.pinned
        /\ ShownOf(b, row).reactions = row.reactions
    BY <2>1 DEF ShownOf
  <2> QED BY <1>2, <2>2, <2>3 DEF Has, Column
<1> QED BY <1>1, <1>2

\* A column as a list has it, or is about to.
ColumnAgrees(b, m, k) == k = "there" \/ ~table[m].deleted => Excused(m, k) \/ Comply(b, m, k)

\* A message of the list of b of which b is in no doubt, before a step.
Sure(b, m) == m \notin doubt[b] => Agreeing(b, m)

\* The moves of a list keep it so.
LEMMA ColumnsByLists ==
    ASSUME CountInv, MatchInv, SnapInv, ComingInv, [Next]_vars,
           NEW b \in Browser, NEW m \in Message, Sure(b, m), m \notin doubt'[b],
           table[m] # NoRow, table[m].parent = thread[b], ListMoves(b), NEW k \in Column
    PROVE  ColumnAgrees(b, m, k)'
<1>0. /\ Core /\ SocketTypes /\ thread' = thread /\ table' = table /\ table[m] \in Row
      /\ inbox[b] \in Seq(Event) /\ view[b] \in List /\ temp[b] \in SUBSET Request
  BY Basis, TypesAre DEF Core, SocketTypes, ListMoves
<1> SUFFICES ASSUME k = "there" \/ ~table[m].deleted, ~Excused(m, k)'
             PROVE  Comes(inbox'[b], Sets(b, m, k), Brings(k, table[m]), view'[b][m], Has(k, table[m]))
  BY <1>0, ComplyNext DEF ColumnAgrees
<1>1. ~Excused(m, k)
  <2>1. ASSUME NEW q \in InFlight PROVE q \in InFlight' /\ op'[q] = op[q] /\ pc'[q] = pc[q]
    BY DEF ListMoves, RequestStays, InFlight
  <2> QED BY <1>0, <2>1 DEF Excused
<1>2. ASSUME m \notin doubt[b] PROVE Comply(b, m, k)
  BY <1>1, <1>2 DEF Sure, Agreeing
<1> DEFINE s == inbox[b]
           W == Sets(b, m, k)
           G == Brings(k, table[m])
           U == Has(k, table[m])
<1>3. m \notin doubt[b] => Comes(s, W, G, view[b][m], U)
  BY <1>2 DEF Comply
<1>4. \A e \in W : e \in Event /\ e.c.on = m
  BY DEF Sets, Creations
<1>5. (\A e \in InTransit(b) : m \notin On(e.c)) => NoneIn(s, W)
  <2>1. InTransit(b) = Items(s)
    BY DEF InTransit, Items
  <2>2. \A e \in Items(s) : e \in W => e.c.on = m
    BY <1>4
  <2> HIDE DEF W, G, U
  <2>3. NoneIn(s, W) <=> \A e \in Items(s) : e \notin W
    BY <1>0, NoneItems
  <2> QED BY <2>1, <2>2, <2>3 DEF On
<1> HIDE DEF W, G, U
<1>6. CASE view'[b][m] = view[b][m] /\ inbox'[b] = s /\ m \notin doubt[b]
  BY <1>3, <1>6 DEF W, G, U
<1>7. CASE Loses(b)
  <2>1. m \notin doubt[b] /\ NoneIn(s, W) /\ view'[b] = view[b] /\ inbox'[b] = <<>>
    BY <1>5, <1>7 DEF Loses, ListStays
  <2>2. view[b][m] \in U
    BY <1>0, <1>3, <2>1, ComesOn
  <2> QED BY <2>1, <2>2 DEF Comes, NoneIn, W, G, U
<1>8. ASSUME NEW e \in Event, Takes(b, e) PROVE Comes(inbox'[b], W, G, view'[b][m], U)
  <2>1. /\ e \in InTransit(b) /\ s # <<>> /\ e = Head(s) /\ inbox'[b] = Tail(s) /\ m \notin doubt[b]
        /\ view'[b] = Apply(b, view[b], temp[b], e)
    BY <1>8 DEF Takes
  <2>2. CASE NoneIn(s, W) /\ view[b][m] \in U
    <3>1. e \notin W /\ NoneIn(Tail(s), W)
      <4>1. s # <<>> /\ NoneIn(s, W) => Head(s) \notin W /\ NoneIn(Tail(s), W)
        BY <1>0, NoneItems
      <4> QED BY <2>1, <2>2, <4>1
    <3>2. view'[b][m] \in U
      <4> HIDE DEF List
      <4> QED BY <1>0, <2>1, <2>2, <3>1, AppliedHas DEF W, U
    <3> QED BY <2>1, <3>1, <3>2 DEF Comes
  <2>3. CASE LastIn(Tail(s), W, G)
    BY <2>1, <2>3 DEF Comes
  <2>4. CASE e \in W /\ e \in G /\ NoneIn(Tail(s), W)
    <3>1. e.c.on = m
      BY <1>4, <2>4
    <3>2. e.type \in {"received", "success"} => e.c.to = thread[b]
      BY <2>1, <3>1 DEF MatchInv
    <3>3. /\ e.type = "received" => \E q \in Request : e.row = Created(q, e.c.by, e.c.to)
          /\ e.type = "success" => e.row.content \subseteq temp[b]
      BY <2>1, <3>1 DEF ComingInv
    <3>4. view'[b][m] \in U
      <4> HIDE DEF List
      <4> QED BY <1>0, <2>1, <2>4, <3>2, <3>3, AppliedBrings DEF W, G, U
    <3> QED BY <2>1, <2>4, <3>4 DEF Comes
  <2>5. LastIn(s, W, G) => LastIn(Tail(s), W, G) \/ (Head(s) \in W \cap G /\ NoneIn(Tail(s), W))
    BY <1>0, <2>1, LastItems
  <2> QED BY <1>3, <2>1, <2>2, <2>3, <2>4, <2>5 DEF Comes
<1>9. ASSUME NEW l \in List, Replaces(b, l) PROVE Comes(inbox'[b], W, G, view'[b][m], U)
  <2>1. /\ l[m] = ShownOf(b, table[m]) /\ \A e \in InTransit(b) : m \notin On(e.c)
        /\ view'[b] = l /\ inbox'[b] = s
    BY <1>9 DEF Replaces, SnapInv
  <2>2. view'[b][m] \in U
    BY <1>0, <2>1, ListedHas DEF U
  <2> QED BY <1>5, <2>1, <2>2 DEF Comes
<1>10. ASSUME NEW q \in Request, NEW c \in Command, Snubs(b, q, c)
       PROVE  view'[b][m] = view[b][m] /\ inbox'[b] = s /\ m \notin doubt[b]
  <2>1. c.on # m /\ view'[b] = Optimistic(view[b], c, q) /\ inbox'[b] = s /\ m \notin doubt[b]
    BY <1>10 DEF Snubs
  <2> HIDE DEF List
  <2> QED BY <1>0, <2>1, OptimisticHas
<1>11. Comes(inbox'[b], W, G, view'[b][m], U) 
  <2>1. CASE ListStays(b) /\ inbox'[b] = inbox[b] /\ doubt'[b] = doubt[b]
    BY <1>6, <2>1 DEF ListStays, W, G, U
  <2>2. CASE Reads(b)
    BY <1>6, <2>2 DEF Reads, W, G, U
  <2>3. ASSUME NEW q \in Request, NEW c \in Command, Snubs(b, q, c) PROVE Comes(inbox'[b], W, G, view'[b][m], U)
    BY <1>6, <1>10, <2>3 DEF W, G, U
  <2>4. CASE Loses(b)
    BY <1>7, <2>4 DEF W, G, U
  <2> QED BY <1>8, <1>9, <2>1, <2>2, <2>3, <2>4 DEF ListMoves
<1> QED BY <1>11 DEF W, G, U

\* The start of a call keeps a column so, or changes it.
LEMMA ColumnsByCalls ==
    ASSUME CountInv, [Next]_vars,
           NEW b \in Browser, NEW m \in Message, Sure(b, m), m \notin doubt'[b],
           table[m] # NoRow, table[m].parent = thread[b], NEW k \in Column,
           NEW a \in Browser, NEW q \in Request, NEW c \in Command, Begins(b, a, q, c)
    PROVE  ColumnAgrees(b, m, k)'
<1>0. /\ thread' = thread /\ table' = table /\ inbox'[b] = inbox[b] /\ m \notin doubt[b]
      /\ inbox[b] \in Seq(Event) /\ view[b] \in List
      /\ view'[b] = view[b] \/ view'[b] = Optimistic(view[b], c, q)
  <2>1. inbox[b] \in Seq(Event) /\ view[b] \in List
    BY Basis, TypesAre DEF Core, SocketTypes
  <2> QED BY <2>1, Basis DEF Begins
<1> SUFFICES ASSUME k = "there" \/ ~table[m].deleted, ~Excused(m, k)'
             PROVE  Comes(inbox[b], Sets(b, m, k), Brings(k, table[m]), view'[b][m], Has(k, table[m]))
  BY <1>0, ComplyNext DEF ColumnAgrees
<1>1. ~Excused(m, k)
  <2>1. ASSUME NEW r \in InFlight PROVE r \in InFlight' /\ op'[r] = op[r] /\ pc'[r] = pc[r]
    BY DEF Begins, RequestStays, InFlight
  <2> QED BY <1>0, <2>1 DEF Excused
<1>2. Comes(inbox[b], Sets(b, m, k), Brings(k, table[m]), view[b][m], Has(k, table[m]))
  BY <1>0, <1>1 DEF Sure, Agreeing, Comply
<1>3. c.on = m /\ c.kind \in Doing(k) => c.kind = "delete" /\ table[m].deleted
  <2>1. q \in InFlight' /\ op'[q] = c /\ (c.kind # "send" \/ table[c.on] = NoRow)
    <3>1. q \in InFlight' /\ op'[q] = c
      BY NewFlight
    <3>2. c.kind = "send" => table[c.on] = NoRow
      BY DEF Begins, Sends, Kind
    <3> QED BY <3>1, <3>2
  <2> QED BY <1>0, <2>1 DEF Excused
<1>4. view[b][m] \in Has(k, table[m]) => view'[b][m] \in Has(k, table[m])
  <2> HIDE DEF List
  <2>1. CASE c.on # m \/ c.kind \notin Doing(k)
    BY <1>0, <2>1, OptimisticHas
  <2>2. CASE c.on = m /\ c.kind \in Doing(k)
    <3>1. k = "there" /\ table[m].deleted
      BY <1>3, <2>2 DEF Doing, Column
    <3>2. Optimistic(view[b], c, q)[m] = NoRow
      BY <1>0, <1>3, <2>2, OptimisticHas
    <3>3. NoRow \in Has(k, table[m])
      BY <3>1, NothingHas
    <3> QED BY <1>0, <3>2, <3>3
  <2> QED BY <2>1, <2>2
<1> QED BY <1>2, <1>4 DEF Comes

\* Rows that have a column in common.
LEMMA SameColumn ==
    ASSUME NEW k \in Column, NEW v \in Row, NEW w \in Row,
           k = "there" => (v.deleted <=> w.deleted), k = "content" => v.content = w.content,
           k = "pinned" => (v.pinned <=> w.pinned), k = "reactions" => v.reactions = w.reactions
    PROVE  Brings(k, v) = Brings(k, w) /\ Has(k, v) = Has(k, w)
<1>1. CASE k = "there"
  BY <1>1 DEF Brings, Has
<1>2. CASE k = "content"
  BY <1>2 DEF Brings, Has
<1>3. CASE k = "pinned"
  BY <1>3 DEF Brings, Has
<1>4. CASE k = "reactions"
  BY <1>4 DEF Brings, Has
<1> QED BY <1>1, <1>2, <1>3, <1>4 DEF Column

\* What a request tells when it is done sets the columns it changed to what the
\* table has, and a new message or its answer sets all of them.
LEMMA ToldColumn ==
    ASSUME NEW b \in Browser, NEW q \in Request, NEW m \in Message, op[q] \in Command, op[q].on = m,
           pc[q] = "emit", Written(q, m), NEW k \in Column, NEW x \in Event, x.c = op[q]
    PROVE  /\ x = Told(op[q], q, loaded[q]) =>
                /\ op[q].kind \in Doing(k) \cup {"send"} =>
                      x \in Brings(k, table[m]) /\ (x \in Sets(b, m, k) \/ IsDeafTo(b, x.type))
                /\ op[q].kind \notin Doing(k) \cup {"send"} => x \notin Sets(b, m, k)
           /\ x.type = "success" /\ x.row.content = {q} /\ op[q].kind = "send" =>
                x \in Brings(k, table[m]) /\ x \in Sets(b, m, k)
<1>0. op[q].kind \in {"send"} \cup Kind
  BY DEF Command
<1>1. CASE op[q].kind = "send"
  <2>1. /\ table[m] = Created(q, op[q].by, op[q].to) /\ loaded[q] = table[m]
    BY <1>1 DEF Written
  <2>2. table[m].content = {q} /\ table[m].pinned = FALSE /\ table[m].deleted = FALSE /\ table[m].reactions = {}
    BY <2>1 DEF Created
  <2>3. x = Told(op[q], q, loaded[q]) => x.type = "received" /\ x.row = loaded[q]
    BY <1>1 DEF Told
  <2>4. ASSUME x.type \in {"received", "success"}, x.row.content = {q}
        PROVE  x \in Brings(k, table[m]) /\ x \in Sets(b, m, k)
    <3>1. x \in Sets(b, m, k)
      BY <2>4 DEF Sets, Creations
    <3>2. x \in Brings(k, table[m])
      BY <2>2, <2>4 DEF Brings, Column
    <3> QED BY <3>1, <3>2
  <2> QED BY <1>1, <2>1, <2>2, <2>3, <2>4
<1>2. ASSUME op[q].kind \in Kind, x = Told(op[q], q, loaded[q])
      PROVE  /\ op[q].kind \in Doing(k) <=> x.type = Setter(k)
             /\ x.type \notin {"received", "success"}
  <2>1. CASE op[q].kind = "edit"
    BY <1>2, <2>1 DEF Told, Doing, Setter, Column
  <2>2. CASE op[q].kind = "delete"
    BY <1>2, <2>2 DEF Told, Doing, Setter, Column
  <2>3. CASE op[q].kind \in {"pin", "unpin"}
    BY <1>2, <2>3 DEF Told, Doing, Setter, Column
  <2>4. CASE op[q].kind \in {"react", "unreact"}
    BY <1>2, <2>4 DEF Told, Doing, Setter, Column
  <2> QED BY <1>2, <2>1, <2>2, <2>3, <2>4 DEF Kind
<1>3. ASSUME op[q].kind \in Kind, x = Told(op[q], q, loaded[q]), op[q].kind \in Doing(k)
      PROVE  x \in Brings(k, table[m])
  <2>1. CASE k = "there"
    BY <1>3, <2>1 DEF Doing, Told, Brings, Written, Kind
  <2>2. CASE k = "content"
    <3>1. op[q].kind = "edit"
      BY <1>3, <2>2 DEF Doing
    <3>2. x.row.content = {q} /\ table[m].content = {q}
      BY <1>3, <3>1 DEF Told, Written
    <3> QED BY <2>2, <3>2 DEF Brings
  <2>3. CASE k = "pinned"
    <3>1. op[q].kind \in {"pin", "unpin"}
      BY <1>3, <2>3 DEF Doing
    <3>2. x.type = "pinned" /\ x.c.kind = op[q].kind /\ (table[m].pinned <=> op[q].kind = "pin")
      BY <1>3, <3>1 DEF Told, Written
    <3> QED BY <2>3, <3>2 DEF Brings
  <2>4. CASE k = "reactions"
    <3>1. op[q].kind \in {"react", "unreact"}
      BY <1>3, <2>4 DEF Doing
    <3>2. x.type = "reactions" /\ x.row.reactions = table[m].reactions
      BY <1>3, <3>1 DEF Told, Written
    <3> QED BY <2>4, <3>2 DEF Brings
  <2> QED BY <2>1, <2>2, <2>3, <2>4 DEF Column
<1>4. ASSUME op[q].kind \in Kind, x = Told(op[q], q, loaded[q])
      PROVE  /\ op[q].kind \in Doing(k) => x \in Sets(b, m, k) \/ IsDeafTo(b, x.type)
             /\ op[q].kind \notin Doing(k) => x \notin Sets(b, m, k)
  BY <1>2, <1>4 DEF Sets, Creations
<1>5. op[q].kind \in Kind => op[q].kind # "send"
  BY DEF Kind
<1> QED BY <1>0, <1>1, <1>3, <1>4, <1>5

\* So do the handlers: who tells is the one that changed a column, and who changes
\* it starts from what is there.
LEMMA ColumnsByHandlers ==
    ASSUME CountInv, SendInv, MatchInv, OverlapInv, CurrentInv, [Next]_vars,
           NEW b \in Browser, NEW m \in Message, Sure(b, m), m \notin doubt'[b],
           table'[m] # NoRow, table'[m].parent = thread[b], NEW k \in Column,
           NEW q \in Request, Acting(b, q)
    PROVE  ColumnAgrees(b, m, k)'
<1>0. /\ Core /\ Staged /\ Present /\ Fresh /\ thread' = thread /\ view'[b] = view[b]
      /\ q \in InFlight /\ op[q] \in Command /\ StageOf(q)
      /\ table \in [Message -> Row \cup {NoRow}] /\ table' \in [Message -> Row \cup {NoRow}]
      /\ inbox[b] \in Seq(Event)
  BY Basis DEF Acting, ListStays, Core, Typed, Staged
<1>1. m \notin doubt[b]
  BY DEF Acting, Goes, Quits, Tells, Dies, Saves
<1>2. table[m] # NoRow => table[m] \in Row /\ table[m].parent = thread[b]
  <2>1. table[m] # NoRow => table'[m].parent = table[m].parent
    BY Basis
  <2> QED BY <1>0, <2>1
<1> SUFFICES ASSUME k = "there" \/ ~table'[m].deleted, ~Excused(m, k)'
             PROVE  Comes(inbox'[b], Sets(b, m, k), Brings(k, table'[m]), view[b][m], Has(k, table'[m]))
  BY <1>0, ComplyNext DEF ColumnAgrees
<1> DEFINE s == inbox[b]
           W == Sets(b, m, k)
           Excuse(r) == /\ op[r].on = m /\ op[r].kind \in Doing(k)
                        /\ op[r].kind = "delete" /\ pc[r] = "find" => ~table[m].deleted
\* others that are on m have no part in the step
<1>3. ASSUME NEW r \in InFlight, r # q, Excuse(r) PROVE FALSE
  <2>1. m \notin On(op[q])
    BY <1>0, <1>1, <1>3 DEF OverlapInv, On
  <2>2. table'[m] = table[m]
    BY <1>0, <2>1, WritesOn
  <2>3. r \in InFlight' /\ op'[r] = op[r] /\ pc'[r] = pc[r]
    BY <1>3 DEF Acting, RequestStays, InFlight
  <2> QED BY <1>3, <2>2, <2>3 DEF Excused
\* q itself goes on
<1>4. op[q].on = m /\ op[q].kind \in Doing(k) => q \notin InFlight'
  <2>1. q \in InFlight' => op'[q] = op[q] /\ pc'[q] # "find"
    BY DEF Acting, Goes, Quits, Tells, Dies, Saves, InFlight
  <2> QED BY <2>1 DEF Excused
<1>5. ~Excused(m, k) <=> ~Excuse(q)
  BY <1>0, <1>3 DEF Excused
<1>6. ASSUME table[m] # NoRow, k = "there" \/ ~table[m].deleted, ~Excuse(q)
      PROVE  Comes(s, W, Brings(k, table[m]), view[b][m], Has(k, table[m]))
  BY <1>1, <1>2, <1>5, <1>6 DEF Sure, Agreeing, Comply
<1>7. \A x \in Event : x \in W => x.c.on = m /\ x.type # "error"
  <2>1. Setter(k) # "error"
    BY DEF Setter, Column
  <2> QED BY <2>1 DEF Sets, Creations
<1>8. ASSUME NEW x \in Event, x \notin W, inbox'[b] = Append(s, x), NEW G, NEW U, Comes(s, W, G, view[b][m], U)
      PROVE  Comes(inbox'[b], W, G, view[b][m], U)
  <2> HIDE DEF W
  <2> QED BY <1>0, <1>8, ComesOn
<1>9. CASE Goes(b, q)
  <2>1. table' = table /\ inbox'[b] = s /\ ~Excuse(q)
    BY <1>4, <1>9, <1>0 DEF Goes, InFlight
  <2> QED BY <1>6, <2>1
<1>10. CASE Quits(b, q)
  <2>1. table' = table
    BY <1>10 DEF Quits
  <2>2. ~Excuse(q)
    <3> SUFFICES ASSUME Excuse(q) PROVE FALSE
      OBVIOUS
    <3>1. CASE pc[q] = "channel"
      BY <1>0, <2>1, <3>1 DEF Fresh, Unsaved
    <3>2. CASE pc[q] = "find" /\ Execute(op[q], q, table[m]) = {}
      <4>1. op[q].kind \in Kind
        BY <1>0, <3>2 DEF StageOf
      <4>2. op[q].kind \in {"edit", "delete"}
        BY <3>2, <4>1 DEF Execute, Kind
      <4>3. table[m].deleted
        BY <3>2, <4>2 DEF Execute, Edit, SoftDelete
      <4>4. op[q].kind = "delete" \/ k # "there"
        BY <4>2 DEF Doing
      <4> QED BY <2>1, <3>2, <4>3, <4>4
    <3> QED BY <1>10, <3>1, <3>2 DEF Quits
  <2>3. Comes(s, W, Brings(k, table[m]), view[b][m], Has(k, table[m]))
    BY <1>6, <2>1, <2>2
  <2>4. CASE inbox'[b] = s
    BY <2>1, <2>3, <2>4
  <2>5. CASE inbox'[b] = Append(s, Answer("error", op[q], q))
    <3>1. Answer("error", op[q], q) \in Event /\ Answer("error", op[q], q).type = "error"
      BY <1>0, AnswerIsEvent
    <3> QED BY <1>7, <1>8, <2>1, <2>3, <2>5, <3>1
  <2> QED BY <1>10, <2>4, <2>5 DEF Quits
<1>11. CASE Tells(b, q)
  <2>0. table' = table /\ pc[q] = "emit"
    BY <1>11 DEF Tells
  <2> DEFINE x == Told(op[q], q, loaded[q])
             y == Answer("success", op[q], q)
             G == Brings(k, table[m])
             U == Has(k, table[m])
  <2>1. /\ x \in Event /\ x.c = op[q] /\ y \in Event /\ y.c = op[q] /\ y.type = "success" /\ y.row.content = {q}
    BY <1>0, <2>0, ToldIsEvent, AnswerIsEvent DEF StageOf
  <2>2. CASE op[q].on # m
    <3>1. Comes(s, W, G, view[b][m], U) /\ x \notin W /\ y \notin W
      BY <1>6, <1>7, <2>0, <2>1, <2>2
    <3> QED BY <1>8, <1>11, <2>0, <2>1, <3>1 DEF Tells
  <2>3. CASE op[q].on = m
    <3>0. Written(q, m) /\ m \in On(op[q])
      BY <1>0, <1>1, <2>3 DEF CurrentInv, On
    <3>1. \/ inbox'[b] = Append(s, x) /\ (b = op[q].by \/ ~IsDeafTo(b, x.type))
          \/ inbox'[b] = Append(s, y) /\ op[q].kind = "send"
      BY <1>11, <3>0 DEF Tells
    <3> HIDE DEF x, y, G, U, W
    <3>2. CASE inbox'[b] = Append(s, y) /\ op[q].kind = "send"
      <4>1. y \in W /\ y \in G
        BY <2>0, <1>0, <2>1, <2>3, <3>0, <3>2, ToldColumn DEF W, G
      <4>2. Comes(inbox'[b], W, G, view[b][m], U)
        BY <1>0, <2>1, <3>2, <4>1, ComesOn
      <4> QED BY <2>0, <4>2 DEF W, G, U
    <3>3. CASE inbox'[b] = Append(s, x) /\ x \in W /\ x \in G
      <4>2. Comes(inbox'[b], W, G, view[b][m], U)
        BY <1>0, <2>1, <3>3, ComesOn
      <4> QED BY <2>0, <4>2 DEF W, G, U
    <3>4. CASE inbox'[b] = Append(s, x) /\ op[q].kind \notin Doing(k) \cup {"send"}
      <4>1. x \notin W
        BY <2>0, <1>0, <2>1, <2>3, <3>0, <3>4, ToldColumn DEF W, x
      <4>2. Comes(s, W, G, view[b][m], U)
        BY <1>6, <2>0, <3>4 DEF W, G, U
      <4>3. Comes(inbox'[b], W, G, view[b][m], U)
        BY <1>8, <2>1, <3>4, <4>1, <4>2
      <4> QED BY <2>0, <4>3 DEF W, G, U
    \* what b has pinned itself
    <3>5. CASE inbox'[b] = Append(s, x) /\ op[q].kind \in Doing(k) \cup {"send"} /\ x \notin W
      <4>1. IsDeafTo(b, x.type) /\ b = op[q].by
        BY <2>0, <1>0, <2>1, <2>3, <3>0, <3>1, <3>5, ToldColumn DEF W, x
      <4>2. thread[b] # {} /\ x.type = "pinned"
        BY <4>1 DEF IsDeafTo
      <4>3. op[q].kind \in {"pin", "unpin"} /\ k = "pinned"
        <5>1. op[q].kind \in {"pin", "unpin"}
          BY <1>0, <4>2 DEF Told, x, Command, Kind
        <5> QED BY <3>5, <5>1 DEF Doing, Column
      <4>4. NoneIn(s, Creations(m)) /\ (view[b][m] # NoRow => (view[b][m].pinned <=> op[q].kind = "pin"))
        BY <1>0, <1>1, <1>2, <2>0, <2>3, <4>1, <4>2, <4>3 DEF Sure, Agreeing, OwnPin
      <4>5. W = Creations(m)
        BY <4>2, <4>3 DEF W, Sets, Setter, IsDeafTo
      <4>6. table[m].pinned <=> op[q].kind = "pin"
        BY <2>0, <2>3, <3>0, <4>3 DEF Written
      <4>7. view[b][m] \in U
        <5>1. view[b] \in List
          BY <1>0, TypesAre DEF Core, SocketTypes
        <5>2. view[b][m] = NoRow \/ view[b][m] \in Shown
          BY <5>1 DEF List
        <5> QED BY <4>3, <4>4, <4>6, <5>2 DEF U, Has
      <4>8. Comes(s, W, G, view[b][m], U)
        BY <1>0, <4>4, <4>5, <4>7, ComesOn
      <4>9. Comes(inbox'[b], W, G, view[b][m], U)
        BY <1>8, <2>1, <3>5, <4>8
      <4> QED BY <2>0, <4>9 DEF W, G, U
    <3>6. op[q].kind \in Doing(k) \cup {"send"} /\ x \in W => x \in G
      BY <2>0, <1>0, <2>1, <2>3, <3>0, ToldColumn DEF W, G, x
    <3> QED BY <3>1, <3>2, <3>3, <3>4, <3>5, <3>6
  <2> QED BY <2>2, <2>3
<1>12. CASE Dies(b, q)
  <2>1. m \notin On(op[q]) /\ table'[m] = table[m] /\ inbox'[b] = s
    BY <1>12 DEF Dies
  <2>2. ~Excuse(q)
    BY <2>1 DEF On
  <2> QED BY <1>6, <2>1, <2>2
<1>13. ASSUME NEW n \in Message, NEW w \in Row, Saves(b, q, n, w)
       PROVE  Comes(inbox'[b], Sets(b, m, k), Brings(k, table'[m]), view[b][m], Has(k, table'[m]))
  <2>1. q \in InFlight' /\ inbox'[b] = s /\ ~(op[q].on = m /\ op[q].kind \in Doing(k))
    BY <1>4, <1>13, <1>0 DEF Saves, InFlight
  <2>2. CASE n # m
    <3>1. table'[m] = table[m]
      BY <1>0, <1>13, <2>2 DEF Saves
    <3> QED BY <1>6, <2>1, <3>1
  <2>3. CASE n = m
    <3>1. table'[m] = w
      BY <1>0, <1>13, <2>3 DEF Saves
    <3>2. CASE pc[q] = "saveMessage"
      <4>1. op[q].on = m /\ w = Created(q, op[q].by, op[q].to) /\ op[q].kind = "send" /\ table[m] = NoRow
        BY <1>0, <1>13, <2>3, <3>2 DEF Saves, StageOf, Fresh, Unsaved
      <4>2. k # "there"
        BY <2>1, <4>1 DEF Doing
      <4>3. \A e \in InTransit(b) : e \notin W
        <5>1. \A e \in InTransit(b) : e \in Event
          BY <1>0, InboxMoves
        <5> QED BY <1>0, <1>7, <4>1, <5>1 DEF Present, MatchInv, Sets, Creations
      <4>4. view[b][m] = NoRow /\ NoRow \in Has(k, w)
        BY <1>0, <4>1, <4>2, NothingHas DEF Present
      <4> HIDE DEF W
      <4>5. InTransit(b) = Items(s)
        BY DEF InTransit, Items
      <4>6. NoneIn(s, W)
        BY <1>0, <4>3, <4>5, NoneItems
      <4> QED BY <1>0, <2>1, <3>1, <4>4, <4>6, ComesOn DEF W
    <3>3. ASSUME loaded[q] = table[m], table[m] \in Row, Brings(k, w) = Brings(k, table[m]), Has(k, w) = Has(k, table[m]),
                 table[m].deleted => w.deleted
          PROVE  Comes(s, W, Brings(k, w), view[b][m], Has(k, w))
      BY <1>6, <2>1, <3>1, <3>3, NoRowIsNone
    <3>4. CASE pc[q] = "saveParent"
      <4>1. op[q].to = {m} /\ w = Counted(loaded[q]) /\ loaded[q] = table[m] /\ table[m] \in Row
        BY <1>0, <1>1, <1>13, <2>3, <3>4 DEF Saves, CurrentInv, Written, Copies, StageOf
      <4>2. w.deleted = table[m].deleted /\ w.content = table[m].content /\ w.pinned = table[m].pinned
            /\ w.reactions = table[m].reactions
        BY <4>1 DEF Counted, Row
      <4>3. Brings(k, w) = Brings(k, table[m]) /\ Has(k, w) = Has(k, table[m])
        BY <4>1, <4>2, SameColumn
      <4> QED BY <2>1, <3>1, <3>3, <4>1, <4>2, <4>3
    <3>5. CASE pc[q] = "save"
      <4>1. /\ op[q].on = m /\ op[q].kind \in Kind /\ w \in Execute(op[q], q, table[m])
            /\ loaded[q] = table[m] /\ table[m] \in Row
        BY <1>0, <1>1, <1>13, <2>3, <3>5 DEF Saves, CurrentInv, Written, Copies, StageOf
      <4>2. op[q].kind \notin Doing(k)
        BY <2>1, <4>1
      <4>3. /\ k = "there" => (w.deleted <=> table[m].deleted)
            /\ k = "content" => w.content = table[m].content
            /\ k = "pinned" => (w.pinned <=> table[m].pinned)
            /\ k = "reactions" => w.reactions = table[m].reactions
            /\ table[m].deleted => w.deleted
        BY <1>0, <4>1, <4>2, ExecutedColumns DEF Doing
      <4>4. Brings(k, w) = Brings(k, table[m]) /\ Has(k, w) = Has(k, table[m])
        BY <4>1, <4>3, SameColumn
      <4> QED BY <2>1, <3>1, <3>3, <4>1, <4>3, <4>4
    <3> QED BY <1>13, <3>2, <3>4, <3>5 DEF Saves
  <2> QED BY <2>2, <2>3
<1> QED BY <1>9, <1>10, <1>11, <1>12, <1>13 DEF Acting

\* What b pins itself shows it, and is no new message, until the handler is done.
LEMMA PinsStep ==
    ASSUME CountInv, OverlapInv, ComingInv, [Next]_vars,
           NEW b \in Browser, NEW m \in Message, Sure(b, m), m \notin doubt'[b],
           table'[m] # NoRow, table'[m].parent = thread[b]
    PROVE  OwnPin(b, m)'
<1>0. /\ Core /\ Staged /\ Present /\ thread' = thread /\ inbox[b] \in Seq(Event) /\ InTransit(b) \subseteq Event
      /\ view[b] \in List /\ temp[b] \in SUBSET Request /\ InTransit(b) = Items(inbox[b])
      /\ table[m] # NoRow => table[m].parent = thread[b]
  BY Basis, InboxMoves, TypesAre DEF Core, SocketTypes, InTransit, Items
<1>00. Creations(m)' = Creations(m)
  BY <1>0, ComplyNext
<1> DEFINE Mine(q) == q.on = m /\ q.by = b /\ q.kind \in {"pin", "unpin"} /\ thread[b] # {}
<1> SUFFICES ASSUME NEW q \in InFlight', Mine(op'[q])
             PROVE  /\ NoneIn(inbox'[b], Creations(m))
                    /\ view'[b][m] # NoRow => (view'[b][m].pinned <=> op'[q].kind = "pin")
  BY <1>0, <1>00 DEF OwnPin, NoneIn
<1>1. ASSUME q \in InFlight, op'[q] = op[q]
      PROVE  /\ m \notin doubt[b] /\ \A r \in InFlight : m \in On(op[r]) => r = q
             /\ NoneIn(inbox[b], Creations(m))
             /\ view[b][m] # NoRow => (view[b][m].pinned <=> op[q].kind = "pin")
  <2>1. m \in On(op[q]) /\ q \in Request
    BY <1>1 DEF On, InFlight
  <2>2. m \notin doubt[b] /\ \A r \in InFlight : m \in On(op[r]) => r = q
    BY <1>0, <1>1, <2>1, NoDoubt DEF OverlapInv
  <2>3. table[m] # NoRow
    <3>1. pc[q] \in {"find", "save", "readBack", "emit"}
      BY <1>0, <1>1, <2>1, TypesAre DEF Core, HandlerTypes, Staged, StageOf, InFlight
    <3> QED BY <1>0, <1>1, <2>1, <3>1 DEF Present, AtWork
  <2> QED BY <1>0, <1>1, <2>2, <2>3 DEF Sure, Agreeing, OwnPin
<1>2. CASE ListMoves(b)
  <2>0. q \in InFlight /\ op'[q] = op[q]
    BY <1>2, NoNewFlights
  <2>1. NoneIn(inbox'[b], Creations(m))
    <3>1. CASE inbox'[b] = inbox[b]
      BY <1>1, <2>0, <3>1
    <3>2. CASE inbox'[b] = <<>>
      BY <3>2 DEF NoneIn
    <3>3. CASE inbox[b] # <<>> /\ inbox'[b] = Tail(inbox[b])
      BY <1>0, <1>1, <2>0, <3>3, NoneItems
    <3> QED BY <1>2, <3>1, <3>2, <3>3 DEF ListMoves, Loses, Takes, Reads, Replaces, Snubs
  <2>2. CASE view'[b][m] = view[b][m]
    BY <1>1, <2>0, <2>1, <2>2
  <2>3. ASSUME NEW e \in Event, Takes(b, e), view'[b][m] # NoRow
        PROVE  view'[b][m].pinned <=> op'[q].kind = "pin"
    <3>1. view'[b] = Apply(b, view[b], temp[b], e) /\ e = Head(inbox[b]) /\ inbox[b] # <<>>
      BY <2>3 DEF Takes
    <3>2. e \notin Sets(b, m, "pinned")
      <4>1. e \notin Creations(m)
        BY <1>0, <1>1, <2>0, <3>1, NoneItems
      <4> QED BY <4>1 DEF Sets, Setter, IsDeafTo
    <3> DEFINE row == [pinned |-> (op[q].kind = "pin")]
    <3>3. view[b][m] \in Has("pinned", row)
      <4>1. view[b][m] = NoRow \/ view[b][m] \in Shown
        BY <1>0 DEF List
      <4> QED BY <1>1, <2>0, <4>1 DEF Has
    <3> HIDE DEF row
    <3>4. view'[b][m] \in Has("pinned", row)
      <4> HIDE DEF List
      <4>1. "pinned" \in Column
        BY DEF Column
      <4> QED BY <1>0, <3>1, <3>2, <3>3, <4>1, AppliedHas
    <3> QED BY <2>0, <2>3, <3>4 DEF Has, row
  <2>4. ASSUME NEW l \in List, Replaces(b, l) PROVE FALSE
    BY <2>0, <2>4 DEF Replaces, OverlapInv, ActiveOn, On
  <2>5. ASSUME NEW p \in Request, NEW c \in Command, Snubs(b, p, c) PROVE view'[b][m] = view[b][m]
    <3>1. c.on # m /\ view'[b] = Optimistic(view[b], c, p)
      BY <2>5 DEF Snubs
    <3> HIDE DEF List
    <3> QED BY <1>0, <3>1, OptimisticHas
  <2> QED BY <1>2, <2>1, <2>2, <2>3, <2>4, <2>5 DEF ListMoves, ListStays, Loses, Reads
<1>3. ASSUME NEW a \in Browser, NEW p \in Request, NEW c \in Command, Begins(b, a, p, c)
      PROVE  /\ NoneIn(inbox'[b], Creations(m))
             /\ view'[b][m] # NoRow => (view'[b][m].pinned <=> op'[q].kind = "pin")
  <2>0. /\ inbox'[b] = inbox[b] /\ op'[p] = c /\ c.by = a
        /\ doubt[b] \cup {n \in On(c) : ActiveOn(n)} \subseteq doubt'[b]
        /\ view'[b] = view[b] \/ view'[b] = Optimistic(view[b], c, p)
        /\ a = b /\ c.on \notin doubt'[b] =>
              view'[b] = Optimistic(view[b], c, p) /\ (c.kind = "send" \/ Acts(b, c))
    BY <1>3 DEF Begins
  <2>1. CASE q = p
    <3>1. /\ a = b /\ c.on = m /\ c.kind \in {"pin", "unpin"} /\ view[b][m] # NoRow
      BY <1>3, <2>0, <2>1 DEF Begins, Acts
    <3>2. view'[b][m].pinned <=> op'[q].kind = "pin"
      <4> HIDE DEF List
      <4> QED BY <1>0, <2>0, <2>1, <3>1, OptimisticHas
    <3>3. \A e \in InTransit(b) : e \notin Creations(m)
      BY <2>0, <3>1 DEF ComingInv, Creations
    <3> QED BY <1>0, <2>0, <3>2, <3>3, NoneItems
  <2>2. CASE q # p
    <3>1. q \in InFlight /\ op'[q] = op[q]
      BY <1>3, <2>2, NewFlight
    <3>2. c.on # m
      BY <2>0, <3>1 DEF ActiveOn, On
    <3>3. view'[b][m] = view[b][m]
      <4> HIDE DEF List
      <4> QED BY <1>0, <2>0, <3>2, OptimisticHas
    <3> QED BY <1>1, <2>0, <3>1, <3>3
  <2> QED BY <2>1, <2>2
<1>4. ASSUME NEW p \in Request, Acting(b, p)
      PROVE  /\ NoneIn(inbox'[b], Creations(m))
             /\ view'[b][m] # NoRow => (view'[b][m].pinned <=> op'[q].kind = "pin")
  <2>0. q \in InFlight /\ op'[q] = op[q] /\ view'[b] = view[b]
    BY <1>4, NoNewFlights DEF Acting, ListStays
  <2>1. ASSUME NEW r \in InFlight, NEW x \in Event, Adds(b, r, x) PROVE NoneIn(inbox'[b], Creations(m))
    <3>1. x \notin Creations(m)
      <4> SUFFICES ASSUME x \in Creations(m) PROVE FALSE
        OBVIOUS
      <4>1. op[r].on = m /\ op[r].kind = "send"
        BY <2>1 DEF Creations, Adds
      <4>2. r = q
        BY <1>1, <2>0, <4>1 DEF On
      <4> QED BY <2>0, <4>1, <4>2
    <3>2. inbox'[b] = Append(inbox[b], x)
      BY <2>1 DEF Adds
    <3> QED BY <1>0, <1>1, <2>0, <3>1, <3>2, NoneItems
  <2>2. NoneIn(inbox'[b], Creations(m))
    <3>1. CASE inbox'[b] = inbox[b]
      BY <1>1, <2>0, <3>1
    <3>2. CASE inbox'[b] = <<>>
      BY <3>2 DEF NoneIn
    <3>3. CASE inbox[b] # <<>> /\ inbox'[b] = Tail(inbox[b])
      BY <1>0, <1>1, <2>0, <3>3, NoneItems
    <3> QED BY <1>0, <2>1, <3>1, <3>2, <3>3, InboxMoves
  <2> QED BY <1>1, <2>0, <2>2
<1> QED BY <1>0, <1>2, <1>3, <1>4, ViewMoves

\* The replies on their way are among those that are there.
LEMMA UnderwayIsFinite ==
    ASSUME CountInv, MatchInv, NEW b \in Browser, NEW m \in Message
    PROVE  IsFiniteSet(Underway(b, m)) /\ Cardinality(Underway(b, m)) \in Nat
<1>1. Underway(b, m) \subseteq Replies(m)
  BY DEF CountInv, Core, Present, MatchInv, Underway, Replies
<1>2. IsFiniteSet(Replies(m))
  BY DEF CountInv, RepliesInv
<1> QED BY <1>1, <1>2, FS_Subset, FS_CardinalityType

\* What is on its way is what arrives first and what is left.
LEMMA FirstAndRest ==
    ASSUME Core, NEW b \in Browser, NEW f \in Event, Takes(b, f)
    PROVE  InTransit(b) = InTransit(b)' \cup {f}
<1> DEFINE s == inbox[b]
<1>1. s \in Seq(Event) /\ s # <<>> /\ f = Head(s) /\ inbox'[b] = Tail(s) /\ f \in InTransit(b)
  BY DEF Core, Typed, Takes
<1>2. ASSUME NEW i \in 1..Len(s) PROVE s[i] = f \/ \E j \in 1..Len(Tail(s)) : s[i] = Tail(s)[j]
  <2>1. CASE i = 1
    BY <1>1, <2>1
  <2>2. CASE i # 1
    <3>1. i - 1 \in 1..Len(Tail(s)) /\ Tail(s)[i - 1] = s[i]
      BY <1>1, <2>2
    <3> QED BY <3>1
  <2> QED BY <2>1, <2>2
<1>3. ASSUME NEW j \in 1..Len(Tail(s)) PROVE j + 1 \in 1..Len(s) /\ Tail(s)[j] = s[j + 1]
  BY <1>1
<1>4. /\ InTransit(b) = {s[i] : i \in 1..Len(s)}
      /\ InTransit(b)' = {Tail(s)[j] : j \in 1..Len(Tail(s))}
  BY <1>1 DEF InTransit
<1> HIDE DEF s
<1> QED BY <1>1, <1>2, <1>3, <1>4

\* The moves of a list count the replies that they meet.
LEMMA RepliesByLists ==
    ASSUME CountInv, MatchInv, OnceInv, OverlapInv, SnapInv, [Next]_vars,
           NEW b \in Browser, NEW m \in Existing, Sure(b, m), m \notin doubt'[b], thread[b] = {},
           ListMoves(b), view'[b][m] # NoRow, table[m].parent = {}
    PROVE  view'[b][m].replies + Cardinality(Underway(b, m)') + (IF Midway(m)' = {} THEN 0 ELSE 1)
              = table'[m].replies
<1>0. /\ Core /\ Present /\ thread' = thread /\ table' = table /\ m \in Message /\ table[m] \in Row
      /\ InTransit(b) \subseteq Event /\ view[b] \in List /\ temp[b] \in SUBSET Request
  <2>1. Core /\ Present /\ thread' = thread /\ m \in Message /\ table \in [Message -> Row \cup {NoRow}]
    BY Basis
  <2> QED BY <2>1, InboxMoves, TypesAre DEF Core, SocketTypes, ListMoves, Present
<1>1. m \notin doubt[b] /\ view[b][m] # NoRow =>
        view[b][m].replies + Cardinality(Underway(b, m)) + (IF Midway(m) = {} THEN 0 ELSE 1) = table[m].replies
  BY <1>0, NoRowIsNone DEF Sure, Agreeing, RepliesCome
<1>2. Midway(m)' = Midway(m)
  BY DEF ListMoves, RequestStays, Midway, InFlight
<1>3. CASE view'[b][m] = view[b][m] /\ inbox'[b] = inbox[b] /\ m \notin doubt[b]
  <2>1. Underway(b, m)' = Underway(b, m)
    BY <1>3 DEF Underway, InTransit
  <2> QED BY <1>0, <1>1, <1>2, <1>3, <2>1
<1>4. CASE Loses(b)
  <2>1. Underway(b, m)' = Underway(b, m)
    <3>1. InTransit(b)' = {}
      BY <1>4 DEF Loses, InTransit
    <3>2. \A e \in InTransit(b) : m \notin On(e.c)
      BY <1>4 DEF Loses
    <3> QED BY <3>1, <3>2 DEF Underway, On
  <2> QED BY <1>0, <1>1, <1>2, <1>4, <2>1 DEF Loses, ListStays
<1>5. ASSUME NEW e \in Event, Takes(b, e)
      PROVE  view'[b][m].replies + Cardinality(Underway(b, m)') + (IF Midway(m)' = {} THEN 0 ELSE 1) = table[m].replies
  <2>1. /\ e \in InTransit(b) /\ m \notin doubt[b] /\ view'[b] = Apply(b, view[b], temp[b], e)
        /\ InTransit(b) = InTransit(b)' \cup {e}
    BY <1>0, <1>5, FirstAndRest DEF Takes
  <2>2. e.type \in {"received", "success"} => e.c.on # m
    BY <2>1 DEF MatchInv
  <2>3. e.c \in Command /\ (m \in e.c.to => e.c.to = {m}) /\ e.c.on \in Message
    BY EventFields DEF Command
  <2>4. \/ view[b][m] # NoRow /\ view'[b][m].replies = view[b][m].replies
           /\ ~(e.type = "received" /\ m \in e.c.to)
        \/ /\ view[b][m] # NoRow /\ view'[b][m].replies = view[b][m].replies + 1
           /\ e.type = "received" /\ m \in e.c.to
    <3> HIDE DEF List
    <3> QED BY <1>0, <2>1, <2>2, AppliedReplies
  <2>5. CASE ~(e.type = "received" /\ m \in e.c.to)
    <3>1. Underway(b, m)' = Underway(b, m)
      BY <2>1, <2>5 DEF Underway
    <3> QED BY <1>1, <1>2, <2>1, <2>4, <2>5, <3>1
  <2>6. CASE e.type = "received" /\ m \in e.c.to
    <3>1. \A f \in InTransit(b)' : f.type = "received" => f.c.on # e.c.on
      BY <1>0, <1>5, <2>6, LeftOver
    <3>2. Underway(b, m)' = Underway(b, m) \ {e.c.on} /\ e.c.on \in Underway(b, m)
      BY <2>1, <2>3, <2>6, <3>1 DEF Underway
    <3>3. IsFiniteSet(Underway(b, m)) /\ Cardinality(Underway(b, m)) \in Nat
      BY <1>0, UnderwayIsFinite
    <3>4. Cardinality(Underway(b, m)') = Cardinality(Underway(b, m)) - 1
      <4> DEFINE U == Underway(b, m)
                 r == e.c.on
      <4>1. IsFiniteSet(U) /\ r \in U
        BY <3>2, <3>3
      <4>2. Underway(b, m)' = U \ {r}
        BY <3>2
      <4> HIDE DEF U, r
      <4>3. Cardinality(U \ {r}) = Cardinality(U) - 1
        BY <4>1, FS_RemoveElement
      <4> QED BY <4>2, <4>3 DEF U
    <3>5. view[b][m].replies \in Nat
      <4>1. view[b][m] \in Shown
        BY <1>0, <2>4 DEF List
      <4> QED BY <4>1 DEF Shown
    <3>6. view'[b][m].replies = view[b][m].replies + 1 /\ view[b][m] # NoRow
      BY <2>4, <2>6
    <3> DEFINE c == Cardinality(Underway(b, m))
               v == view[b][m].replies
               n == IF Midway(m) = {} THEN 0 ELSE 1
    <3>7. v + c + n = table[m].replies /\ c \in Nat /\ v \in Nat /\ n \in Nat
      BY <1>1, <2>1, <3>3, <3>5, <3>6
    <3>8. (IF Midway(m)' = {} THEN 0 ELSE 1) = n
      BY <1>2
    <3> HIDE DEF c, v, n
    <3>9. v + 1 + (c - 1) + n = v + c + n
      BY <3>7
    <3> QED BY <3>4, <3>6, <3>7, <3>8, <3>9 DEF c, v
  <2> QED BY <2>5, <2>6
<1>6. ASSUME NEW l \in List, Replaces(b, l)
      PROVE  view'[b][m].replies + Cardinality(Underway(b, m)') + (IF Midway(m)' = {} THEN 0 ELSE 1) = table[m].replies
  <2>1. /\ l[m] = ShownOf(b, table[m]) /\ \A e \in InTransit(b) : m \notin On(e.c)
        /\ view'[b] = l /\ InTransit(b)' = InTransit(b) /\ ~ActiveOn(m)
    BY <1>0, <1>6 DEF Replaces, SnapInv, OverlapInv, InTransit
  <2>2. Underway(b, m)' = {} /\ Midway(m)' = {}
    BY <1>2, <2>1 DEF Underway, Midway, ActiveOn, On
  <2>3. view'[b][m].replies = table[m].replies
    BY <2>1 DEF ShownOf
  <2>4. table[m].replies \in Nat
    BY <1>0 DEF Row
  <2> QED BY <2>2, <2>3, <2>4, FS_EmptySet
<1>7. ASSUME NEW q \in Request, NEW c \in Command, Snubs(b, q, c)
      PROVE  view'[b][m] = view[b][m] /\ inbox'[b] = inbox[b] /\ m \notin doubt[b]
  <2>1. c.on # m /\ view'[b] = Optimistic(view[b], c, q)
    BY <1>7 DEF Snubs
  <2>2. view'[b][m] = view[b][m]
    <3> HIDE DEF List
    <3> QED BY <1>0, <2>1, OptimisticHas
  <2> QED BY <1>7, <2>2 DEF Snubs
<1>8. ASSUME (ListStays(b) /\ inbox'[b] = inbox[b] /\ doubt'[b] = doubt[b]) \/ Reads(b)
      PROVE  view'[b][m] = view[b][m] /\ inbox'[b] = inbox[b] /\ m \notin doubt[b]
  BY <1>8 DEF ListStays, Reads
<1> QED BY <1>0, <1>3, <1>4, <1>5, <1>6, <1>7, <1>8 DEF ListMoves

\* A call counts no reply.
LEMMA RepliesByCalls ==
    ASSUME CountInv, [Next]_vars,
           NEW b \in Browser, NEW m \in Existing, Sure(b, m), m \notin doubt'[b], thread[b] = {},
           NEW a \in Browser, NEW q \in Request, NEW c \in Command, Begins(b, a, q, c),
           view'[b][m] # NoRow, table[m].parent = {}
    PROVE  view'[b][m].replies + Cardinality(Underway(b, m)') + (IF Midway(m)' = {} THEN 0 ELSE 1)
              = table'[m].replies
<1>0. /\ Present /\ m \in Message /\ view[b] \in List /\ table' = table /\ inbox'[b] = inbox[b]
      /\ m \notin doubt[b] /\ (view'[b] = view[b] \/ view'[b] = Optimistic(view[b], c, q))
  <2>1. Present /\ m \in Message /\ view[b] \in List
    BY Basis, TypesAre DEF Core, SocketTypes
  <2> QED BY <2>1 DEF Begins
<1>1. Underway(b, m)' = Underway(b, m)
  BY <1>0 DEF Underway, InTransit
<1>2. Midway(m)' = Midway(m)
  BY DEF Begins, RequestStays, Midway, InFlight
<1>3. view[b][m] # NoRow /\ view'[b][m].replies = view[b][m].replies
  <2> HIDE DEF List
  <2> QED BY <1>0, OptimisticHas
<1>4. view[b][m].replies + Cardinality(Underway(b, m)) + (IF Midway(m) = {} THEN 0 ELSE 1) = table[m].replies
  BY <1>0, <1>3 DEF Sure, Agreeing, RepliesCome, Present
<1> QED BY <1>0, <1>1, <1>2, <1>3, <1>4

\* A handler counts a reply when it saves the parent, and tells it when it has
\* saved the reply: it is alone with the parent from the one to the other.
LEMMA RepliesByHandlers ==
    ASSUME CountInv, SendInv, MatchInv, OverlapInv, CurrentInv, [Next]_vars,
           NEW b \in Browser, NEW m \in Existing, Sure(b, m), m \notin doubt'[b], thread[b] = {},
           NEW q \in Request, Acting(b, q), view'[b][m] # NoRow, table[m].parent = {}
    PROVE  view'[b][m].replies + Cardinality(Underway(b, m)') + (IF Midway(m)' = {} THEN 0 ELSE 1)
              = table'[m].replies
<1> DEFINE v == view[b][m].replies
           u == Cardinality(Underway(b, m))
           n == IF Midway(m) = {} THEN 0 ELSE 1
<1>0. /\ Core /\ Present /\ Staged /\ m \in Message /\ table[m] \in Row /\ table \in [Message -> Row \cup {NoRow}]
      /\ InTransit(b) \subseteq Event /\ view'[b] = view[b]
      /\ q \in InFlight /\ op[q] \in Command /\ StageOf(q) /\ inbox[b] \in Seq(Event)
  <2>1. Core /\ Present /\ Staged /\ m \in Message /\ table \in [Message -> Row \cup {NoRow}]
    BY Basis
  <2> QED BY <2>1, InboxMoves DEF Acting, ListStays, Present, Staged
<1>1. m \notin doubt[b]
  BY DEF Acting, Goes, Quits, Tells, Dies, Saves
<1>2. v + u + n = table[m].replies
  BY <1>0, <1>1, NoRowIsNone DEF Sure, Agreeing, RepliesCome
<1>3. v \in Nat /\ u \in Nat /\ n \in Nat /\ IsFiniteSet(Underway(b, m)) /\ table[m].replies \in Nat
  <2>1. view[b] \in List
    BY <1>0, TypesAre DEF Core, SocketTypes
  <2>2. view[b][m] \in Shown
    BY <1>0, <2>1 DEF List
  <2> QED BY <1>0, <2>2, UnderwayIsFinite DEF Shown, Row
<1>4. \A r \in InFlight : m \in On(op[q]) /\ m \in On(op[r]) => r = q
  BY <1>0, <1>1 DEF OverlapInv
\* others stay where they are
<1>5. \A r : r # q => (r \in Midway(m)' <=> r \in Midway(m))
  BY DEF Acting, RequestStays, Midway, InFlight
<1>6. \A r \in Midway(m) : m \in On(op[r]) /\ r \in InFlight
  BY DEF Midway, On
<1>7. ASSUME q \in Midway(m)' <=> q \in Midway(m), Underway(b, m)' = Underway(b, m), table'[m].replies = table[m].replies
      PROVE  v + Cardinality(Underway(b, m)') + (IF Midway(m)' = {} THEN 0 ELSE 1) = table'[m].replies
  <2>1. Midway(m)' = Midway(m)
    BY <1>5, <1>7
  <2> QED BY <1>2, <1>7, <2>1
<1>8. inbox'[b] = inbox[b] => Underway(b, m)' = Underway(b, m)
  BY DEF Underway, InTransit
<1>9. ASSUME NEW x \in Event, inbox'[b] = Append(inbox[b], x)
      PROVE  Underway(b, m)' = Underway(b, m) \cup (IF x.type = "received" /\ x.c.to = {m} THEN {x.c.on} ELSE {})
  <2>1. InTransit(b)' = InTransit(b) \cup {x}
    <3>1. InTransit(b)' = Items(inbox'[b]) /\ InTransit(b) = Items(inbox[b])
      BY DEF InTransit, Items
    <3> QED BY <1>0, <1>9, <3>1, ItemsOf
  <2>2. x.c.on \in Message
    BY EventFields
  <2> QED BY <2>1, <2>2 DEF Underway
<1> HIDE DEF v, u, n
<1> SUFFICES v + Cardinality(Underway(b, m)') + (IF Midway(m)' = {} THEN 0 ELSE 1) = table'[m].replies
  BY <1>0 DEF v
<1>10. CASE Goes(b, q)
  <2>1. q \in Midway(m)' <=> q \in Midway(m)
    BY <1>10, <1>0 DEF Goes, Midway, InFlight
  <2>2. table' = table /\ inbox'[b] = inbox[b]
    BY <1>10 DEF Goes
  <2> QED BY <1>7, <1>8, <2>1, <2>2
<1>11. CASE Quits(b, q)
  <2>1. q \notin Midway(m)' /\ q \notin Midway(m) /\ table' = table
    BY <1>11 DEF Quits, Midway, InFlight
  <2>2. Answer("error", op[q], q) \in Event /\ Answer("error", op[q], q).type = "error"
    BY <1>0, AnswerIsEvent
  <2>3. Underway(b, m)' = Underway(b, m)
    BY <1>8, <1>9, <1>11, <2>2 DEF Quits
  <2> QED BY <1>7, <2>1, <2>3
<1>12. CASE Tells(b, q)
  <2> DEFINE x == Told(op[q], q, loaded[q])
             y == Answer("success", op[q], q)
  <2>0. table' = table /\ pc[q] = "emit" /\ q \notin Midway(m)'
    BY <1>12 DEF Tells, Midway, InFlight
  <2>1. /\ x \in Event /\ x.c = op[q] /\ (x.type = "received" <=> op[q].kind = "send")
        /\ y \in Event /\ y.c = op[q] /\ y.type = "success"
    BY <1>0, <2>0, ToldIsEvent, AnswerIsEvent DEF StageOf
  <2>2. CASE op[q].to # {m}
    <3>1. q \notin Midway(m)
      BY <2>2 DEF Midway
    <3>2. Underway(b, m)' = Underway(b, m)
      BY <1>8, <1>9, <1>12, <2>1, <2>2 DEF Tells
    <3> QED BY <1>7, <2>0, <3>1, <3>2
  <2>3. CASE op[q].to = {m}
    <3>1. op[q].kind = "send" /\ m \in On(op[q]) /\ q \in Midway(m)
      BY <1>0, <2>0, <2>3, Owner DEF On, Midway
    <3>2. b # op[q].by
      BY <1>0, <2>3, <3>1 DEF SendInv
    <3>3. inbox'[b] = Append(inbox[b], x)
      BY <1>12, <3>1, <3>2 DEF Tells
    <3>4. Underway(b, m)' = Underway(b, m) \cup {op[q].on}
      BY <1>9, <2>1, <2>3, <3>1, <3>3
    <3>5. op[q].on \notin Underway(b, m)
      BY <1>0, <3>1 DEF Underway, MatchInv
    <3>6. Cardinality(Underway(b, m)') = u + 1
      <4> DEFINE U == Underway(b, m)
                 r == op[q].on
      <4>1. IsFiniteSet(U) /\ r \notin U /\ Underway(b, m)' = U \cup {r}
        BY <1>3, <3>4, <3>5
      <4> HIDE DEF U, r
      <4>2. Cardinality(U \cup {r}) = Cardinality(U) + 1
        BY <4>1, FS_AddElement
      <4> QED BY <4>1, <4>2 DEF U, u
    <3>7. Midway(m)' = {}
      BY <1>4, <1>5, <1>6, <2>0, <3>1
    <3>8. n = 1
      BY <3>1 DEF n
    <3> QED BY <1>2, <1>3, <2>0, <3>6, <3>7, <3>8
  <2> QED BY <2>2, <2>3
<1>13. CASE Dies(b, q)
  <2>1. m \notin On(op[q]) /\ table'[m] = table[m] /\ inbox'[b] = inbox[b] /\ q \notin Midway(m)'
    BY <1>0, <1>13 DEF Dies, Midway, InFlight
  <2> QED BY <1>6, <1>7, <1>8, <2>1
<1>14. ASSUME NEW k \in Message, NEW w \in Row, Saves(b, q, k, w)
       PROVE  v + Cardinality(Underway(b, m)') + (IF Midway(m)' = {} THEN 0 ELSE 1) = table'[m].replies
  <2>0. inbox'[b] = inbox[b] /\ op'[q] = op[q] /\ table'[m] = (IF m = k THEN w ELSE table[m])
    BY <1>0, <1>14 DEF Saves
  <2>1. CASE pc[q] = "saveParent" /\ m = k
    <3>1. op[q].to = {m} /\ w = Counted(loaded[q]) /\ loaded[q] = table[m] /\ pc'[q] = "saveMessage" /\ m \in On(op[q])
      BY <1>0, <1>1, <1>14, <2>1 DEF Saves, CurrentInv, Written, Copies, On
    <3>2. w.replies = table[m].replies + 1
      BY <1>0, <3>1, CountedIsRow
    <3>3. q \in Midway(m)' /\ q \notin Midway(m)
      BY <1>0, <2>0, <2>1, <3>1 DEF Midway, InFlight
    <3>4. Midway(m) = {}
      BY <1>4, <1>6, <3>1, <3>3
    <3>5. n = 0 /\ (IF Midway(m)' = {} THEN 0 ELSE 1) = 1 /\ Cardinality(Underway(b, m)') = u
      BY <1>8, <2>0, <3>3, <3>4 DEF n, u
    <3> QED BY <1>2, <1>3, <2>0, <2>1, <3>2, <3>5
  <2>2. CASE pc[q] = "saveParent" /\ m # k
    <3>1. q \notin Midway(m)' /\ q \notin Midway(m)
      BY <1>14, <2>0, <2>2 DEF Saves, Midway
    <3> QED BY <1>7, <1>8, <2>0, <2>2, <3>1
  <2>3. CASE pc[q] = "saveMessage"
    <3>1. op[q].on = k /\ op[q].kind = "send" /\ pc'[q] = "readBack"
      BY <1>0, <1>14, <2>3 DEF Saves, StageOf
    <3>2. m # k
      BY <1>0, <3>1 DEF SendInv
    <3>3. q \in Midway(m)' <=> q \in Midway(m)
      BY <1>0, <2>0, <2>3, <3>1 DEF Midway, InFlight
    <3> QED BY <1>7, <1>8, <2>0, <3>2, <3>3
  <2>4. CASE pc[q] = "save"
    <3>1. op[q].on = k /\ op[q].kind \in Kind /\ w \in Execute(op[q], q, loaded[q]) /\ loaded[q] \in Row
      BY <1>0, <1>14, <2>4 DEF Saves, StageOf
    <3>2. op[q].to = {}
      BY <1>0, <3>1, Owner DEF Kind
    <3>3. q \notin Midway(m)' /\ q \notin Midway(m)
      BY <2>0, <3>2 DEF Midway
    <3>4. table'[m].replies = table[m].replies
      <4>1. CASE m = k
        <5>1. loaded[q] = table[m]
          BY <1>0, <1>1, <2>4, <3>1, <4>1 DEF CurrentInv, Written, Copies
        <5>2. w.replies = loaded[q].replies
          BY <1>0, <3>1, Executed
        <5> QED BY <2>0, <4>1, <5>1, <5>2
      <4>2. CASE m # k
        BY <2>0, <4>2
      <4> QED BY <4>1, <4>2
    <3> QED BY <1>7, <1>8, <2>0, <3>3, <3>4
  <2> QED BY <1>14, <2>1, <2>2, <2>3, <2>4 DEF Saves
<1> QED BY <1>10, <1>11, <1>12, <1>13, <1>14 DEF Acting

\* Everything that is known of the lists and of what is on its way to them.
ViewsInv ==
    /\ CountInv /\ SendInv /\ MatchInv /\ OnceInv /\ PlacedInv /\ OverlapInv /\ SnapInv
    /\ CurrentInv /\ ComingInv /\ AgreeInv

\* Every step keeps the lists in agreement with the table and what is on its way.
LEMMA AgreeStep == ViewsInv /\ [Next]_vars => AgreeInv'
<1> SUFFICES ASSUME ViewsInv, [Next]_vars, NEW b \in Browser, NEW m \in Message,
                    m \notin doubt'[b], table'[m] # NoRow, table'[m].parent = thread'[b]
             PROVE  Agreeing(b, m)'
  BY DEF AgreeInv, Agreeing
<1>0. /\ CountInv /\ SendInv /\ MatchInv /\ OnceInv /\ OverlapInv /\ SnapInv /\ CurrentInv /\ ComingInv
      /\ Core /\ Present /\ thread' = thread /\ Sure(b, m) /\ table'[m].parent = thread[b]
      /\ table[m] # NoRow => table[m].parent = thread[b]
  BY Basis DEF ViewsInv, AgreeInv, Sure
<1>1. \/ ListMoves(b)
      \/ \E a \in Browser, q \in Request, c \in Command : Begins(b, a, q, c)
      \/ \E q \in Request : Acting(b, q)
  BY <1>0, ViewMoves
<1>2. ListMoves(b) \/ (\E a \in Browser, q \in Request, c \in Command : Begins(b, a, q, c)) =>
        table[m] # NoRow
  BY DEF ListMoves, Begins
<1>3. ASSUME NEW k \in Column PROVE ColumnAgrees(b, m, k)'
  <2>1. CASE ListMoves(b)
    BY <1>0, <1>2, <2>1, ColumnsByLists
  <2>2. ASSUME NEW a \in Browser, NEW q \in Request, NEW c \in Command, Begins(b, a, q, c)
        PROVE  ColumnAgrees(b, m, k)'
    BY <1>0, <1>2, <2>2, ColumnsByCalls
  <2>3. ASSUME NEW q \in Request, Acting(b, q) PROVE ColumnAgrees(b, m, k)'
    BY <1>0, <2>3, ColumnsByHandlers
  <2> QED BY <1>1, <2>1, <2>2, <2>3
<1>4. OwnPin(b, m)'
  BY <1>0, PinsStep
<1>5. RepliesCome(b, m)'
  <2> SUFFICES ASSUME thread[b] = {}, m \in Existing, view'[b][m] # NoRow
               PROVE  view'[b][m].replies + Cardinality(Underway(b, m)') + (IF Midway(m)' = {} THEN 0 ELSE 1)
                        = table'[m].replies
    BY <1>0 DEF RepliesCome
  <2>0. table[m].parent = {}
    BY <1>0 DEF Present
  <2>1. CASE ListMoves(b)
    BY <1>0, <2>0, <2>1, RepliesByLists
  <2>2. ASSUME NEW a \in Browser, NEW q \in Request, NEW c \in Command, Begins(b, a, q, c)
        PROVE  view'[b][m].replies + Cardinality(Underway(b, m)') + (IF Midway(m)' = {} THEN 0 ELSE 1)
                 = table'[m].replies
    BY <1>0, <2>0, <2>2, RepliesByCalls
  <2>3. ASSUME NEW q \in Request, Acting(b, q)
        PROVE  view'[b][m].replies + Cardinality(Underway(b, m)') + (IF Midway(m)' = {} THEN 0 ELSE 1)
                 = table'[m].replies
    BY <1>0, <2>0, <2>3, RepliesByHandlers
  <2> QED BY <1>1, <2>1, <2>2, <2>3
<1> QED BY <1>3, <1>4, <1>5 DEF Agreeing, ColumnAgrees

\* At first nothing is shown or under way, and browsers know nothing of what is there.
LEMMA ViewsInit == Init => ViewsInv
<1> SUFFICES ASSUME Init PROVE ViewsInv
  OBVIOUS
<1>1. CountInv
  BY CountInit
<1>2. InFlight = {}
  BY DEF Init, InFlight
<1>3. \A b \in Browser : /\ InTransit(b) = {} /\ inbox[b] = <<>> /\ fetch[b] = {} /\ doubt[b] = Existing
                         /\ \A m \in Message : view[b][m] = NoRow
  BY DEF Init, InTransit
<1>4. /\ \A m \in Existing : table[m].parent = {}
      /\ \A m \in Message \ Existing : table[m] = NoRow
  <2>1. PICK by \in [Existing -> Browser] :
          table = [m \in Message |-> IF m \in Existing THEN Created("first", by[m], {}) ELSE NoRow]
    BY DEF Init
  <2>2. \A a : Created("first", a, {}).parent = {}
    BY DEF Created
  <2> QED BY <2>1, <2>2
<1>5. SendInv
  BY <1>2, <1>4 DEF SendInv
<1>6. MatchInv /\ OnceInv /\ ComingInv
  BY <1>3 DEF MatchInv, OnceInv, ComingInv
<1>7. PlacedInv /\ SnapInv
  BY <1>3 DEF PlacedInv, SnapInv
<1>8. OverlapInv /\ CurrentInv
  BY <1>2, <1>3 DEF OverlapInv, CurrentInv
<1>9. AgreeInv
  BY <1>3, <1>4 DEF AgreeInv, Agreeing
<1> QED BY <1>1, <1>5, <1>6, <1>7, <1>8, <1>9 DEF ViewsInv

\* The invariant of the lists is inductive.
LEMMA ViewsStep == ViewsInv /\ [Next]_vars => ViewsInv'
<1> SUFFICES ASSUME ViewsInv, [Next]_vars PROVE ViewsInv'
  OBVIOUS
<1>0. /\ CountInv /\ SendInv /\ MatchInv /\ OnceInv /\ PlacedInv /\ OverlapInv /\ SnapInv
      /\ CurrentInv /\ ComingInv
  BY DEF ViewsInv
<1>1. CountInv'
  BY <1>0, CountStep
<1>2. SendInv' /\ MatchInv' /\ OnceInv' /\ OverlapInv'
  BY <1>0, <1>1, SendStep, MatchStep, OnceStep, OverlapStep
<1>3. PlacedInv' /\ SnapInv' /\ CurrentInv' /\ ComingInv'
  BY <1>0, <1>1, <1>2, PlacedStep, SnapStep, CurrentStep, ComingStep
<1>4. AgreeInv'
  BY AgreeStep
<1> QED BY <1>1, <1>2, <1>3, <1>4 DEF ViewsInv

\* Who has nothing of a message under way shows it as it is in the table.
LEMMA Views == ViewsInv => ViewsAgree
<1> SUFFICES ASSUME ViewsInv, NEW b \in Browser, NEW m \in Message, AtRest(b, m), m \notin doubt[b]
             PROVE  view[b][m] = ShownOf(b, table[m])
  BY DEF ViewsAgree
<1>0. /\ CountInv /\ SendInv /\ MatchInv /\ PlacedInv /\ Agreeing(b, m) /\ Core /\ Present
      /\ view[b] \in List /\ table[m] \in Row \cup {NoRow} /\ inbox[b] \in Seq(Event)
      /\ InTransit(b) = Items(inbox[b])
  BY TypesAre DEF ViewsInv, AgreeInv, CountInv, Core, SocketTypes, InTransit, Items
<1>1. view[b][m] = NoRow \/ view[b][m] \in Shown
  BY <1>0 DEF List
<1>2. ~ActiveOn(m) /\ \A e \in InTransit(b) : m \notin On(e.c)
  BY DEF AtRest
<1>3. CASE table[m] = NoRow \/ table[m].parent # thread[b]
  <2>1. ShownOf(b, table[m]) = NoRow
    BY <1>3 DEF ShownOf, Belongs
  <2>2. view[b][m] = NoRow
    BY <1>0, <1>3 DEF Present, PlacedInv
  <2> QED BY <2>1, <2>2
<1>4. CASE table[m] # NoRow /\ table[m].parent = thread[b]
  <2>0. table[m] \in Row
    BY <1>0, <1>4
  <2>1. ASSUME NEW k \in Column, k = "there" \/ ~table[m].deleted
        PROVE  view[b][m] \in Has(k, table[m])
    <3>1. ~Excused(m, k)
      BY <1>2 DEF Excused, ActiveOn, On
    <3>2. Comply(b, m, k)
      BY <1>0, <1>4, <2>1, <3>1 DEF Agreeing
    <3>3. \A e \in InTransit(b) : e \notin Sets(b, m, k)
      BY <1>2 DEF Sets, Creations, On
    <3>4. NoneIn(inbox[b], Sets(b, m, k))
      BY <1>0, <3>3, NoneItems
    <3> QED BY <1>0, <3>2, <3>4, ComesOn DEF Comply
  <2>2. CASE table[m].deleted
    <3>1. view[b][m] = NoRow
      BY <2>1, <2>2 DEF Has, Column
    <3> QED BY <2>2, <3>1 DEF ShownOf, Belongs
  <2>3. CASE ~table[m].deleted
    <3>1. view[b][m] \in Shown
      <4>1. view[b][m] \in Has("there", table[m])
        BY <2>1, <2>3 DEF Column
      <4> QED BY <2>3, <4>1 DEF Has
    <3>2. /\ view[b][m].content = table[m].content /\ view[b][m].reactions = table[m].reactions
          /\ view[b][m].pinned <=> table[m].pinned
      <4>1. /\ view[b][m] \in Has("content", table[m]) /\ view[b][m] \in Has("reactions", table[m])
            /\ view[b][m] \in Has("pinned", table[m])
        BY <2>1, <2>3 DEF Column
      <4> QED BY <3>1, <4>1, NoRowIsNone DEF Has
    <3>3. view[b][m].replies = table[m].replies
      <4>1. CASE m \in Existing
        <5>1. thread[b] = {}
          BY <1>0, <1>4, <4>1 DEF SendInv
        <5>2. view[b][m].replies + Cardinality(Underway(b, m)) + (IF Midway(m) = {} THEN 0 ELSE 1) = table[m].replies
          BY <1>0, <1>4, <3>1, <4>1, <5>1, NoRowIsNone DEF Agreeing, RepliesCome
        <5>3. Underway(b, m) = {} /\ Midway(m) = {}
          BY <1>2 DEF Underway, Midway, ActiveOn, On
        <5>4. Cardinality(Underway(b, m)) = 0
          BY <5>3, FS_EmptySet
        <5>5. view[b][m].replies \in Nat
          BY <3>1 DEF Shown
        <5> QED BY <5>2, <5>3, <5>4, <5>5
      <4>2. CASE m \notin Existing
        BY <1>0, <1>4, <3>1, <4>2, NoRowIsNone, Unreplied DEF PlacedInv
      <4> QED BY <4>1, <4>2
    <3>4. ShownOf(b, table[m]) = [content |-> table[m].content, pinned |-> table[m].pinned,
                                 reactions |-> table[m].reactions, replies |-> table[m].replies]
      BY <1>4, <2>3 DEF ShownOf, Belongs
    <3>5. view[b][m].pinned = table[m].pinned
      BY <2>0, <3>1, <3>2 DEF Shown, Row
    <3>6. view[b][m] = [content |-> view[b][m].content, pinned |-> view[b][m].pinned,
                        reactions |-> view[b][m].reactions, replies |-> view[b][m].replies]
      BY <3>1 DEF Shown
    <3> QED BY <3>2, <3>3, <3>4, <3>5, <3>6
  <2> QED BY <2>2, <2>3
<1> QED BY <1>3, <1>4

\* Once nothing of it is under way, a browser shows a message as the table has it,
\* unless it may not know of what happened to it since its last fetch.
THEOREM ViewsHold == Spec => []ViewsAgree
BY ViewsInit, ViewsStep, Views, PTL DEF Spec
=============================================================================
