-------------------------------- MODULE Chat --------------------------------
(***************************************************************************)
(* The messages of one channel: the rows in the database, the handlers of  *)
(* ChatGateway in every API process, and the lists that browsers show.     *)
(* A handler loads a whole message (findById), changes the copy, saves all *)
(* columns and reactions of the copy, and only then tells the room.  Rooms *)
(* live in the memory of one process and no adapter joins them, so an      *)
(* event reaches the browsers whose socket is in the room at that process. *)
(* A list is that of a ChatArea, with the messages of the channel, or that *)
(* of a ThreadPanel, with the replies to one; each has a socket of its own *)
(* and a query of its own.  It is changed before the gateway is asked, has *)
(* the events applied in the order they arrive, and is replaced by a fetch.*)
(*                                                                         *)
(* An action ends at an await.  A message is told apart by its last text,  *)
(* the request that wrote it; there is one emoji.  Membership is left out: *)
(* the channel admits a message or refuses it.  So are the marks of what   *)
(* has been read, the notices of who types, and attachments.               *)
(***************************************************************************)
EXTENDS Naturals, FiniteSets, Sequences, FiniteSetsExt

CONSTANTS
    Process,      \* API processes
    Browser,      \* one list each, of users of their own
    Message,      \* ids
    Existing,     \* the messages that are there at first
    Request,      \* calls of gateway handlers
    MaxConnect,   \* bound on the sockets that browsers open
    MaxFetch,     \* bound on the fetches of browsers
    MaxFault      \* bound on handlers that throw

ASSUME ExistingAssumption == Existing \subseteq Message
ASSUME BoundAssumption == MaxConnect \in Nat /\ MaxFetch \in Nat /\ MaxFault \in Nat

\* The kind of a message that does not exist, or that a list does not show.
NoRow == [content |-> {}]

\* the text of a message: the request that wrote it, or what was there at first
Text == {{q} : q \in Request} \cup {{"first"}}

\* a column that may be null holds {} or {value}
Row == [content : Text, pinned : BOOLEAN, deleted : BOOLEAN,
        reactions : SUBSET Browser, replies : Nat, sender : Browser,
        parent : {{}} \cup {{m} : m \in Message}]

Shown == [content : Text, pinned : BOOLEAN,
          reactions : SUBSET Browser, replies : Nat]

Kind == {"edit", "delete", "pin", "unpin", "react", "unreact"}

\* message:send of a new message, a reply when "to" names its parent, and the
\* handlers that change a message; sent by a browser, over its socket number n,
\* to the process "at"
Command == [kind : {"send"} \cup Kind, on : Message, to : {{}} \cup {{m} : m \in Message},
            by : Browser, n : Nat, at : Process]

NoCommand == [kind |-> "none"]

VARIABLES
    thread,     \* the message whose replies a browser shows, {} for the channel
    table,      \* the row of each message
    pc,         \* the await a request stands at
    op,         \* its command
    loaded,     \* what its last findById of the message, or the parent, returned
    server,     \* the process that the socket of a browser is connected to, if any
    sockets,    \* the number of sockets it has opened, so the name of the last
    joined,     \* whether the socket is in the room of the channel
    inbox,      \* events on their way to the browser
    view,       \* the list it shows
    temp,       \* its temp- messages, by the request that sends them
    fetch,      \* the answer that a fetch is bringing, if one is under way
    fetches,
    faults,
    \* history
    raced,      \* messages that were saved from a copy the table had left behind
    doubt,      \* messages that the list of a browser may show wrongly
    hazy,       \* messages in motion while a fetch was under way
    unanswered, \* requests whose answer was lost
    orphans     \* requests counted as replies that died before the reply was saved

store   == <<table, raced, orphans>>
handler == <<pc, op, loaded>>
socket  == <<server, sockets, joined>>
list    == <<view, temp>>
fetching == <<fetch, fetches>>
vars == <<thread, store, handler, socket, inbox, list, fetching, faults, doubt, hazy, unanswered>>

InFlight == {q \in Request : pc[q] \notin {"idle", "waits", "done"}}
On(c) == {c.on} \cup c.to
ActiveOn(m) == \E q \in InFlight : m \in On(op[q])

-----------------------------------------------------------------------------
(* The methods of a message, on a copy w: the set holds the changed copy,  *)
(* and is empty when the method returns Result.fail.                       *)

\* Mutant of Edit: deletedAt is not looked at.
MutEdit(w, q) == {[w EXCEPT !.content = {q}]}

Edit(w, q) == IF w.deleted THEN {} ELSE {[w EXCEPT !.content = {q}]}

SoftDelete(w) == IF w.deleted THEN {} ELSE {[w EXCEPT !.deleted = TRUE]}

Execute(c, q, w) ==
    CASE c.kind = "edit"    -> Edit(w, q)
      [] c.kind = "delete"  -> SoftDelete(w)
      [] c.kind \in {"pin", "unpin"} -> {[w EXCEPT !.pinned = (c.kind = "pin")]}
      [] c.kind = "react"   -> {[w EXCEPT !.reactions = @ \cup {c.by}]}
      [] c.kind = "unreact" -> {[w EXCEPT !.reactions = @ \ {c.by}]}

\* Message.create, for a reply to p or a message without parent
Created(t, b, p) ==
    [content |-> {t}, pinned |-> FALSE, deleted |-> FALSE, reactions |-> {},
     replies |-> 0, sender |-> b, parent |-> p]

\* Mutant of Counted: the replies to a deleted message are not counted.
MutCounted(w) == IF w.deleted THEN w ELSE [w EXCEPT !.replies = @ + 1]

\* updateReplyCount
Counted(w) == [w EXCEPT !.replies = @ + 1]

\* save: every column and the reactions are written from the copy
Put(m, w, from) ==
    /\ table' = [table EXCEPT ![m] = w]
    /\ raced' = IF from = table[m] THEN raced ELSE raced \cup {m}

-----------------------------------------------------------------------------
(* The list of a browser.                                                  *)

\* findThreadReplies for the panel of a thread, and findByChannelId with no parent
Belongs(b, w) == w # NoRow /\ w.parent = thread[b] /\ ~w.deleted

\* what the list of b shows of the row w
ShownOf(b, w) ==
    IF ~Belongs(b, w) THEN NoRow
    ELSE [content |-> w.content, pinned |-> w.pinned,
          reactions |-> w.reactions, replies |-> w.replies]

\* the list l with the messages of M changed by f, those it shows
WithContent(l, m, c) == IF l[m] = NoRow THEN l ELSE [l EXCEPT ![m].content = c]
WithPinned(l, m, p) == IF l[m] = NoRow THEN l ELSE [l EXCEPT ![m].pinned = p]
WithReactions(l, m, r) == IF l[m] = NoRow THEN l ELSE [l EXCEPT ![m].reactions = r]

\* Mutant of WithReply: replies are left to the panel.
MutWithReply(l, M) == l

WithReply(l, M) ==
    [m \in Message |->
        IF m \in M /\ l[m] # NoRow THEN [l[m] EXCEPT !.replies = @ + 1] ELSE l[m]]
Without(l, m) == [l EXCEPT ![m] = NoRow]

\* what the browser does to its list before it calls the gateway
Optimistic(l, c, q) ==
    CASE c.kind = "edit"    -> WithContent(l, c.on, {q})
      [] c.kind = "delete"  -> Without(l, c.on)
      [] c.kind \in {"pin", "unpin"} -> WithPinned(l, c.on, c.kind = "pin")
      [] c.kind = "react"   -> WithReactions(l, c.on, l[c.on].reactions \cup {c.by})
      [] c.kind = "unreact" -> WithReactions(l, c.on, l[c.on].reactions \ {c.by})
      [] c.kind = "send"    -> l

\* the event that the handler emits when it is done with copy w
Told(c, q, w) ==
    CASE c.kind = "send"   -> [type |-> "received", c |-> c, row |-> w]
      [] c.kind = "edit"   -> [type |-> "edited", c |-> c, row |-> [content |-> {q}]]
      [] c.kind = "delete" -> [type |-> "deleted", c |-> c, row |-> NoRow]
      [] c.kind \in {"pin", "unpin"} -> [type |-> "pinned", c |-> c, row |-> NoRow]
      [] c.kind \in {"react", "unreact"} ->
            [type |-> "reactions", c |-> c, row |-> [reactions |-> w.reactions]]

\* the answer to the sender of a new message
Answer(type, c, q) == [type |-> type, c |-> c, row |-> [content |-> {q}]]

\* messagePayload: the reactions, the replies and deletedAt of the row are not sent
AsNew(w) == [w EXCEPT !.reactions = {}, !.replies = 0, !.deleted = FALSE]

\* the panel passes no callback for pins
IsDeafTo(b, type) == thread[b] # {} /\ type = "pinned"

\* The panel takes the replies to its message, and the list of the channel
\* counts a reply or takes a message.
Received(b, l, e) ==
    IF e.c.to = thread[b] THEN [l EXCEPT ![e.c.on] = ShownOf(b, AsNew(e.row))]
    ELSE IF thread[b] = {} THEN WithReply(l, e.c.to)
    ELSE l

\* the callbacks of useChatSocket and the acknowledgement of a send
Apply(b, l, t, e) ==
    LET m == e.c.on IN
    CASE IsDeafTo(b, e.type)  -> l
      [] e.type = "received"  -> Received(b, l, e)
      [] e.type = "edited"    -> WithContent(l, m, e.row.content)
      [] e.type = "deleted"   -> Without(l, m)
      [] e.type = "pinned" /\ ~IsDeafTo(b, e.type) -> WithPinned(l, m, e.c.kind = "pin")
      [] e.type = "reactions" -> WithReactions(l, m, e.row.reactions)
      [] e.type = "success"   ->
            IF ~(e.row.content \subseteq t) THEN l
            ELSE [l EXCEPT ![m] = ShownOf(b, Created(CHOOSE q \in e.row.content : TRUE, b, e.c.to))]
      [] e.type = "error"     -> l

Init ==
    /\ thread \in [Browser -> {{}} \cup {{m} : m \in Existing}]
    /\ \E by \in [Existing -> Browser] :
          table = [m \in Message |->
                    IF m \in Existing THEN Created("first", by[m], {}) ELSE NoRow]
    /\ raced = {}
    /\ orphans = [m \in Message |-> {}]
    /\ pc = [q \in Request |-> "idle"]
    /\ op = [q \in Request |-> NoCommand]
    /\ loaded = [q \in Request |-> NoRow]
    /\ server = [b \in Browser |-> {}]
    /\ sockets = [b \in Browser |-> 0]
    /\ joined = [b \in Browser |-> FALSE]
    /\ inbox = [b \in Browser |-> <<>>]
    /\ view = [b \in Browser |-> [m \in Message |-> NoRow]]
    /\ temp = [b \in Browser |-> {}]
    /\ fetch = [b \in Browser |-> {}]
    /\ fetches = 0
    /\ faults = 0
    /\ doubt = [b \in Browser |-> Existing]
    /\ hazy = [b \in Browser |-> {}]
    /\ unanswered = {}

\* the temp- messages t after event e: a new message is renamed or taken back
Settled(t, e) == IF e.type \in {"success", "error"} THEN t \ e.row.content ELSE t

-----------------------------------------------------------------------------
(* Sockets.                                                                *)

Connect(b, p) ==
    /\ server[b] = {} /\ MapThenSumSet(LAMBDA a : sockets[a], Browser) < MaxConnect
    /\ server' = [server EXCEPT ![b] = {p}]
    /\ sockets' = [sockets EXCEPT ![b] = @ + 1]
    /\ UNCHANGED <<joined, store, handler, inbox, list, fetching, faults, doubt, hazy, unanswered>>

\* the socket that the command went over, or will go over, is open
Reachable(c) == server[c.by] = {c.at} /\ sockets[c.by] = c.n

\* On connecting the socket sends what has waited for it, and only then what its
\* listeners and later clicks send.
Flushed(b) == \A q \in Request : pc[q] = "waits" /\ op[q].by = b => ~Reachable(op[q])

HandleJoinChannel(b) ==
    /\ server[b] # {} /\ ~joined[b] /\ Flushed(b)
    /\ joined' = [joined EXCEPT ![b] = TRUE]
    /\ UNCHANGED <<server, sockets, store, handler, inbox, list, fetching, faults, doubt, hazy, unanswered>>

InTransit(b) == {inbox[b][i] : i \in 1..Len(inbox[b])}

\* The connection breaks: what is on its way is lost.
HandleDisconnect(b) ==
    /\ server[b] # {}
    /\ server' = [server EXCEPT ![b] = {}]
    /\ joined' = [joined EXCEPT ![b] = FALSE]
    /\ inbox' = [inbox EXCEPT ![b] = <<>>]
    /\ doubt' = [doubt EXCEPT ![b] = @ \cup UNION {On(e.c) : e \in InTransit(b)}]
    /\ unanswered' = unanswered \cup
            UNION {e.row.content : e \in {e \in InTransit(b) : e.type \in {"success", "error"}}}
    /\ UNCHANGED <<sockets, store, handler, list, fetching, faults, hazy>>

\* An event or an answer arrives.
Arrives(b) ==
    /\ inbox[b] # <<>>
    /\ LET e == Head(inbox[b]) IN
        /\ view' = [view EXCEPT ![b] = Apply(b, @, temp[b], e)]
        /\ temp' = [temp EXCEPT ![b] = Settled(@, e)]
    /\ inbox' = [inbox EXCEPT ![b] = Tail(@)]
    /\ UNCHANGED <<store, handler, socket, fetching, faults, doubt, hazy, unanswered>>

\* what the API answers for the list of b
Listed(b) == [m \in Message |-> ShownOf(b, table[m])]

\* The messages of the channel, or the replies, are read for a browser, by the
\* server that renders the page or by useQuery.
ListMessages(b) ==
    /\ fetch[b] = {} /\ fetches < MaxFetch
    /\ fetches' = fetches + 1
    /\ fetch' = [fetch EXCEPT ![b] = {Listed(b)}]
    /\ hazy' = [hazy EXCEPT ![b] =
            {m \in Message : ActiveOn(m) \/ \E e \in InTransit(b) : m \in On(e.c)}]
    /\ UNCHANGED <<store, handler, socket, inbox, list, faults, doubt, unanswered>>

\* The answer replaces the list, temp- messages included.
Fetched(b) ==
    /\ \E l \in fetch[b] : view' = [view EXCEPT ![b] = l]
    /\ temp' = [temp EXCEPT ![b] = {}]
    /\ fetch' = [fetch EXCEPT ![b] = {}]
    /\ doubt' = [doubt EXCEPT ![b] = hazy[b]]
    /\ hazy' = [hazy EXCEPT ![b] = {}]
    /\ UNCHANGED <<store, handler, socket, inbox, fetches, faults, unanswered>>

-----------------------------------------------------------------------------
(* The handlers of the gateway.                                            *)

\* the items of the menu of a message that b shows: what it shows is toggled,
\* and its own messages are changed
Menu(b, m) ==
    {IF view[b][m].pinned THEN "unpin" ELSE "pin",
     IF b \in view[b][m].reactions THEN "unreact" ELSE "react"}
    \cup (IF table[m].sender = b THEN {"edit", "delete"} ELSE {})

\* a new message, or a reply to the message whose thread is shown
Sends(b, c) ==
    c.kind = "send" /\ c.to = thread[b] /\ table[c.on] = NoRow /\ ~ActiveOn(c.on)

\* An item is chosen; the item of a temp- message does nothing.
Acts(b, c) == c.to = {} /\ view[b][c.on] # NoRow /\ c.kind \in Menu(b, c.on)

\* what the user of browser b may ask for over an open socket
Asks(b, c) ==
    /\ server[b] = {c.at} /\ c.by = b /\ c.n = sockets[b] /\ Flushed(b)
    /\ Sends(b, c) \/ Acts(b, c)

\* The browser changes its list and calls the gateway; it does not look at the
\* answer, except at that of a new message or reply.  The command may be lost with
\* a connection that is broken already, or be refused: most handlers look the user
\* up in connectedUsers, where handleConnection enters the socket once the token is
\* verified.
Receive(b, q, c) ==
    /\ pc[q] = "idle" /\ Asks(b, c)
    /\ view' = [view EXCEPT ![b] = Optimistic(@, c, q)]
    /\ \/ /\ Acts(b, c)
          /\ pc' = [pc EXCEPT ![q] = "done"]
          /\ doubt' = [doubt EXCEPT ![b] = @ \cup {c.on}]
          /\ UNCHANGED <<op, temp, hazy>>
       \/ /\ pc' = [pc EXCEPT ![q] = IF c.kind = "send" THEN "channel" ELSE "find"]
          /\ op' = [op EXCEPT ![q] = c]
          /\ temp' = IF c.kind = "send" THEN [temp EXCEPT ![b] = @ \cup {q}] ELSE temp
          /\ doubt' = [a \in Browser |-> doubt[a] \cup {m \in On(c) : ActiveOn(m)}]
          /\ hazy' = [a \in Browser |-> IF fetch[a] = {} THEN {} ELSE hazy[a] \cup On(c)]
    /\ UNCHANGED <<loaded, store, socket, inbox, fetching, faults, unanswered>>

\* Nothing keeps the user from the menu while the socket is down: the list is
\* changed and the command waits for the socket that is opened next, wherever.
\* sendMessage does look at the socket, and a new message is taken back at once.
ReceiveLater(b, q, c) ==
    /\ pc[q] = "idle" /\ server[b] = {}
    /\ Acts(b, c) /\ c.by = b /\ c.n = sockets[b] + 1
    /\ view' = [view EXCEPT ![b] = Optimistic(@, c, q)]
    /\ doubt' = [doubt EXCEPT ![b] = @ \cup {c.on}]
    /\ pc' = [pc EXCEPT ![q] = "waits"]
    /\ op' = [op EXCEPT ![q] = c]
    /\ UNCHANGED <<loaded, store, socket, inbox, temp, fetching, faults, hazy, unanswered>>

GoTo(q, stage) == pc' = [pc EXCEPT ![q] = stage]

\* The command that has waited reaches its handler, the list may be another by now.
Flush(q) ==
    LET c == op[q] IN
    /\ pc[q] = "waits" /\ Reachable(c)
    /\ GoTo(q, "find")
    /\ doubt' = [a \in Browser |->
            IF a = c.by \/ ActiveOn(c.on) THEN doubt[a] \cup {c.on} ELSE doubt[a]]
    /\ hazy' = [a \in Browser |-> IF fetch[a] = {} THEN {} ELSE hazy[a] \cup {c.on}]
    /\ UNCHANGED <<op, loaded, store, socket, inbox, list, fetching, faults, unanswered>>

End(q) ==
    /\ pc' = [pc EXCEPT ![q] = "done"]
    /\ op' = [op EXCEPT ![q] = NoCommand]
    /\ loaded' = [loaded EXCEPT ![q] = NoRow]

\* Or it never does: reconnecting is given up, the socket is replaced with what
\* waits for it, the page is left, or the command is lost or refused.
Discard(q) ==
    /\ pc[q] = "waits"
    /\ End(q)
    /\ UNCHANGED <<store, socket, inbox, list, fetching, faults, doubt, hazy, unanswered>>

\* SendMessageHandler loads the channel, which admits the message or not.
SendMessage(q) ==
    /\ pc[q] = "channel"
    /\ LET c == op[q] IN
        \/ /\ GoTo(q, IF c.to = {} THEN "saveMessage" ELSE "findParent")
           /\ UNCHANGED <<op, loaded, inbox, unanswered>>
        \/ /\ End(q)
           /\ IF c.kind = "send" /\ Reachable(c)
              THEN /\ inbox' = [inbox EXCEPT ![c.by] = Append(@, Answer("error", c, q))]
                   /\ UNCHANGED unanswered
              ELSE /\ unanswered' = unanswered \cup {q}
                   /\ UNCHANGED inbox
    /\ UNCHANGED <<store, socket, list, fetching, faults, doubt, hazy>>

\* findById of the repository
FindById(q, m) == loaded' = [loaded EXCEPT ![q] = table[m]]

FindParent(q) ==
    /\ pc[q] = "findParent"
    /\ \E m \in op[q].to : FindById(q, m)
    /\ GoTo(q, "saveParent")
    /\ UNCHANGED <<op, store, socket, inbox, list, fetching, faults, doubt, hazy, unanswered>>

\* findById and the method; a failure is not told to the list
Find(q) ==
    /\ pc[q] = "find"
    /\ IF Execute(op[q], q, table[op[q].on]) = {} THEN End(q)
       ELSE /\ FindById(q, op[q].on)
            /\ GoTo(q, "save")
            /\ UNCHANGED op
    /\ UNCHANGED <<store, socket, inbox, list, fetching, faults, doubt, hazy, unanswered>>

\* the transaction of save, by the await that the request stands at
Commit(q) ==
    LET c == op[q] IN
    \/ /\ pc[q] = "saveParent"
       /\ \E m \in c.to : Put(m, Counted(loaded[q]), loaded[q])
    \/ /\ pc[q] = "saveMessage"
       /\ Put(c.on, Created(q, c.by, c.to), NoRow)
    \/ /\ pc[q] = "save"
       /\ \E w \in Execute(c, q, loaded[q]) : Put(c.on, w, loaded[q])

Save(q) ==
    /\ Commit(q)
    /\ GoTo(q, IF pc[q] = "saveParent" THEN "saveMessage"
               ELSE IF op[q].kind \in {"send", "react"} THEN "readBack" ELSE "emit")
    /\ loaded' = [loaded EXCEPT ![q] =
            IF pc[q] = "save" THEN CHOOSE w \in Execute(op[q], q, @) : TRUE ELSE NoRow]
    /\ UNCHANGED <<op, orphans, socket, inbox, list, fetching, faults, doubt, hazy, unanswered>>

\* a new message, or the reactions, are read again before they are told
ReadBack(q) ==
    /\ pc[q] = "readBack"
    /\ FindById(q, op[q].on)
    /\ GoTo(q, "emit")
    /\ UNCHANGED <<op, store, socket, inbox, list, fetching, faults, doubt, hazy, unanswered>>

\* client.to(room), without the socket of the sender, for a new message or
\* reply; server.to(room) for the rest
Room(c) ==
    {b \in Browser :
        /\ joined[b] /\ server[b] = {c.at}
        /\ ~(c.kind = "send" /\ b = c.by /\ Reachable(c))}

\* the room is told, and a new message is answered
Emit(q) ==
    /\ pc[q] = "emit"
    /\ LET c == op[q]
           answered == IF c.kind = "send" /\ Reachable(c) THEN {c.by} ELSE {}
       IN
        /\ inbox' = [b \in Browser |->
                inbox[b] \o (IF b \in Room(c) THEN <<Told(c, q, loaded[q])>> ELSE <<>>)
                         \o (IF b \in answered THEN <<Answer("success", c, q)>> ELSE <<>>)]
        /\ doubt' = [b \in Browser |->
                IF b \in Room(c) \cup answered /\ (b = c.by \/ ~IsDeafTo(b, Told(c, q, loaded[q]).type))
                THEN doubt[b] ELSE doubt[b] \cup On(c)]
        /\ unanswered' = IF answered = {} THEN unanswered \cup {q} ELSE unanswered
    /\ End(q)
    /\ UNCHANGED <<store, socket, list, fetching, faults, hazy>>

\* A statement throws, the save being applied or not, or the process dies, which
\* breaks its sockets too: nobody is told.
Throws(q) ==
    /\ q \in InFlight /\ faults < MaxFault
    /\ faults' = faults + 1
    /\ LET c == op[q] IN
        /\ \/ /\ Commit(q)
              /\ orphans' = IF pc[q] = "saveParent"
                            THEN [m \in Message |-> IF m \in c.to THEN orphans[m] \cup {q} ELSE orphans[m]]
                            ELSE orphans
           \/ /\ UNCHANGED <<table, raced>>
              /\ orphans' = IF pc[q] = "saveMessage"
                            THEN [m \in Message |-> IF m \in c.to THEN orphans[m] \cup {q} ELSE orphans[m]]
                            ELSE orphans
        /\ doubt' = [b \in Browser |-> doubt[b] \cup On(c)]
    /\ unanswered' = unanswered \cup {q}
    /\ End(q)
    /\ UNCHANGED <<socket, inbox, list, fetching, hazy>>

Next ==
    /\ UNCHANGED thread
    /\ \/ \E b \in Browser :
           \/ \E p \in Process : Connect(b, p)
           \/ HandleJoinChannel(b) \/ HandleDisconnect(b)
           \/ Arrives(b) \/ ListMessages(b) \/ Fetched(b)
           \/ \E q \in Request, k \in Kind \cup {"send"}, m \in Message,
                 to \in {{}, thread[b]}, at \in server[b] :
               Receive(b, q, [kind |-> k, on |-> m, to |-> to, by |-> b, n |-> sockets[b], at |-> at])
           \/ \E q \in Request, k \in Kind, m \in Message, at \in Process :
               ReceiveLater(b, q, [kind |-> k, on |-> m, to |-> {}, by |-> b,
                                   n |-> sockets[b] + 1, at |-> at])
       \/ \E q \in Request :
           \/ Flush(q) \/ Discard(q)
           \/ SendMessage(q) \/ FindParent(q) \/ Find(q) \/ Save(q) \/ ReadBack(q)
           \/ Emit(q) \/ Throws(q)

Spec == Init /\ [][Next]_vars

-----------------------------------------------------------------------------

TypeOK ==
    /\ thread \in [Browser -> {{}} \cup {{m} : m \in Existing}]
    /\ table \in [Message -> Row \cup {NoRow}]
    /\ pc \in [Request -> {"idle", "waits", "channel", "findParent", "saveParent", "saveMessage",
                           "find", "save", "readBack", "emit", "done"}]
    /\ op \in [Request -> Command \cup {NoCommand}]
    /\ loaded \in [Request -> Row \cup {NoRow}]
    /\ server \in [Browser -> {{}} \cup {{p} : p \in Process}]
    /\ sockets \in [Browser -> Nat]
    /\ joined \in [Browser -> BOOLEAN]
    /\ \A b \in Browser : \A e \in InTransit(b) : e.c \in Command
    /\ view \in [Browser -> [Message -> Shown \cup {NoRow}]]
    /\ temp \in [Browser -> SUBSET Request]
    /\ fetch \in [Browser -> SUBSET [Message -> Shown \cup {NoRow}]]
    /\ fetches \in 0..MaxFetch
    /\ faults \in 0..MaxFault
    /\ raced \subseteq Message
    /\ doubt \in [Browser -> SUBSET Message]
    /\ hazy \in [Browser -> SUBSET Message]
    /\ unanswered \subseteq Request
    /\ orphans \in [Message -> SUBSET Request]

\* nothing concerning m is under way at the gateway or on its way to b
AtRest(b, m) ==
    /\ ~ActiveOn(m) /\ fetch[b] = {}
    /\ \A e \in InTransit(b) : m \notin On(e.c)

\* What a browser shows of a message, once nothing is under way, is what the
\* database has of it, unless since its last fetch two requests on the message
\* overlapped, an event was told while the browser was not in the room of that
\* process, a handler failed, a command of its own was refused or lost, was given
\* while its socket was down or reached its handler after waiting for it, or the
\* message was in motion during the fetch; or, in the panel of a thread, another
\* browser pinned or unpinned the reply.
ViewsAgree ==
    \A b \in Browser, m \in Message :
        AtRest(b, m) /\ m \notin doubt[b] => view[b][m] = ShownOf(b, table[m])

\* replyCount counts the replies: it never exceeds those saved, those whose
\* request has saved the parent alone and those that died there, and it is
\* their number unless a stale copy of the parent was written back.
RepliesAreCounted ==
    \A m \in Message : table[m] # NoRow =>
        LET counted == {q \in Request : pc[q] = "saveMessage" /\ op[q].to = {m}}
            replies == {r \in Message : table[r] # NoRow /\ table[r].parent = {m}}
            n == Cardinality(replies) + Cardinality(counted \cup orphans[m])
        IN
        /\ table[m].replies <= n
        /\ m \notin raced => table[m].replies = n

\* the save that this step makes of message m comes from a copy left behind
StaleSave(m) ==
    \E q \in Request :
        /\ pc[q] \in {"save", "saveParent"} /\ pc'[q] # pc[q]
        /\ m \in (IF pc[q] = "save" THEN {op[q].on} ELSE op[q].to)
        /\ loaded[q] # table[m]

\* A deleted message stays deleted and its text does not change, although it is
\* still pinned, reacted and replied to, unless a stale copy is written back.
DeletedStaysDeleted ==
    [][\A m \in Message :
        table[m] # NoRow /\ ~StaleSave(m) /\ table[m].deleted =>
            table'[m].deleted /\ table'[m].content = table[m].content]_vars
=============================================================================
