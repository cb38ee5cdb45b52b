------------------------------ MODULE ChatPage ------------------------------
(***************************************************************************)
(* The chat page of one user, who finds people and channels with it.  The  *)
(* sidebar shows the channels that its query has listed and the members of *)
(* the workspace: a click on a person opens the direct channel that the    *)
(* list has with this person, or asks the API for one.  The address names  *)
(* the open channel; the page beside the sidebar is rendered again by the  *)
(* web server, with a list of its own, for every new address.              *)
(*                                                                         *)
(* Everybody else, and requests that no page sends, are those of Channels. *)
(* A list arrives in the step that reads it.  Left out: searching, pages   *)
(* of more than fifty channels, and losing the role in the workspace.      *)
(***************************************************************************)
EXTENDS Channels

CONSTANT Me

ASSUME MeAssumption == Me \in Caller

\* before the first list, and what getChannels answers instead of an error
NoList == {}

VARIABLES
    side,       \* the list that the sidebar shows, NoList at first
    page,       \* the list that the page was rendered with
    rendered,   \* is it the page of the present address
    address,    \* the channel that it names, {} for none
    meant,      \* history: the person who was clicked for it, {} for none
    asked,      \* requests that the page has sent
    disturbed   \* history: channels whose members or name were chosen otherwise
                \* than by opening a direct channel

shown == <<side, page, rendered, address, meant>>
pageVars == <<shown, asked, disturbed>>
chatVars == <<vars, pageVars>>

ChatInit ==
    /\ Init
    /\ side = NoList /\ page = NoList
    /\ rendered = FALSE
    /\ address = {} /\ meant = {}
    /\ asked = {} /\ disturbed = {}

-----------------------------------------------------------------------------

\* what a list says of channels
Listed ==
    {[id |-> c, type |-> table[c].type, members |-> {u \in User : IsMember(table[c], u)}] :
        c \in Visible(Me)}

\* Mutant of DirectWith: oneself is looked for as everybody else is.
MutDirectWith(v) == {e \in side : e.type = "DIRECT" /\ v \in e.members}

\* the direct channels in which the sidebar finds v: for oneself those with
\* nobody else, for another person those where this person is, whoever else is
DirectWith(v) ==
    {e \in side : e.type = "DIRECT" /\ (IF v = Me THEN e.members = {Me} ELSE v \in e.members)}

\* the channel that the page shows: the one that the address names, else the
\* first of its list, here any
Open ==
    IF address # {} /\ \E e \in page : e.id \in address
    THEN {e \in page : e.id \in address} ELSE page

\* push a new address, or the same one
Push(c, v) ==
    /\ address' = {c}
    /\ meant' = v
    /\ rendered' = FALSE

\* The query channels, mounted or fetched again; a list of no channels is made
\* by a request of its own, see List.
ReadSide ==
    /\ Visible(Me) # {}
    /\ side' = Listed
    /\ UNCHANGED <<vars, page, rendered, address, meant, asked, disturbed>>

\* the page is rendered with the list of getChannels
Render ==
    /\ ~rendered
    /\ rendered' = TRUE
    /\ \/ Visible(Me) # {} /\ page' = Listed
       \/ page' = NoList
    /\ UNCHANGED <<vars, side, address, meant, asked, disturbed>>

\* a link to a channel of the sidebar
ClickChannel(e) ==
    /\ e \in side /\ e.type # "DIRECT"
    /\ Push(e.id, {})
    /\ UNCHANGED <<vars, side, page, asked, disturbed>>

\* a person whom the sidebar finds in a direct channel
ClickPerson(v) ==
    /\ \E e \in DirectWith(v) : Push(e.id, {v})
    /\ UNCHANGED <<vars, side, page, asked, disturbed>>

\* a request of the page
Ask(q, c) ==
    /\ Receive(q, c)
    /\ asked' = asked \cup {q}
    /\ UNCHANGED <<shown, disturbed>>

\* handleCreateDM for a person whom the sidebar does not find, as when it has no
\* list yet
CreateDM(q, v) ==
    /\ DirectWith(v) = {}
    /\ Ask(q, [kind |-> "openDirect", by |-> Me, with |-> v])

\* the dialog makes no direct channels
CreateChannel(q, n, t) ==
    /\ t # "DIRECT"
    /\ Ask(q, [kind |-> "create", by |-> Me, name |-> n, type |-> t])

\* the header of a channel that is not direct offers to add who is no member in
\* the list of the page
Offers(e, v) == e.type # "DIRECT" /\ v \notin e.members

AddFromHeader(q, v) ==
    \E e \in Open :
        /\ rendered /\ Offers(e, v)
        /\ Ask(q, [kind |-> "add", by |-> Me, on |-> e.id, who |-> v])

\* the message list posts the read cursor of the open channel
MarkRead(q) ==
    \E e \in Open :
        /\ rendered
        /\ Ask(q, [kind |-> "read", by |-> Me, on |-> e.id])

\* the input of the open channel sends a message, also to a public channel that
\* the user has not joined
PostMessage(q) ==
    \E e \in Open :
        /\ rendered
        /\ Ask(q, [kind |-> "post", by |-> Me, on |-> e.id])

\* the API makes the first channel for a list, of the sidebar or of the page
List(q) ==
    /\ Visible(Me) = {}
    /\ Ask(q, [kind |-> "list", by |-> Me])

\* other users, with whatever client
Others(q) ==
    /\ \E c \in Command : c.by # Me /\ Receive(q, c)
    /\ UNCHANGED pageVars

-----------------------------------------------------------------------------
(* The API goes on with q, and answers.                                    *)

\* history of a step that q may have saved in
Disturb(q) ==
    disturbed' = disturbed \cup
        (IF table' = table THEN {}
         ELSE IF op[q].kind \in {"add", "remove", "rename"} THEN {op[q].on}
         ELSE IF op[q].kind \in {"create", "list"}
              THEN {c \in Channel : table'[c] # NoRow /\ table[c] = NoRow}
         ELSE {})

\* the channel that a successful answer to q names
Answered(q) ==
    CASE pc[q] = "findName" -> Named(PairName(op[q].by, op[q].with))
      [] pc[q] = "save" /\ Creates(q) -> {c \in Channel : table'[c] # NoRow /\ table[c] = NoRow}
      [] OTHER -> {}

\* the page follows the answer to a request of its own
Follow(q) ==
    IF q \in asked /\ pc'[q] = "done" /\ op[q].kind \in {"openDirect", "create"}
    THEN \E c \in Answered(q) :
            /\ Push(c, IF op[q].kind = "openDirect" THEN {op[q].with} ELSE {})
            /\ UNCHANGED <<side, page>>
    ELSE UNCHANGED shown

Serve(q) ==
    /\ Find(q) \/ FindName(q) \/ Count(q) \/ Save(q)
    /\ Follow(q) /\ Disturb(q)
    /\ UNCHANGED asked

Fail(q) ==
    /\ Throws(q)
    /\ Disturb(q)
    /\ UNCHANGED <<shown, asked>>

ChatNext ==
    \/ ReadSide \/ Render
    \/ \E e \in side : ClickChannel(e)
    \/ \E v \in Registered : ClickPerson(v)
    \/ \E q \in Request :
        \/ \E v \in Registered : CreateDM(q, v) \/ AddFromHeader(q, v)
        \/ \E n \in ChosenName, t \in ChannelType : CreateChannel(q, n, t)
        \/ MarkRead(q) \/ PostMessage(q) \/ List(q) \/ Others(q) \/ Serve(q) \/ Fail(q)

ChatSpec == ChatInit /\ [][ChatNext]_chatVars

-----------------------------------------------------------------------------

Entry == [id : Channel, type : ChannelType, members : SUBSET User]

ChatTypeOK ==
    /\ TypeOK
    /\ side \subseteq Entry /\ page \subseteq Entry
    /\ rendered \in BOOLEAN
    /\ address \subseteq Channel /\ meant \subseteq User
    /\ asked \subseteq Request /\ disturbed \subseteq Channel

\* Who clicks a person gets a direct channel with this person and nobody else,
\* from whatever old list and whatever others do, unless the channel is one
\* that had members added or removed, was renamed, or was made under the name
\* of a pair; and the page shows this channel, or none when it has no list.
PersonIsReached ==
    \A v \in meant : \A c \in address \ disturbed :
        /\ table[c].type = "DIRECT"
        /\ {u \in User : IsMember(table[c], u)} = {Me, v}
        /\ rendered /\ page # NoList =>
              Open = {[id |-> c, type |-> "DIRECT", members |-> {Me, v}]}
=============================================================================
