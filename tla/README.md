# AEOS platform: TLA+ specifications

Specifications of the Adaptive Enterprise Operating System: a NestJS API over
PostgreSQL (Prisma), a Next.js web client, and the packages they share. They are
written from the code, checked with TLC on small instances, and, for several
modules, proved with TLAPS for every value of the constants.

`API` stands for `src/aeos-platform/apps/api/src`, `WEB` for
`src/aeos-platform/apps/web/src`. `PROJECT.json` maps every definition to its
lines, every property to a mutation of the model that breaks it, and every
hazard to its line.

## 1. The system

The API runs as several processes (three in
`src/aeos-platform/deploy/helm/aeos/values-onprem-prod.yaml:5`), each with its own
memory, cron timers and socket server, over one database. Every command goes the
same way: a controller builds a command, its handler *loads* a whole aggregate,
a *method* of the aggregate checks and changes the copy, and a repository
*saves* the whole copy by an upsert, with its child rows and with outbox rows in
one transaction. The base class of aggregates carries a `version` for optimistic
locking (`packages/shared-kernel/src/domain/aggregate-root.base.ts:2`), which saves
increment and no save compares. So the hard behaviour of nearly every component
is one and the same: what happens when two loads and saves overlap, in one
process between two awaits or in two processes.

The web client has the same shape once more. A page shows what a query has
cached (react-query), a mutation sends a whole value made from what is shown, and
its answer invalidates queries. So what a browser sends may come from a copy
older than the one that the API then loads.

| Component | State | Operations | Talks to | Hard | Correct when |
|---|---|---|---|---|---|
| Transactional outbox | `outbox_events`, a flag per process | saveEvent, timer, publish, COMPLETED/FAILED | all aggregates, all event handlers | replicas, crashes, errors of every statement | nothing uncommitted goes out, duplicates are bounded, order holds, each row settles |
| Idempotent handler | `processed_messages` | handle | outbox | duplicates that overlap, errors, deaths | one effect per event and consumer, retry after failure |
| Sessions | `sessions` | login, refresh (rotation, reuse detection), logout | web client | overlapping refreshes, death between saves | no two valid tokens from one rotation, a swept user is signed out |
| Web token refresh | cookie, one remembered call | jwt callback, sign-in, sign-out | sessions | requests with old cookies, one memory for all users | users keep their own tokens |
| Workspace | row, members, roles | create, update, archive, invite, accept, remove, profile | outbox, role assignment | stale saves, duplicate deliveries | the table is what the events announced, OWNER is the owner |
| Invitation page | page, role in the cookie | open link, accept, read workspaces, sign in | workspace, mail | lost answers, roles assigned late | a page that reports success belongs to a member |
| Board (project, sprint, task) | rows | status commands, start/complete sprint, seven task commands | outbox | stale saves, check before save | one active sprint, no way back from final states |
| Task views of the browser | two queries, optimistic status, open editor | drop a card, edit in the panel or in the backlog, fetch | board | fetches that answer late, lost answers, whole lists sent, fields that the API drops | what is shown settles on the row, edits hold |
| Columns of a board | one JSON value, a query per browser | first read, add, rename, delete | task views | a read that inserts, a list that is replaced | no column is lost, a task is in one column |
| Chat messages | `chat_messages`, reactions, rooms per process | gateway handlers | browsers | events against saves, lost sockets, no adapter | browsers show what is stored, replies are counted |
| Channel view and thread panel | query cache, temp- messages, commands that wait for a socket | optimistic changes, events, fetch | gateway | reordering, lost answers, changes made while the socket is down | as above |
| Channels | channels, members | create, join, add, direct channel, list, post | chat, workspace | members rewritten, channels created by a query | no lost member, one direct channel per pair |
| Chat page and sidebar | cached list, rendered list, address | click a person or channel, create, add, mark read | channels | two lists of different age | a click on a person reaches this person |
| Approvals | request, steps | create, approve, reject | projection | reviewers in parallel | status follows the steps, a rejection is final |
| Documents, forms, comments, meetings, organizations, files | rows with children | create, change | outbox, projection | stale saves, numbers from a copy | nothing published is lost, the newest version has the highest number |
| Analytics projection | counters | one handler for all events | outbox | duplicates, unmatched event names | counters equal the rows |
| Users and profile | `users` | register, login, update profile | sessions, seeder | login saves the whole row | a profile keeps what was typed last |
| Seeder | default rows | on start of each process | all tables | replicas starting together, deaths | every process listens in the end, one default of each |
| Account pages | forms, cached profile | register and sign in, edit the profile | users | a form filled again, or not at all | a page tells the truth |
| Notifications and mail | notifications | create, mark read; invitation mail | outbox | duplicates | a mail per invitation |
| Guard, queries, health, filters, packages | none | stateless | | | |

Directories with empty files only (attachment, audit, automation, calendar,
dashboard, integration, issue, member, permission, role, search) have no
behaviour.

How components interact: a save writes outbox rows in its transaction; the timer
of every process hands them to the in-memory bus of *that* process; the registry
in `API/common/events/events.module.ts` turns a row into a class that event
handlers subscribe to. Rows of an unregistered type (WorkspaceCreated, WorkspaceArchived,
TaskStatusChanged, TaskAssigned, and TaskCreatedEvent, whose
registered name differs) are published as plain objects, reach no handler and are
COMPLETED all the same. No registered event carries an `eventId`, so the
idempotent base class is passed through at present. Handlers that subscribe to
domain classes (the workspace broadcasts of the chat module, the generic
notification listener) are never called.

## 2. Modules

| Module | Models | Built on |
|---|---|---|
| `Outbox` | `API/common/events/outbox.*.ts`, bus | |
| `OutboxContract` | what the outbox promises, abstractly | instance in `Outbox` |
| `IdempotentHandler` | `API/common/events/idempotent-event-handler.ts` | |
| `Sessions` | refresh, login, logout handlers, `Session` | |
| `WebRefresh` | `WEB/lib/auth/options.ts`, `use-auth-session.ts` | extends `Sessions` |
| `Workspace` | aggregate, seven commands, repository, role assignment | |
| `Invitations` | the page of an invitation, `authorize`, the mail listener | extends `Workspace` |
| `Board` | project, sprint and task aggregates, commands, repositories | |
| `QueryCache` | one query of react-query, as the hooks of `WEB` use it | used by the next three |
| `TaskBoard` | `WEB/features/tasks`: lists, panel, and the row of a task | extends `QueryCache` |
| `BoardColumns` | board configuration of the API and `KanbanBoard.tsx` | extends `QueryCache` |
| `AccountPages` | register and login pages, profile settings | extends `Identity`, `QueryCache` |
| `Identity` | `User`, its commands, `identity.seeder.ts` | |
| `Chat` | gateway, message repository, the browser's two message lists | |
| `Channels` | `Channel`, its controller, handlers, repository | |
| `ChatPage` | page, sidebar and header of the chat | extends `Channels` |
| `Records` | approvals, documents, forms, comments, meetings, organizations, files, and the analytics projection | |
| `MC*` | instances: model values, functions, symmetry | the module |
| `*Proofs` | theorems | the module, TLAPS |

Conventions. **An action ends at an await**: what JavaScript runs between two
awaits is atomic, a Prisma call or a `$transaction` is atomic, and anything else
may happen in between. (A Prisma call that `include`s relations may be several
SELECTs; the models take it as one read, which leaves out torn copies.) `pc[q]` (`at`,
`await`, `step` where a module has two kinds of actors) names the await a request stands at, `loaded[q]` or `copy[q]` is the copy it holds. A
nullable column holds `{}` or `{value}`. A method of an aggregate is an operator from
a copy to the set of changed copies, empty when the method returns `Result.fail`. Ids,
texts and names are model values; where a text matters only as "the last one
written" it is the request that wrote it. History variables (named as such in each
module) are written and never read by a guard. `Mut*` operators are mutated forms
of the definition below them, and are used by no specification.

### Outbox and OutboxContract
`SaveEvent` commits a row with the `createdAt` that was drawn before the commit, so
it may be older than, or equal to, that of a row already there. `CronTick`, `FindMany`,
`Publish`, `UpdateCompleted`, `UpdateFailed` follow one invocation; `*Throws` are the
errors of each statement, with the effect applied or not where it can be;
`Crash` loses a process's memory and keeps the table. The contract knows four sets,
accepted, delivered, confirmed and abandoned, and says: delivered rows
were accepted, confirmed ones were delivered, nothing is taken back, and under fairness
every accepted row ends up confirmed or abandoned. `before[e]` keeps the rows
with an older `createdAt` that were committed when `e` was, which is what order can mean
here.

### IdempotentHandler
The unique index on `event_id` alone decides (schema.prisma:1165), so two
consumers of one event exclude each other; the key of the delete is the pair.
`CreateThrows` is an insert that failed for another reason than P2002: the code then
deletes the pair's row, also when it belongs to another delivery. `effect` is the set of
calls whose business logic wrote something; an error, a P2002 of its own or a death may
leave it before or after that (`Interrupted`), and the mark is deleted all the same. No
event carries an `eventId` yet, so in the deployed program every call is one with `NoId`;
the module checks what the base class would promise to events that carry one, and no
hazard is listed for it.

### Sessions and WebRefresh
A session stands for its refresh token. `Request` is a set of slots that serve many
requests in turn, so runs are not bounded by the number of requests but by the
sessions. `WebRefresh` adds the browser (one cookie per user), the requests it
sends (`Visit`), and `inflight`/`inflightKey`, the one remembered promise of
`dedupRefreshToken`. A request carries the cookie that the browser had when it
was sent (`seen`).

### Workspace and Invitations
All seven commands share `Find`, the method, and `Save`; `Save` writes every column,
replaces the member rows and inserts the events. The deliveries of
`WorkspaceMemberAdded` (`Call`) take the steps of the role assignment handler; they may be
duplicated and overlap, as the outbox allows. `Throws` and `CallThrows` stop a
request or delivery anywhere. The member profile is carried by the copy and
dropped by the save, as `prisma-workspace.repository.ts:45` does although the
controller answers "Member profile updated successfully": a profile is never
stored.

`Invitations` adds the way in. A mail may have arrived once an `Invited` row is in
the outbox; the page posts the token through `AcceptInvite` of `Workspace`, may be told of an
error although the save was applied, then reads the user's workspaces and writes
the role it finds into the cookie. `Elsewhere` is the rest of `Workspace`, of which
no page hears.

### Board
One table of objects, each in the domain of its kind. `FindActive` is the await
between load and save of a sprint start. `log[t]` is the sequence of outbox rows
of a task in the order of their commits.

### QueryCache, TaskBoard and BoardColumns
`QueryCache` is one record per query and the operators that change it: at most one
fetch in flight; an invalidation restarts the fetch, unless the query has no
data yet (then the answer under way is taken); a cancel drops the answer; a fetch that fails
keeps the data. It is the library's behaviour as the hooks rely on it, and is
marked external. `missing`, `late` and `deaf` are history: which saved requests are not
in the data, or in the answer under way, and which were settled during the first
fetch.

`TaskBoard` has the queries `tasks` and `detail` of each browser and the row of one
task. `ChangeStatus` is the one optimistic mutation: it cancels the fetch, keeps a
snapshot, and shows the new status before the answer; an error brings the snapshot
back. `Place` stands for what the list sends besides (a sprint, an assignee), `Choose` for
the menus of the panel and of the task's row in the backlog, whose points (`ChoosePoints`,
`ClearPoints`) need no panel either. A field of the panel is opened (`draft`) and sent on leaving it, also
untouched; labels are sent as a whole list. `Dropped` are the updates that the API answers with "Task
updated." and of which nothing reaches the row: the remaining estimate, which `TaskController.update`
does not pass on, an original estimate that was emptied, and Clear in the backlog, whose
undefined value is not sent. An original estimate that is set becomes the remaining one too (`Changed`).
`muddled` says that a request was saved from a
list, a field or a copy that the table had left behind.

`BoardColumns` has the first read, which inserts the default row after two more
awaits and fails on the unique project if another did, and the three mutations, each of
which sends the whole list of the cache. `form` holds the statuses chosen for a new
column.

### Identity and AccountPages
`Identity` takes the start of a process statement by statement (`Find`, `Write`,
`Refused` for a unique index, `StartFails` for any other death), and the three commands on
users as load, change, save. A process that is down starts again. A login ends with the row of
its session; the rest of its life is in `Sessions`.

`AccountPages` puts browsers in front, each with one request at a time: the form for
registration, which signs in afterwards, the login form, and the profile settings, a form over the
query `profile`. Behaviours begin in one of two ways, chosen in `AccountInit` by
`seeded`: with an empty database, so that starts and registrations race, or where one
start is over and the administrator has signed in (`commands` then starts at 1), so
that settings are opened within the bounds. `MaxEdits` bounds the edits of the
settings. `touched` are the fields a user has edited since the form was filled,
`typed` what was saved last of these.

### Chat
`Receive` is a gateway handler called over a socket to one process; its awaits
are `find`, `findParent`, `saveParent`, `saveMessage`, `save`, `readBack`, `emit`. Events
go to the inboxes of the browsers in the room *of that process*. `Arrives` applies the
oldest event of an inbox to the list; `ListMessages`/`Fetched` are a fetch whose
answer may be overtaken. Each browser shows one list, chosen in `Init` by `thread`:
that of the channel, or the panel of a thread, which handles the same events by
callbacks of its own (it has none for pins). `doubt` and `hazy` record why a list may
differ: overlapping requests on the message, an event missed for lack of a room, a
handler that died, a fetch during a change, a change that was not delivered. The check of the connected user is a
nondeterministic refusal; typing, presence, attachments and read marks are left out.

Only `sendMessage` looks at the socket (a temp- message is then taken back at once, which changes
nothing). Editing, deleting, pinning and reacting change the list and emit whether there is a connection or
not. While there is none (`ReceiveLater`) the command waits (`pc` is `waits`) in the buffer of the socket,
which socket.io-client empties as soon as it is connected again and before it tells the page (`Flush`, for
whichever process answers then, `Flushed`: before anything else that the user asks for); or it is dropped with
the socket, or refused because the token of the new connection is still being verified (`Discard`). In what
order several waiting commands of one browser reach their handlers is left open.

### Channels and ChatPage
`Channels` has the commands of the controller. `FindName` and `Count` are the queries
whose empty answer makes a channel: a direct channel is found by a name made of two
sorted ids, and a user who sees no channel gets `general`. `Written` is the save:
members without a row in `users` are dropped. A message to a public channel by somebody who is
not a member is one of the commands (`post`): `SendMessageHandler` adds the sender (`Join`) and saves
the whole channel before the message; a member's message saves no channel. `told` is what the saved
requests stand for.

`ChatPage` is one user's page: the sidebar's cached list, the list that the web
server rendered the page with, the address, and the requests that clicks send, posting
to the open channel (`PostMessage`) included. The
other users are `Others`, with any client.

### Records
Seven commands make a record at once, seven load one first. `Saved` says which columns
and rows a save writes: the steps of an approval are written back, versions and
submissions are only inserted, the number of a version is taken from the copy and
that of the document is incremented in the table. `Deliver` hands an event to the
projection, at most `MaxDeliveries` times; `Delta` and `Registered` hold the names that the handler
and the registry match.

## 3. Runs

All bounds are constants in the `.cfg` files. Every run ends by itself; none
uses a state constraint. `Throws` and the like are unbounded where a request is
used once; elsewhere `MaxFault(s)` bounds them.

| Run | Instance | Shows |
|---|---|---|
| `outbox` | 2 processes, one with an overlapping timer, 2 rows, 3 faults | duplicates within the budget of faults, no event overtaken, the contract with its liveness |
| `idempotent` | 3 deliveries of one event, 1 without id, 3 faults | effects bounded by deleted marks, an event is not skipped by all its deliveries |
| `sessions` | 2 users, 3 sessions, 2 slots, 1 fault | rotation, reuse detection, exactly which sessions escape a sweep |
| `web` | 2 users, 3 visits, 4 sessions, 2 calls, 1 fault | tokens stay with their user |
| `workspace` | owner and one invited user with a page, 4 requests, 2 deliveries | events tell the table, roles, archiving, pages and cookies earned |
| `board` | 1 project, 2 sprints, 1 task, 3 requests | overlap is the only way to two active sprints, the log tells the task |
| `chat` | 2 processes, 2 browsers (channel or thread), 2 messages, 2 requests, 2 sockets, 2 fetches, 1 fault | lists agree with the table unless a named reason, also after changes made without a connection; replies are counted |
| `channels` | a chat page and another user, an id without a user, 3 channels, 3 requests | twins by overlap only, answers hold, a click reaches the person |
| `records` | one object of each kind, 2 users, 3 requests, 2 deliveries of each event | decisions, versions and submissions, counters |
| `taskboard` | 2 browsers, 2 mutations, 1 extra fetch, 1 fault | lists and panel settle, optimism, edits hold unless dropped |
| `columns` | 2 browsers, 2 mutations, 3 statuses in 2 default columns, 1 extra fetch, 1 fault | columns kept, one column per status |
| `identity` | 2 processes, 2 browsers, 3 commands, 2 edits, 1 fault | pages tell the truth, fields hold, defaults double by overlap only, a process that listens has seeded, every process listens in the end |

Why the bounds are enough to be interesting, and what they miss:

* `outbox`: every pair of steps of two processes and of an overlapping timer of one
  process occurs; with one fault in each process and a second in one, a
  row is published, lost and published again. A full batch that leaves older rows out needs
  three rows; the proofs cover any number of rows and any batch size.
* `idempotent`: three deliveries are what it takes for one to fail its insert, one to own
  the mark and one to come after the delete; the fourth has no `eventId`.
* `sessions`: two slots give every race of two requests; three sessions give a
  login, its rotation, and a second replacement by a racing request.
* `workspace`: one request creates the workspace, three overlap on it: one loads, one
  changes, one changes again (for instance remove and re-invite), which is the
  shortest way to a revived member. The page of the invited user may lose an answer,
  retry and sign in meanwhile.
* `board`: two overlapping starts and a third command on any object.
* `chat`: two requests overlap on one message in one or two processes, while one
  browser is connected elsewhere, reconnects, or fetches. A command that waits for a socket meets
  another, which waits too or does not, of the same browser or of the other.
* `channels`: two requests make twins and a third changes one of them, or one makes
  a channel and two overlap on it, for instance somebody who joins by posting and a member who
  adds another or marks what was read. Names that users type include one that looks like
  that of a direct channel.
* `records`: one request creates the object and two overlap on it; the lists of reviewers have two reviewers, the same one
  twice, and none.
* `taskboard`, `columns`: two mutations of one browser or of two, with one fetch more than
  the mutations ask for and one error, lost answer or failed fetch; each of the two faults of a
  race is tried, two at once are not.
* `identity`: two starts race on every statement and one dies anywhere; the browsers
  edit different or the same fields and save in turn or at once.

Symmetry is used in runs that check safety only; `outbox`, `idempotent` and `identity`, which
check liveness, use none.

`CHECK_DEADLOCK FALSE` is set where the instance stops because all requests,
deliveries, sockets or fetches of the instance are used up: every run but `outbox` and
`sessions`, which never stop.

Fairness. Three specifications have any. `Outbox`: for each process, weak
fairness of "some invocation of this process takes a step", because the timer fires
every five seconds as long as the process lives, database calls return or throw, and a
crashed process is restarted; nothing makes a user save. `IdempotentHandler`: weak fairness
of the steps of a call that has started; nothing makes the bus deliver. `Identity` and
`AccountPages`: weak fairness of the start of each process, because a process that ends is started
again by its deployment and a statement returns or throws; nothing makes users send
anything.

## 4. What the code does that its words do not say

Each is part of a model, and the property named states what holds all the same.

Overlap and failure:

* `IdempotentEventHandler` says "Exactly-Once processing". Business logic that
  throws after it wrote something has its mark deleted, an insert that fails for another reason
  than P2002 deletes the mark of another delivery, and the next one processes the event again;
  `EffectsAreBounded` says how often. A P2002 of the business logic itself is taken for a
  duplicate: the mark stays and the event is lost (`DeliveredTakesEffect` names it).
* `RefreshTokenHandler`: "revoke ALL sessions". A rotation under way has saved the old
  session and inserts a valid new one after the sweep; `OnlyRacingRotationsEscape`: nothing else does.
* `dedupRefreshToken` forgets the call as soon as it ends; a request still
  carrying the old cookie presents the revoked token, and the API revokes all sessions
  of an honest user.
* `AggregateRoot`: "Optimistic Locking (version)". Nothing compares it (`OutboxTellsTheTable`,
  `ClosedStaysClosed`, `AnswersHold`, `DecisionsAreFinal`, `FieldsHold` name the stale save).
* `SprintErrors`: "There is already an active sprint in this project". Two starts that
  overlap both succeed (`ActiveSprintsOverlapped`); likewise direct channels, `general`, default organizations and roles
  (`TwinsOverlapped`, `DefaultsDoubleByOverlap`).

In any order of events:

* Users who register stay PENDING: `verifyEmail` has no caller. The registration page
  signs in afterwards and never succeeds (`PagesAreTrue`). Registration also
  needs a tenant with the slug `system`, which only `packages/database/prisma/seed.ts` makes; the seeder of the
  API makes `system-root`.
* `API/common/contracts/task.contract.ts:4` registers `TaskCreatedDomainEvent`; the row says
  `TaskCreatedEvent`. Created tasks are never counted, deleted ones are (`CountersAreExplained`).
* DELETE of a task answers 204 and `api-client.ts:50` parses a body: the client reports an error.
* The panel sends the assignee as a field of the update, which the API refuses with 400
  (`TaskBoard`: `AssignInPanel`).
* "Task updated." (`task.controller.ts:139`) is also the answer to an edit of the panel's Remaining field, of which nothing is
  stored, to an emptied Original field, and to Clear in the backlog; setting Original overwrites
  Remaining, so the two are never different (`EditsHold`).
* `useChatSocket` warns "Cannot send message: Socket is not connected" for new messages only. What is edited,
  deleted, pinned or reacted to without a connection is shown at once and may never be stored
  (`ViewsAgree` names it).
* Posting to a public channel joins it, and saves all its members from a copy (`AnswersHold`).
* A board that failed to load is shown without columns; a column added there replaces
  all the others (`ColumnsAreKept`). TESTING, QA, READY_FOR_RELEASE, DEPLOYED and ON_HOLD are in no default column.
* Settings that failed to load show empty fields; saving them erases the profile (`FieldsHold`).
* A member without a role is shown as MEMBER by the list of members, also when the
  owner, and as OWNER by the owner's list of workspaces; a cookie keeps role and workspace after a removal
  (`SessionsAreEarned`).
* The sidebar opens any direct channel that a person is in, also one with third users;
  a channel that somebody has named like that of a pair is returned as the pair's
  direct channel (`PersonIsReached`).

## 5. Proofs

Eight modules, `OutboxProofs` (with `IdempotentHandler`), `SessionsProofs` (with `WebRefresh`,
`Identity` and `AccountPages`), `WorkspaceProofs` (with `Invitations`), `BoardProofs` (with
`BoardColumns`), `TaskBoardProofs`, `ChannelsProofs` (with `ChatPage`), `RecordsProofs` and
`ChatProofs`, prove theorems of the specifications for every value of the constants. Every
invariant and every action property that a run checks is a theorem here. The proofs assume only
what the module of the component assumes of its constants, all of it evaluated by the runs: that
disjoint kinds of ids are disjoint, that bounds are numbers, that the owner is a user
(`IdAssumption`, `BoundAssumption`, `OwnerAssumption` and the like). Three say more:
`DefaultAssumption` of `BoardColumns`, that the default columns are a proper list with ids of
their own, as `DEFAULT_COLUMNS` is; `AdminAssumption`, that the seeder's address is an
address; and `SeedAssumption` of `AccountPages`, that the instance has an organization and a
command, without which a behaviour could not begin seeded and signed in.

| Module | Proved besides `TypeOK` | The invariant it needs |
|---|---|---|
| Outbox | `OneRunPerProcess`, `CompletedWasPublished`, `BoundedDuplicates`, `NoOvertaking`, `RetiredRowsStayRetired`, and that every behaviour is one of `OutboxContract` | `Registers` (what an invocation holds), `Settlement` (what its batch was settled to), `Budget` (a process has published an event at most once more than it had faults, and not more often than faults while the event waits in a batch), `Order` (all that an event in a batch must follow is settled or in that batch) |
| IdempotentHandler | `EffectsAreBounded` | `Accounted`: the calls of an event that had an effect, or may still have one under their mark, are at most the mark (0 or 1) and the calls that deleted it after an effect of their own or without having set it |
| Sessions | `ReplacedIsRevoked`, `RevokedForGood`, `OneReplacementPerRequest`, `ReuseSweeps`, `OnlyRacingRotationsEscape` | `Slots`, `Rows`, `Replacements` (a request that still has to insert a replacement has inserted none for that session), `Families` (who rotates a session acts for its owner, and so does the replacement), `Sweeps` (a rotation that will replace a swept session was under way when it was swept) |
| WebRefresh | `TokensStayWithTheirUser` | `SessionsInv` of the sessions behind it and `WebInv`: `Memory` (the shared memory holds a call under the token it presents), `Cookies`, `SentFor`, `WaitsForItsUser` (a visit waits for a call that acts for its user) |
| WebRefresh, the sessions behind it | `ReplacedIsRevoked`, `OneReplacementPerRequest`, `OnlyRacingRotationsEscape`, `RevokedForGood`, `ReuseSweeps`, of `WebSpec` | those of `Sessions`: a step of `WebRefresh` is one of `Sessions`, or leaves the sessions alone (`WebStepIsNext`) |
| Workspace | `EverythingWasAnnounced`, `OwnerRoleIsTheOwners`, `DuplicateRolesOverlap`, `OutboxTellsTheTable`, `ArchivedIsClosed` | `AnnouncedInv` (what a copy says was announced or will be with its save), `OwnerInv`, `RolesInv` (a delivery about to create a role has met the creators of the same role), `TellsInv` (`Ids`, `Begun`, and, until a save comes from a stale copy, `Tells`) |
| Invitations | `SessionsAreEarned`, and that the workspace behind the pages is a `Workspace` (`BehindThePages`: `InviteSpec => Spec`) | `Posted` (a page waits for one request, which accepts for its user), with the invariants of `Workspace` |
| Board | `ActiveSprintsOverlapped`, `ClosedStaysClosed`, `LogTellsTheTask` | `AboutToStart` (a start about to save has met a starter of every other active sprint, or the two sprints overlap already), `LoadedAlive` (no request holds a copy of a deleted task), `TaleInv` (the events of a task never saved from a stale copy tell its row) |
| BoardColumns | `ColumnsAreKept`, `OneColumnPerStatus`, `ColumnsCatchUp` | `ColumnsCore`: types, `ListsFit` (each list, in the table, in a browser, in an answer or in a request, has distinct ids and, until a board is `crowded`, maps no status twice), `FormFits` (so does a list with what a form has chosen), `Asking` (each request asks for one column more, less or renamed than the list it was made from); for the last, `Answers` and `Fresh` (what a browser shows, or an answer brings, is the row but for saves it is known to miss) |
| TaskBoard | `EditsHold`, `OptimismHolds`, `BehindForAReason` | `Core` (types, and `Sound`: what a request holds at each await); `AsTold` (while nothing was saved from something left behind, the row is what users asked for last, but for what is dropped); `Paired` (the row and every copy of it have one value in both estimates); `Kept` (until its list is touched, a status chosen is shown and no fetch of the list is out); `Fresh`, as above, for both queries |
| Channels | `OwnerIsTheCreator`, `TwinsOverlapped`, `AnswersHold` | `Owners` (also of copies), `TwinInv` (`ListsArePublic`, `Likeness` of a copy to its channel, `Meetings`), `AnswerInv` (`RowsAreClean`, `CopiesAreClean`, `AbsentIsUntold`, `RowsAgree`) |
| ChatPage | `PersonIsReached`, and that what the page makes of the channels is a behaviour of `Channels` (`BehindThePage`: `ChatSpec => Spec`) | `Undisturbed` (a direct channel that nobody has disturbed has the pair it is named for, and so have the copies of it), `PageInv` (a list of any age is true of undisturbed channels, and what was opened is the pair's), `AskedInv` |
| Records | `StatusFollowsSteps`, `DecisionsAreFinal`, `NothingPublishedIsLost`, `NewestIsHighest`, `CountersAreExplained` | `RecordsInv`: `Fits` (every row is one of its table, and agrees with itself), `Holds` (a copy is a record made here, or one whose row has moved on, with more versions and more decided), `IdsAreNew`; for `NewestIsHighest`, `Numbered` (a request has met those whose versions are numbered above its copy); for the counters, `Tallies` (the records of a kind are as many as the events told of their making, only committed events are handled, and the row counts the handlings) |
| Chat | `DeletedStaysDeleted`, `RepliesAreCounted`, `ViewsAgree` | `Core`: `Staged` (what a call holds at each await) and `Present` (what is acted upon, shown or told has a row); `Fresh` (a message still to be saved is one request's and has no row); `CountInv`: `RepliesInv` (only the messages that were there first are replied to, and a saved reply's request is past its save), `CopiesInv` (a copy counts no more replies than were counted); `ViewsInv`, see below |

| Identity | `ListeningMeansSeeded`, `DefaultsDoubleByOverlap` | `StartsInv`: `Started` (what a start may rely on at each statement: what it has found or made is there) and `Joined` (an organization without its member has the start that is about to add it, or that start died) |
| AccountPages | `PagesAreTrue` (with `OnlyTheSeederActivates`), `FieldsHold` | `AccountsInv` (what a request holds at each await, `Served`); `PagesInv`: `PageOf` (a page stands where its request does), `Reads` (a cache is the row but for saves it misses, a form shows the cache but for touched fields), `Sends` (a save that misses no other writes, in the fields not touched, what is there already), `TypedFirst` |

None of the proved invariants is inductive alone: each speaks of the table,
and what a save will write sits in the registers of a request that read the table some
steps ago. So every strengthening has a part about the requests in flight, and the
argument is the same each time: what a copy says was so when it was read; if the table has moved
on since, whoever moved it was in flight at the same time.
The proofs have one step per action. Where a module has many actions that do the
same to the variables, a lemma first reduces them to a few kinds (`ChannelsProofs!Moves`,
`RecordsProofs!StepKinds`, `ChatProofs!Steps`); each invariant then has one lemma for each kind.

`ViewsAgree` speaks only of a message about which nothing is under way or left to come. Its invariant,
`ChatProofs!ViewsInv`, says what the events and requests under way will make of a list: of each
column that a list shows of a message (`Column`), the last event to come that sets it
brings what the table has, or none is to come and the list has it already, or a request in
flight has still to tell it (`AgreeInv`); of the replies, that those shown, those to come
and the one being told make those counted. To keep this it needs that a message which is not in doubt
has one request at a time that has reached its handler (`OverlapInv`), whose copy is current and which tells what it
has written (`CurrentInv`); that an event is of one request and no two create one message (`MatchInv`,
`OnceInv`, `SendInv`, `ComingInv`, `PlacedInv`); and that what a fetch has read is still the
table, save for what its browser knows to be hazy (`SnapInv`). `doubt` and `hazy` record in the
model which messages those are: those with overlapping requests, a failed handler, an event told while
the browser was not in the room, a fetch during which they were in motion, or a change of
the list whose command waits, is refused or is lost.

`BehindForAReason`, `ColumnsCatchUp` and `FieldsHold` are about the same cache in front of three
kinds of rows, and have the same strengthening: whatever a query shows or an answer brings
differs from the row by requests that `missing` or `late` names; a fetch read after the
last save ends that; a save that settles while a first fetch is out leaves it `deaf`.

Three refinements are proved: the outbox implements its contract, and the two
modules that put a browser in front of an API (`Invitations`, `ChatPage`) leave
the API a behaviour of its own module, so all that is proved of the API holds with its pages too.
`WebRefresh` is not a refinement of `Sessions`: its `NetworkFails` counts a fault while no
request dies; so what holds behind it is proved from the steps.
Of the contract the proof covers the safety part, `ContractSpec`. The liveness of it
(`ContractFairSpec`, checked by `outbox`) is out of reach of these provers, as
are `DeliveredTakesEffect` and `EventuallyListening`.

Left to the runs is liveness alone: that of the contract, `DeliveredTakesEffect` and
`EventuallyListening`. What a sum over a set amounts to would take induction over data: so `Chat!TypeOK`
says of the number of sockets that it is a natural number, and the bound stays in the guard of
`Connect`; and `CountersAreExplained` speaks of the cardinality of a set of pairs, one for each
handling, which is that sum and can be reasoned about.

Proved, and checked by no run: `OneRunPerProcess`, `CompletedWasPublished`,
`RetiredRowsStayRetired`, `OneReplacementPerRequest`, `RevokedForGood` and `OwnerIsTheCreator`.

## 6. Not modelled, and why

* Authentication guard, token signatures, queries, health probes, exception filters,
  mail templates, configuration, manifests: they keep no state. The manifests are
  read for the number of processes.
* Notifications: `TaskAssignedEvent` is registered nowhere, so the generic listener
  is never called, and no other code creates one. The mail of an invitation is real; it is an
  external step of `Invitations`.
* Clocks. A token may expire at any time, which is more than a clock would allow.
  The key of a task is the last four base-36 digits of the clock; it may repeat
  within milliseconds or after 28 minutes, and the unique index then makes the insert fail: left out.
* Data that no property tells apart: texts, colours, priorities, dates, attachments.
* Operations that share nothing with others: links between tasks, work logs, searches;
  typing, presence and read marks of threads; the upload of a file to its store.
* Archiving of channels, locking and verification of users, removal of an
  organization's members, deactivation of forms: methods without a caller.
* The counters of projects and users in the analytics projection, which repeat those
  modelled in `Records`.
* The summary view, dashboards and forms of the web client: each shows a query and
  keeps nothing. Of the task panel, creating tasks, comments and links.
* Shared packages: their base classes and results are part of the handlers
  that use them.
* Torn reads: a Prisma `include` counts as one read.

## 7. Plan

Done: outbox and idempotence, sessions with the browser, workspaces with their
invitations, projects to tasks with their two boards, chat with channels and page, the
remaining records, users with their pages and the seeder; proofs of every safety
property that a run checks.

What could follow:

1. An abstract whole-aggregate save, of which Workspace, Board, Channels and Records
   would be instances: each now states its own load, change, save.
2. The parts listed as partly modelled: keys of tasks with a clock, read marks of
   threads, comments and links in the task panel.
