# TLA+ models of ITMS

ITMS is an IT-management portal: a Go server (`src/backend`) over PostgreSQL, a
React frontend (`src/frontend`) and an agent that pushes the inventory of every
device. This directory holds TLA+ modules of the parts of both whose
correctness depends on what overlapping requests, failing statements, late
answers, several tabs and restarts do, TLC configurations that check them on
small instances, and theorems that TLAPS proves for every value of the
constants.

Paths of Go files are relative to `src/backend/internal/api` and paths of
TypeScript files to `src/frontend/src`, unless they start with `src/`.

## 1. The system

The server is one process. Every HTTP request is a goroutine of its own; what
requests share is the database. PostgreSQL runs at READ COMMITTED: a SELECT
sees the rows committed at that moment, an UPDATE waits for the row lock of
another transaction and then works on what that one left. Many handlers use no
transaction at all, so that each of their statements commits by itself.
In-process state is small: the hubs of open websockets, the login limiter and
the `running` flag of the inventory sync.

The frontend is one React program per browser tab. What tabs share is
`localStorage`, where the session is. Inside a tab everything runs to its end
before anything else starts, but every `await` is a point where answers,
pushes, clicks and other tabs come in between; React runs the effects of a
render after it, with the values of that render.

| Component | State it keeps | Operations | What makes it correct |
|---|---|---|---|
| Chat lifecycle (`modules.go` 2430-3150) | `chat_channels.status`, `linked_request_id`, owners | create, close, reopen, delete | a conversation is always looked after by exactly one of chat and ticket; a closed chat leads to its own ticket |
| Support requests (`modules.go` 1754-2243) | `requests.status`, `assignee_id`, comments | create, set status, assign, comment | at most one active request per reference key (partial unique index of migration 013) |
| Chat roster (`modules.go` 2430-2880, 3364-3467) | `chat_members`, primary and backup owner | create, join, add members, remove a member, set owners | an owner outside the chat is its founder or lost a race; the last IT member goes only by a race |
| Chat messages and hub (`modules.go` 3248-3427, `chat_hub.go`) | `chat_messages`, subscribers of each chat | subscribe, post, type, publish | a message is published to the connections of its chat and to no others |
| Stock ledger (`inventory_management.go` 488-540, 1253-1335) | `inventory_stock`, `inventory_stock_movements` | add, reduce, transfer | the books are short of what lost updates took and of nothing else; nothing comes from nothing; operations end |
| Inventory items (`inventory_management.go` 542-794) | `stock_items`, `sub_items`, stock levels | create, update, delete an item | an item counts one unit of one branch |
| Device enrollment (`router.go` 4220-4709) | requests of type `device_enrollment` | every push: find, refresh, reopen, insert, complete | a device nobody uses is under review, one that has a user is not |
| Inventory sync (`src/backend/internal/inventorysync/service.go`) | run rows, `running` flag | scheduled run, run on request, ingest | one run at a time; run rows end |
| Gatepass register (`modules.go` 650-1116) | `gatepasses` | create, approve, reject, complete, upload signed | dense numbers per day; the marks fit the status |
| Login limiter (`router.go` 1093-1147, 6534-6601) | map of failed attempts | login, reject | lockout after the configured number of failures |
| Alerts (`src/backend/cmd/server/main.go` 19-130) | `alerts` | daily warranty check, acknowledge, resolve | one open alert per device |
| SSH sessions (`ssh_terminal.go` 285-559) | SSH client, websocket, three channels, a row of `remote_sessions` | open, forward output, pass input on, ping, close | one writer at a time; the row ends after the client; everything ends |
| Chat page (`pages/Chat.tsx`, `components/chat/chatUtils.ts`) | open chat, filters and page, each in React state and in the URL; the list | nine effects, loads of the list, clicks, links, handlers that wait for the API | state and URL come to agree; the list is the answer to the last load; a link wins over what was being loaded |
| Chat conversation (`components/chat/useChatMessaging.ts`, `loadMessages` of `Chat.tsx`) | messages shown, page, one socket, typing label and its timers | load, load older, send, receive, reconnect | nothing twice, nothing skipped; other chats' messages come only with the answer of their load; labels end, sockets come back |
| Session and guards (`lib/session.ts`, `lib/portalGuards.ts`, `lib/api.ts`, `App.tsx`, `pages/LoginNew.tsx`, `pages/live/UserProfilePage.tsx`) | stored session (of all tabs), the guard's validated token, requests under way | login, logout, check of the token, request with sign-out on 401, saving the profile | no page without a token the server confirmed; no spinner and no redirect for ever |
| Workflow settings (`workflow_settings.go`) | one settings row | read, validate, save, route | first matching route, valid assignees |
| Others | | users, assets, patch runs, Salt workspace, vault, audit, announcements, Mattermost bridge | see `components` in PROJECT.json |

How they interact: closing a chat inserts a request and reopening one updates
it; the push of an agent goes through the sync service and then through device
enrollment, which writes requests that reviewers also change; items and stock
operations share the stock rows; chat handlers publish to the hub after their
commits and mirror messages to Mattermost. In the browser the chat page decides
which chat is open and the conversation follows it; events of the socket make
the page load its list again; every request goes through `apiRequest`, which
ends the session of all tabs when one is refused.

Hard behaviours: reads outside the transaction that uses them (reopening,
status tests before closing), check-then-act in separate statements (roster,
enrollment, alerts, gatepass numbers), absolute writes of a level read without a
lock (stock), locks taken in request order (transfers), handlers that end between
two autocommitted statements, goroutines of a terminal session that outlive the
handler that started them, and events published after the commit. In the
frontend: answers that overtake each other or come when something else is open,
state that is kept twice, a socket whose end is reported when its successor is
there, and a session that another tab replaces while a check is on its way.

## 2. Modules

| Module | Models | Checked by |
|---|---|---|
| `ChatCustody` | abstract promise of the chat lifecycle: one keeper per conversation | implemented by `ChatTickets` |
| `ChatTickets` | closing, reopening, deleting chats; status and assignee of tickets | `MCChatTickets` |
| `ChatRoster` | members and owners of one chat | `MCChatRoster` |
| `ChatRosterProofs` | theorems about `ChatRoster` | tlapm |
| `StockLedger` | add, reduce, transfer | `MCStockLedger` |
| `StockBooks` | abstract promise of the ledger: pieces move whole, in one step, or not at all | implemented by `StockLedger` but for commits that have overwritten a change of another transaction |
| `StockLedgerProofs` | theorems about `StockLedger` | tlapm |
| `Enrollment` | reviews of one device against its pushes | `MCEnrollment` |
| `RequestProofs` | theorems about `ChatTickets` and `Enrollment`, the two writers of requests | tlapm |
| `GatepassRegister` | numbering and sign-off | `MCGatepassRegister` |
| `GatepassBook` | abstract promise of the register: a book with a page per date, where lines and signatures are only added | implemented by `GatepassRegister` |
| `GatepassRegisterProofs` | theorems about `GatepassRegister` | tlapm |
| `SshSession` | the goroutines of one terminal session | `MCSshSession` |
| `SshSessionProofs` | theorems about `SshSession` | tlapm |
| `ChatWorkspace` | the effects and loads of the chat page | `MCChatWorkspace` |
| `ChatWorkspaceProofs` | theorems about `ChatWorkspace` | tlapm |
| `ChatConversation` | the open conversation, its socket and the server behind it | `MCChatConversation` |
| `ChatConversationProofs` | theorems about `ChatConversation` | tlapm |
| `PortalSession` | stored session, guards, requests and login in several tabs | `MCPortalSession` |
| `PortalSessionProofs` | theorems about `PortalSession` | tlapm |

The modules of the server have the same shape, but for `SshSession`. Table columns are functions from ids to
values. A handler is an actor (`Actor`, `Request`, `Ingest`, `Clerk`) with a
`pc` and the local variables it still needs. One action stands for everything
between two points where another handler can be noticed: a SELECT, an
autocommitted write, or the commit of a transaction together with the writes
before it. Constraints of the schema are guards of the writing action: the
partial unique index on active reference keys is `ActiveOf` in `ChatTickets` and
`MayBeActive` in `Enrollment`; the unique gatepass number is a guard of `Insert`.
A handler may end at any point (`Abort`, `End`, `Fail`): an SQL error, a
deadlock victim's rollback, a cancelled request or a restart.

**ChatTickets.** `CloseBegin` is the status test of `closeChatChannel`,
`CloseRead` the first SELECT of `ensureClosedChatTicket`, `ConvertNew` and
`ConvertLinked` the rest up to the commit. `ReopenBegin` is the SELECT of
`reopenChatChannel` before its transaction, `ReopenRead` its UPDATE of the chat
and SELECT of the assignee, `ReopenCommit` the rest. Between the last two the row
of the chat is locked (`Locked`), the one place where a transaction reads between
a write and its commit. Ticket numbers, names and texts are left out; of the
comments the model keeps which kinds a ticket has (`notes`).

**ChatRoster.** The three handlers without a transaction, statement by statement,
of one chat of any kind. A chat comes to be in one of three ways, and each is a
disjunct of `Init`: `createChatChannel` makes owner the teammate the subject is
routed to, or a caller who is IT; `createSupportChannelForEmployee` the first of the
configured teammates; `createOperationsChannel` whoever of the staff lists chats
first, an auditor as well, who becomes a member only by a later statement or not at
all. `Join` is that statement, of `ensureChatChannelsForUser`, and that of all staff
who come later. So a primary owner is of the staff, a backup owner IT. `Toggle`
stands for closing and reopening. Roles are fixed. `adrift` and `raced` are history
variables: who was removed while a change of owners had found the same person a
member (and a founder outside the chat), and whether two removals of different
people had both counted.

**StockLedger.** `draft` holds what a transaction wrote and did not commit, `lock`
who holds a branch's row. `into` and `outof` are what the committed movement rows
say, read with their operation: a "reduce" stores its branch in the same column as
an "add". They are history variables: nothing in the model reads them. So are
`missed`, by how much others changed a row between a request's SELECT and its write,
and `lost`, the sum of that over the commits. What the module promises is
`StockBooks`: `Commit` is its one move, every other step stutters. With two
transactions at a time that is untrue, as a lost update is no move of books. What is
true, and checked, is that every commit that overwrote nothing is a move
(`BooksButForLosses`), and that the books are short of exactly what the others
overwrote (`BooksAccounted`). With `Width = 1` nothing is overwritten, and the first of
the two says that `StockLedger` implements `StockBooks`.

**Enrollment.** `newest` is the request with the latest `updated_at`, the one
`lookupInventoryEnrollmentRequest` finds; every UPDATE moves it. Only a push with
something to say about its user is modelled, because the code returns at once for
the others.

**GatepassRegister.** `number` is the sequence part of the gatepass number.
`marks` tells which of the signature columns are set. What the module promises is
`GatepassBook`, whose pages `Page` reads off the numbers: `Insert` adds a line at the
end of a page, `Complete` and `Upload` sign, and counting, aborts and decisions
stutter.

**SshSession.** `pc` has the handler ("main"), the two forwarders, the waiter and
the reader. `send` and `sendControl` are `Acquire` and `Write`; what follows a
frame depends on which frame it was (`frame`) and on whether it was written
("sent", "unsent"). `wire` models gorilla/websocket: the first failed write and the
first close frame make all later writes fail. `ssh` models x/crypto/ssh: after
the client is closed every call on it returns, reads only when the buffered output
is used up. `GivesUp`, `CloseClient`, `EndRow` and `CloseConn` are the ways out of
the loop and the deferred calls. Contents, the choice of the target and the keys
are left out; one websocket belongs to one row (no client of the repository passes
a `sessionId` twice), and closing the client is taken to end. Two things the model
makes visible and no property forbids: the "exit" envelope follows the close
frame, so it is never written; and a reader that holds a message when the handler
returns waits on `messageCh` for ever. A third thing lies outside the module:
no URL the frontend builds for a terminal carries a `sessionId`, so the rows that
`POST /api/ssh/session` inserts are never ended by it.

**ChatWorkspace.** A step is a render of `Chat.tsx` with all its effects, in the
order of the source; what an effect sets shows at the next render. `Render` uses
the latest URL; `RenderFirst` a render of new state before the router's
transition has been rendered. Each effect is an operator that says whether it
runs and what it leaves in the refs: `RememberRequested`, `OpenRequested`,
`RefsFromUrl`, `ResetsPage`, `LeavesOpen`, `OpenListed`, `Navigates`. `flight`
holds the requests of `loadChannels`, `latest` marks the one whose id is current,
and `awaiting` holds handlers that call `loadChannels` of the render they were
started in. Search, kind and status are one `Filter`, and what the server finds
for it is the table `Found`; the messages are in `ChatConversation`. `asked` is
history: what the user did last, and for a link whether the page owes it the
chat as well as the filters. `Distance` measures how far a cascade of renders is
from its end: first by how far the filters of state, URL and router are from
meeting, then the chats, then by what is set and not rendered.

**ChatConversation.** The list is fed by `Answer` (a page replaces it, an older
page goes in front of it) and `OnFrame` (pushes), both through `mergeMessages`,
which keeps the first of equal messages (`Firsts`, in the order `Nth` gives them).
`sock` is the socket of the running effect; a socket that was given up stays in
`closing` until it reports its end (`OldCloses`). The server has the loop of each
member (`posting`: accepted, inserted, published) and `publish` of the hub.
`missed` and `astray` are history: pushes that no socket was there for, and loads
that failed or were not alone; only `NoHoles` speaks of them. A load is not tied to
the chat it was made for, so its answer is shown in whatever chat is open by then;
`OwnMessages` says that this is the only way for a message of another chat.

**PortalSession.** `store` is what all tabs read at every render. A render of a
guarded page reads it, compares the token with the one that was confirmed and
starts a check when the token changed; `checks` are calls of
`validateStoredSession`, `live` until the effect's cleanup. `Unauthorized` is the
way out of `apiRequest` on 401: it clears the stored session, whichever it is by
then, and loads `/login` (`leaving`, `Unload`). `Redirected` puts the guards of
all routes into one operator over roles. Left out: that `validateStoredSession`
reads the storage again in the microseconds after the render that calls it. What
the model makes visible and no property forbids: the 401 of a wrong password goes
the same way, so the page is loaded again and its message is lost; `LoginNew`
does not use the `next` that `apiRequest` puts into the URL; a profile that is
saved after a logout brings the session back.

## 3. Runs

| Run | Shows |
|---|---|
| `chat_tickets` | type invariant, three safety invariants, an action property and the refinement of `ChatCustody`: 2 chats, 2 tickets, 2 handlers, 295 thousand states |
| `chat_roster` | 2 overlapping handlers that fail anywhere, 2 IT users, an auditor and an employee, every way to create the chat: an owner outside the chat is its founder or was removed while being made owner; the last IT member goes only when two removals of different people have both counted: 448 thousand states |
| `chat_last_it` (violated) | two overlapping removals each count the other's target and delete the last two IT members |
| `stock_overlap` | 3 overlapping operations, refused or failing anywhere: every commit is a whole move of `StockBooks` or has overwritten a change of another; the books are short of exactly what writes have overwritten; never more in a branch than was brought there; every operation ends: 331 thousand states |
| `stock_overdraw` (violated) | two reductions take more than there was |
| `enrollment` | 2 overlapping pushes, 3 requests, 2 interferences: reviews converge once staff are quiet |
| `gatepass_register` | 2 clerks, 3 passes, 2 dates: dense numbers; the register implements `GatepassBook` |
| `ssh_session` | one session with one output stream, ended from any side at any point: one writer at a time, the row ends last, the handler returns, its goroutines end: 72 thousand states |
| `chat_page` | 3 chats on two pages, 2 filters, 2 moves at any point of the loads, from every URL: the list is the answer to the last load, every render of a cascade brings the page nearer to rest, state and URL agree at rest; a link wins with its filters, and with its chat if the list that decides about it is up to date and is not replaced by the answer to another query |
| `chat_page_pick` (violated) | a chat picked from the list while the URL names another is left again at once |
| `chat_conversation` | 2 chats, pages of one message, 4 moves of users and network: nothing twice, nothing skipped, other chats' messages only with the answer of their load; typing labels end, the socket comes back |
| `portal_session` | 2 tabs, 3 accounts (an employee, an auditor, a super admin), 3 moves: no page without a confirmed token, every tab settles: 365 thousand states |

What the passing runs say together: the chat lifecycle is sound under every
overlap, because the unique index and the foreign keys stand where the code does
not look again. The roster and the ledger are not: `chat_last_it` and `stock_overdraw`
give the two-request schedules that break them, and the passing runs say that
nothing less does: no failure half-way, no order of handlers that run one by one,
no rollback and no deadlock. Enrollment repairs itself with the next push. The chat
page compares request ids and therefore shows the right list; its effects agree, but
they take the URL for the newer wish. The messages of a conversation are not guarded
so: a late answer of the chat left before is shown and stays. A guard of the portal
lets no page through but for a session whose token was confirmed to it, whatever
other tabs do; that is the session the guard itself read, and what is stored may be
another one by then, with the user of a third (`MCPortalToken`).

**Statements that are not true of the code.** Each of these configurations lets
TLC find a counterexample to one statement; they are kept beside the runs
because their schedules are worth knowing. Run them with
`tlc -config <cfg> <module>`.

| Configuration, module | Statement | How it fails |
|---|---|---|
| `MCChatFollowUp`, `MCChatTickets` | the ticket a closing names for the follow-up is active | it was resolved while the chat was open again |
| `MCChatRosterOwner`, `MCChatRoster` | owners are members | the founder of an operations chat need not be one of the configured teammates; a removal and a change of owners that overlap leave such an owner too |
| `MCChatRosterSameOwner`, `MCChatRoster` | the two owners differ | only the owners of one request are compared |
| `MCEnrollmentReopen`, `MCEnrollment` | a push reopens decided reviews only | a reviewer started it between the SELECT and the UPDATE |
| `MCChatLink`, `MCChatWorkspace` | a link shows the filters it asks for | one without filters looks like the default, which nothing waits for: the page goes back to its own filters |
| `MCChatLinkLoad`, `MCChatWorkspace` | a link shows its chat if the list at rest has it | the load of the list failed; the link finds an empty list and is dropped at once, and a later load brings the chat but not the link |
| `MCChatStray`, `MCChatConversation` | with no load on its way, only messages of the open chat are shown | the answer of the chat left before comes last, or the own load fails |
| `MCChatReady`, `MCChatConversation` | the input is enabled while the socket is open | the end of the former socket of the same chat is reported after the new one opened |
| `MCPortalSignOut`, `MCPortalSession` | the session that is cleared is the one whose token was refused | another one was stored while the answer was on its way |
| `MCPortalToken`, `MCPortalSession` | the stored token belongs to the stored user | the profile form writes its user beside the token another tab stored, or the reverse |

**Bounds.** Two handlers are enough for every race between two reads and two
writes, and each counterexample on the server needs two; two tickets per chat let
an old ticket be resolved and a new one be issued; the theorems lift these bounds
for the modules that have proofs. In `chat_roster` and `chat_last_it` two IT users are
enough to remove each other, to own the chat both, and to leave it without any.
`stock_overlap` has three operations on two
branches, so that two opposite transfers wait for each other while a third one
changes the levels; quantities are 1. In
`enrollment` the budget of two interferences (`Budget`) bounds reviewers, staff
and failures together; pushes themselves are unbounded. In `gatepass_register`
each pass id is used once. `ssh_session` has one output stream with room for one
chunk: that is two writers for one mutex, a third one does the same as the second,
and the theorems hold for any set of streams. In the frontend `MaxMoves` bounds
what users, other people, the clock and the network do; renders, effects and
answers are not bounded by it. Two moves on the chat page are a load and what
overtakes it, starting from any URL and with one chat missing or not; `LastPage` is
2, as three chats on pages of two need; `MCChatLinkLoad` takes three moves, a
failure, a link and a new load; three
accounts in `portal_session` have three different sets of portals, and three
moves are a login, another tab's login and a refusal. Four moves in
`chat_conversation` open a chat, ask for an older page, and let two things happen
meanwhile. `CHECK_DEADLOCK FALSE` is set where the bounded supply of ids, requests
or moves runs out.

**Symmetry.** Ids are interchangeable in the safety runs of the server and declared
symmetric; the runs with liveness properties declare none.

**Fairness.** `StockLedger!FairSpec`: weak fairness of the steps of a transaction
that was begun, the goroutine goes on, and of the deadlock detector, which
PostgreSQL runs after `deadlock_timeout`. Nothing has to be requested and nothing
has to fail. `Enrollment!FairSpec`: weak fairness of every push, because the
agent's timer repeats it (`OnUnitActiveSec` in
`src/scripts/install-itms-agent.sh`) and a handler that runs goes on.
`SshSession!Fairness`: weak fairness of every goroutine that can go on; strong
fairness of taking `writeMu`, because `sync.Mutex` hands over to a starving waiter,
and of the ready branches of `select`, because Go chooses among them at random; and
weak fairness of a failing read once the browser is gone or the websocket is
closed, because of the read deadline. The asset owes no answer: neither
the handshake and setup in `openSSHSession`, after its dial, nor a write to the
shell has a timeout, so `SessionEnds` has as its
premise that such calls return again and again.
`ChatWorkspace!Fairness`: React renders what was set, and requests are answered
(or fail, which `moves` bounds). `ChatConversation!Fairness`: timers fire, sockets
are accepted, open and deliver, and one that was closed reports it; users and
failures owe nothing, and failures are bounded by `moves`.
`PortalSession!Fairness`: React renders, the browser finishes loading `/login`,
and a check is answered: `validateStoredSession` has a timeout, and the call of a
tab that has gone owes nothing.

**Mutants.** Beside a definition, an operator with a suffix (`Insert_NoIndex`,
`RemoveCount_Last`) is the same definition with a plausible mistake. PROJECT.json
says which property each one breaks.

## 4. Proofs

All theorems hold for every value of the constants that satisfies the named
assumptions: ids and the NULL marks are disjoint, roles do not overlap, quantities
and widths are positive, bounds are natural numbers. None of them assumes that
handlers or transactions do not overlap: where the code breaks a rule by overlap,
the theorem says by which overlap, and that it takes no less.

**RequestProofs, chats.** The inductive invariant is the conjunction of the type
invariant and the safety invariants: `ClosedHasTicket` needs to know that the
ticket a closing handler holds was issued for that chat (`HeldTicketIsOwn`), and
that in turn that closing never unlinks (`NoOrphanTicket`). One step per action,
and under it one per conjunct the action disturbs. From it follow
`RelinkOnlySettled` (a link only moves when the former ticket is out of the active
statuses: the unique index refuses the INSERT otherwise), `ReopenRevivesTicket` (a
chat is reopened together with an active ticket) and `Implementation`, the refinement of `ChatCustody` step by step.

**StockLedgerProofs.** `NothingFromNothing` is strengthened by `Bounded`: what a
transaction has read, and what it has written and not committed, is at most what
was brought to that branch, its own gain included; and by `Placed`, which says
where a transaction at a given `pc` stands.

`BooksAccounted` needs `Halfway`, which follows every running transaction through
its two branches: the rows it has written are locked by it, those still `Waiting`
are unwritten, and each branch it has done is `Settled`: what it would leave there is
what is there now, with its gain, less its loss and less what it missed. The others
cannot disturb that: a row it has written is its own, and where it has written
nothing (a DELETE that found no row) being settled does not depend on the level. So
a commit moves levels, books and losses by amounts that add up. If the transaction
missed nothing, these are the amounts of a move of `StockBooks`, and the level it
leaves is not negative, so the source had the pieces: `WholeMoves`. That is
the refinement of `StockBooks` at any `Width`, with the lost update as the only
step that is no move; `NoOverdraw`, which `stock_overdraw` breaks, cannot be
broken by other steps.

`NobodyStuck`, which is stated beside its proof, is about any number of waiting operations. If all that run wait, going
from each to the holder of the row it waits for maps the running ones into
themselves (`HeldByRunning`: rows are held by operations that run), and `Ring` shows
that such a map of a finite set permutes some part of it, taking a smallest part
that it does not leave. Its members wait for each other in a ring, which the
deadlock detector finds.

**ChatRosterProofs.** All under any overlap. `Roles` is what a handler has found out
about roles, which are fixed, and gives the types. `OwnersAccounted` is followed
through both handlers: `Candidates` (who was found to be a member is one still,
or was removed meanwhile, which is noted), `Deprived` (from whom a removal took the
ownership does not have it, or got it back from a change of owners, which is noted)
and `Crossed` (a removal and a change of owners of the same person are noted by
whichever comes second). `LastNeedsRace` rests on `SomebodyStays`: as long as no two
removals of different people have both counted, all that have counted will delete
the same one, and another IT member is there; additions and `Join` only help.

**RequestProofs, reviews.** The second half of the module is about `Enrollment`,
which it instantiates as `Review` because both components write the table of
requests under the same partial unique index. Its theorems have the premise
`ReviewConstants`, which is the assumption of `Enrollment`. `RowsFound`: the
request a push holds exists, however long ago it was found, because none is ever
deleted; every UPDATE finds its row. `OneUnderReview`: at most one active review,
also when pushes, reopenings and reviewers overlap.

**ChatWorkspaceProofs.** Four arguments beside the types, which include that a
page of the server's answer is a list of chats and that no effect opens anything
else. `OneCounts`: of the requests under way at most one is the latest, and it asks
for what was asked for last. With it `LatestLoadWins` survives every order of
answers, failures and new loads.

`RestAgrees` speaks of a page at rest only, so its invariant has to say what each
render of a cascade knows. `SameQuery`: a page that rendered everything has the
filters of its URL, because a render that found them different took them over or
wrote them. `LoadOnItsWay`: what is shown as loading waits for a request that
counts. `Undisturbed`: if the last render left everything as it found it, then the
URL names no other chat than the open one, unless the list is empty or loading.
The last effect runs only if something it depends on changed, and a render after
the URL took the filters of the state changes nothing else; this is why `Agreed`
has the filters of the render before as its premise. What the effects of one
render do together is one lemma (`RenderEffects`) that the later proofs cite.

`CascadeEnds` is a termination argument for the nine effects, which `ComesToRest`
checks as liveness for three chats only. Its invariant is small: types, and that a list
that is not fresh has been rendered (`RowsShown`). `RenderMeetsFilters`: a render
brings the filters nearer to each other, or finds those of state, shown URL and
rendered URL equal and leaves them so. `RenderMeetsChats`: then it brings the chats
nearer, or leaves them and less is unseen. Neither uses more than that small
invariant, so no user, answer or earlier render can start a cascade that does not end: each render lowers `Distance`, which is at most 192, for
any chats and filters. That React renders at all is fairness and stays with TLC.

`LinkWins` needs `FiltersKept` (the URL holds the filters of the link from the
click on, and every render since has seen them) and `ChatKept`: the chat of the
link is in the URL and open, or about to be opened by the next render, unless
neither the list nor what it will be has it. A load of other filters that is
answered between the click and the render cannot break this, because the page
renders before it takes answers; a load that fails can, and that is where the
premise of `LinkWins` comes from (`MCChatLinkLoad`).

**ChatConversationProofs.** `mergeMessages` removes duplicates from lists of any
length, so what it returns cannot be found by unfolding. `NthProperties` shows, by
counting and the least number principle in place of an induction over the list,
that `Nth` numbers the kept positions in order; `MergeProperties` draws from it
that the result has the elements of the list, each once, in the order in which they
came first, and `AppendFacts` and `TailFacts` say what a push and an older page make of
that. `NoDuplicates` follows with the types (`Base`).

`OwnMessages` needs no premise: a socket and what is on its way to it belong to the
open chat (`Socket`, which giving up a socket and dropping its frames keep), and a
page has only messages of the chat it was asked for.

`NoHoles` holds while the load of the open chat is the only one (`Alone`). Then `OneLoad` says what that load may still bring; `OwnList`, that what
is shown is of the open chat, as soon as the load is answered; `Complete`, that
each number from the top of the list on is `Covered` (shown, on its way to the
socket, in the hands of a websocket loop, or missed), and while the load is under
way each number after what it has read.
The hard case is an older page that is asked for while new messages shift all
pages: `FitsBelow` and `Reach` bound how far the top of the list is from what the
next page ends with, and since messages are never deleted a shift only makes pages
overlap. `missed` and `astray` are history variables: the code does not keep
them, the statements need them to say when nothing is promised.

**PortalSessionProofs.** `ConfirmedPages` needs `HeldValid`: a token the guard holds
for valid was confirmed to this tab, which a check answered late cannot break
because the cleanup of the effect has marked it (`Ignored`).

**GatepassRegisterProofs.** `DenseNumbers` is not inductive because a clerk writes
a number it computed earlier. `CountedLow`: such a number is at most one above the
passes of its date, because passes are never deleted. Of these only the number one
above gets through the unique index. The proof uses the library's facts about
cardinalities of finite sets. `SignedOff` is inductive beside the types: a sign-off
only adds marks, and only a decision takes a status back. `Implementation` adds
`Distinct` (no two passes of a date share a number): then `Page` is a sequence
of the passes of a date in which the number of each is its place (`PageLines`), an
insertion appends to it (`BookInsert`) and nothing else touches it (`PagesStay`).

**SshSessionProofs.** `LockHeld`: who is inside a write holds `writeMu`, which gives
`OneWriter`. `ClosedBehind`: until the client is opened no forwarder runs, from the
deferred calls on it is closed, and only then the row may end, which gives
`RowEndsLast`.

**Only model-checked:** the liveness properties (`BegunEnds`, `StaysUnderReview`,
`NewestGetsResolved`, `SessionEnds`, `GoroutinesEnd`, `ComesToRest`, `TypingEnds`,
`Reconnects`, `Settles`), which need fairness and ENABLED and are out of the
prover's reach. Every invariant, every action property and every refinement a passing
run checks is a theorem.

## 5. Not modelled

- *Clients of external services* (Wazuh, Salt, Mattermost, host bridge), rendering
  and parsing (PDF, CSV), read-only dashboards, the vault's encryption, the audit
  log, installers: they keep no state that another part's correctness rests on.
- *Permissions of the API* are pure predicates over the token. Any actor may call
  any handler of the server's modules.
- *Item forms, CSV import and the legacy stock routes.* They share the stock rows
  with `StockLedger`, but the code has no rule that relates levels to items: a row
  of an import adds any quantity, forms overwrite the levels of every branch, the
  legacy routes leave levels alone. What an absolute write does to a concurrent
  one is what `stock_overdraw` shows.
- *Inventory sync, announcements, patch runs, MFA codes, the login limiter, alerts,
  workflow settings, users and departments, migrations*: single statements or
  sequential code under one mutex, whose rules are about clock times or about one
  row. Their note in PROJECT.json says it for each.
- *Posting to a chat that is being closed.* The status is in `ChatTickets`, the
  messages in `ChatConversation`, where any post may be refused. The websocket loop
  tests the status and inserts in two statements, so a message can get in after the
  closing; no text of the code forbids it.
- *Most of the frontend.* Some routed screens call no API at all (`GatepassScreen`,
  `BroadcastCenterScreen`, `live/DashboardPageNew`) or load one list when they open
  (`InventoryScreen`, `RequestsQueueScreen`, `SecurityAlertsScreen`,
  `PatchDashboard`, `live/UsersPageModernNew`); some large files are not the element
  of any route (`live/PatchDashboardPage`, `live/UsersPage`, `AnnouncementsScreen`,
  and `Inventory` and `Gatepass`, which `App.tsx` names without using). The
  others are forms and tables that load when they open and again after they have
  written. Most of their lines are markup. What has state that outlives a screen,
  or is fed from several sides, is the session and the chat page, and these are
  modelled; the share of all TypeScript lines that stand behind a definition is
  therefore small.
- *The terminal page* (`components/SshTerminalView.tsx`) shows what the socket of
  `SshSession` sends.
