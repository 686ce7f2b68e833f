# A verification project for whatsapp-connect-mcp

TLA+ models of the server in `src/`, checked with TLC on small instances and, where it matters
most, proved with TLAPS for every instance. Paths in this file are relative to `src/`.

`PROJECT.json` is the machine-readable side of this page: which definition models which lines,
which run checks which property, which mutation of the model each property is known to catch.

1. [The system](#1-the-system)
2. [What is modelled, module by module](#2-what-is-modelled-module-by-module)
3. [The runs](#3-the-runs)
4. [The proofs](#4-the-proofs)
5. [Where the code and its documentation part](#5-where-the-code-and-its-documentation-part)
6. [What is not modelled, and why](#6-what-is-not-modelled-and-why)
7. [Plan](#7-plan)

## 1. The system

One Go process, `whatsapp-connect-mcp serve`, holds a WhatsApp session (through the whatsmeow
library), stores every message in SQLite, and offers tools to an MCP client and pages to a
browser. Everything outbound passes a gate that shows a draft and sends only what was confirmed.

| Component | Code | State it keeps | Operations | Talks to |
|---|---|---|---|---|
| gate | `internal/gate` | draft table, expiry order, token bucket (all in memory) | Submit (draft, commit, deliver at once), Approve, Drafts, Discard, DeliverScheduled | a Deliverer (the bridge, or the schedule store), the trust lists |
| schedule | `internal/schedule` | pending entries in memory and in `schedules.json`; a one-slot change channel; the runner | Load, Add, Remove, List; the runner's loop | the live gate (DeliverScheduled) |
| schedule tools | `internal/mcpserv/sched_tools.go` | none | schedule_send, list_scheduled, cancel_scheduled | the schedule-time gate, the schedule store |
| wiring | `cmd/.../serve.go` | which account directory was chosen at start | start, connect (with retry), stop | everything |
| accounts | `internal/accounts`, `cmd/.../account.go` | one directory per WhatsApp account, and `_pending` | Current, For, AdoptLegacy; prepareAccount, attachAccount | message store, bridge |
| bridge session | `internal/bridge/{bridge,events,status}.go` | the current whatsmeow client, the connection state, the catch-up counters | Connect, PairQR, WaitForPairing, ReloadDevice, Logout; the event handler | whatsmeow, message store, dashboard |
| bridge ingestion | `internal/bridge/{events,lid}.go` | the pairings of LIDs it has learned | one handler per event; FoldLIDs | whatsmeow, message store |
| bridge send | `internal/bridge/send.go` | none | Validate, Deliver, per kind; recordOutbound | whatsmeow, message store |
| message store | `internal/store` | SQLite: chats, messages, contacts, identity map, calls | upserts, mark-read, folding, retention, queries by cursor; Attach | bridge (writes), tools (reads) |
| read tools, scope | `internal/mcpserv/{read_tools,scope}.go` | none; the scope file is re-read | queries, poll_new_messages | message store |
| send tools | `internal/mcpserv/send_tools.go` | none | one Submit per tool, several for mark_read | gate |
| config, trust | `internal/config`, `internal/sessiontrust` | `config.json`, the account's trust file, the session grants | load, save, split of the legacy file; add and remove | gate (asks), CLI and dashboard (edit) |
| dashboard | `internal/dashboard`, `ui/app.js` | the pairing in progress, history cooldowns, avatar cache; in the browser, the message pane | pairing, log-out, drafts, schedules, history, trust, media | bridge, gates, schedule, config |
| the rest | `internal/{clients,wizard,doctor,service,httpauth,...}` | files of others | one-shot commands, text, one comparison per request | |

What is hard in it, in one list (`hazards` in `PROJECT.json` gives each its line):

* *The gate* is called by MCP handlers, dashboard requests and the runner at once. Each call reads
  the clock, then enters a mutex, then calls the deliverer outside of it. A draft must be delivered
  at most once, with the content it showed, never after a discard, and never without paying the
  limiter; the table must stay within its cap although tokens linger in the expiry order.
* *The schedule* is changed by clients while the runner sleeps, waits or is in the middle of a
  delivery; each change rewrites a file and may fail; the process may stop between any two steps.
* *The session* changes under its users: a pairing, a log-out, a reconnection and a device paired by
  another process replace the client, while events of the former one may still arrive.
* *The account* is found out only after pairing, while stores are already open.
* *The message store* is written by history and by live events in any order, several transactions to
  a message, and by the tools beside them; folds move a person's rows from a privacy LID to a phone
  number. It is read by cursors that outlive all of that: a poll, a pane, a request to the phone.
* *Small files* (trust, session grants, scope, config) are edited by several processes under no lock,
  two of them in one save, while a running serve answers from them.

## 2. What is modelled, module by module

A *state* below is the TLA+ variable, an *action* the TLA+ action. A comment starting "Mutant of"
marks an operator that is in no specification: it is a plausible bug, kept beside the definition it
would replace, which shows that a property can fail.

### RateLimiter, RateFloor (external library; `gate.New`)

`golang.org/x/time/rate` with the interval and burst `gate.New` computes. `credit` is the bucket
in units of 1/Interval of a token, so that everything stays an integer; `Grant(now)` is
`AllowN(now, 1)` returning true. A reading older than the last one is credited from the reading,
as the library does. `RateFloor` is the limiter alone with any number of callers that read the
clock and present the reading later: the order in which readings reach the limiter is arbitrary.

### Gate, Confirmation (`internal/gate/gate.go`)

| Code | Model |
|---|---|
| `g.drafts`, `g.order` | `drafts` (tokens), `entry` (what each was minted for, never forgotten so that properties can refer to it), `order` |
| a goroutine in the gate | `call[c]`: the path it is on, its delivery, its token, the clock reading it took |
| `Submit`, `Approve`, `Drafts`, `DeliverScheduled` up to the mutex | `SubmitCommit`, `SubmitDraft`, `SubmitNow`, `BeginApprove`, `BeginList`, `DeliverScheduled` |
| the critical sections | `CreateDraft`, `Claim`, `Refuse`, `ListDrafts`, `Discard`; `DeliverNow` (limiter's lock only) |
| the deliverer's call, outside the mutex | `Deliver` |

`createDraft` reads the clock before it takes the mutex, so a reading may be older than one already
used; that is why reading and critical section are two actions. Trust lists are re-read on every
decision and edited by others at any time: their answer is an input. `Validate` refuses before
anything changes and is a stuttering step. `Deliver`'s outcomes are one step, because the gate keeps
a draft consumed whatever came of it.

`Confirmation` is the abstract promise: a token is unminted, pending, claimed, delivered or
withdrawn, it was shown for one content, and a claimed one is delivered in the end. `Gate`
implements it under the mapping `Fate`.

### Schedule (`internal/schedule`, `serve.go`, the cancel handlers)

| Code | Model |
|---|---|
| `Store.entries`, `schedules.json`, `changed` | `entries`, `disk`, `changed` |
| a client: `Add` then `notify`; `Remove` then `notify` | `Submit` (validation), `Add`, `Cancel`, `Notify` |
| `persistLocked` | `Persist(ok, ids)`: all of the new entries or all of the old |
| `Runner.Run` | `NextEntry`, `TakeChange`, `Wake`, `RateLimited`, `Deliver`, `RemoveDelivered`, by `runner.pc` |
| the process, `Load` | `Stop` at any step, `Restart` with `Kept`; `Connection` for the bridge |

`sent`, `outcome`, `acked`, `cancelled`, `settled` and `late` are history: no guard reads them.
A delivery ends as sent, offline (exactly when the bridge is not connected) or ambiguous. The
limiter's refusal (`RateLimited`) is an input here, Gate's business there. A stop is a stop of the
process, not of the machine: what was renamed into place stays.

### ScheduleSend (`internal/mcpserv/sched_tools.go`)

Extends `Gate`: the deliveries carry a fire time, which is part of what a draft is matched on. The
caller's request (`at` a time, or a `delay` from now) is turned into a fire time anew on every call.

### Session (`internal/bridge`, `internal/dashboard/pair.go`, `internal/accounts`, `serve.go`)

| Code | Model |
|---|---|
| the device table of `session.db` | `devices`, numbered as they were paired; `account` says whose each device is |
| `acct.Dir`, chosen once at start; the message store's path | `home`; `attached` |
| whatsmeow clients, the current one among them | `made`, `current`, `device` (in memory), `link`, `inbox` (events not handled yet) |
| `connectWhenPaired` and each `recoverPairing` goroutine | `waiter[w]` with `Poll`, `Reload`, `Connect`, `Dial` |
| `handlePairStart`, `runPairing`, `PairQR`, `OnPaired` | `pairing` with `PairStart`, `PairBegin`, `PairSuccess`, `PairTimeout`, `OnPaired` |
| `handlePairLogout`, `Logout` | `logout` with `LogoutStart`, `LogoutCall`, `LogoutReset` |
| `handleEvent`, `reinitAfterLogout` | `HandleEvent`, `Reinit` |
| `setup`, another process on the same `session.db` | `SetupStart`, `SetupPairs`, `SetupOnline`, `SetupEnds` |

Two steps are separate wherever something can come between them: a test of `NeedsPairing` and what
follows from it, a device stored and the redial as that device, an event and its handler. A client
that was replaced is neither closed nor silenced by the code, and neither is it in the model. The
library is external: `Online` (WhatsApp closes the older connection of a device), `Forget` (a
log-out deletes the device first), `Drop`, `Redial`, `Unlink` and `AnonymousEnds` are what `bridge.go`
and `events.go` ask of it and handle from it. The transport is `--http`, the one with a dashboard;
errors of SQLite and of the file system, which end the affected goroutine with a message, are left
out, but for a failing `attachAccount`, after which the store stays where it was (`OnPaired`). `shown` is the state the status page reads, a hint no property is about.

### Adoption (`internal/accounts`, `cmd/.../account.go`, `Open` and `Attach` of `internal/store`)

| Code | Model |
|---|---|
| the files of the flat layout, and under the same names in the account's directory | `flat`, `account[n]` (no file, the flat layout's, one of its own); `had` is what the flat layout had at first |
| serve, setup, the commands | `proc[p]`: how far the loop over `legacyNames` is, and which store is open (`dir`) |
| `Current`, `For`, `AdoptLegacy` | `Begin`; `Visit` (Lstat of the flat file, in any order), `Check` (Lstat of the account's), `Move` (Rename), `Failed` |
| `store.Open`, `attachAccount` and `Attach`, `Close` | `Open`, `Swap`, `Exit` |
| pairing in a process; the phone unlinks | `Pair`, `Unlink` |

Each look at a file and each rename is a step, since nothing locks the directory: `serve` holds a
lock against another `serve` only. A process is killed at any step (`Stop`). SQLite is external:
opening a database takes what its log holds, the last to close it removes the log.

### Store, Ingest (`internal/store`, `internal/bridge/{events,lid}.go`)

`Store` is the database as a value: a write is an operator from a database to the one its
transaction commits, a read an operator to the rows it answers, in their order (a poll's page, whose
order is that of the rowids, is the set of its rows). A JID is a user, a
server and a device suffix, a name a number with 0 the empty one, a text the set of its words and of
the JIDs it mentions. Rows are keyed by rowid, which SQLite gives again after the largest is deleted
(`NextRowID`): cursors depend on it.

| Code | Model |
|---|---|
| `UpsertChat`, `UpsertMessage`, `UpsertContact`, `UpsertLIDMapping`, `MarkRead`, `InsertCall` | operators of the same names |
| `FoldLIDs` with its four loops, `PruneStubMessages` | `FoldLIDs` (`FoldChats`, `FoldSenders`, `FoldContacts`, `FoldCalls`, each the loop's effect in closed form), `PruneStubMessages` |
| the queries of `query.go`, `mentions.go` | operators of the same names, with `ClampLimit`, the orders `Precedes`/`Follows`, and the names a row is shown with |
| an event in whatsmeow's one event goroutine | `todo`, the writes it has left; `Take`, `Decode`, `PassOver`, `OpenConversation`, `Write` |
| `ingestMessage` and the other handlers | `IngestMessage`, `HandleEvent`: the sequence of transactions |
| `phoneJID`, `rememberLID` | `PhoneJID`, `RememberLID`; `device` is what whatsmeow's session store can pair, `cache` what this process learned |
| a stop, and `tidyStore` at the next start | `Stop` forgets `todo` and `cache`, then prunes and folds |

Every event may be delivered more than once and in any order. Failing writes of SQLite are left out.

### ReadTools, SendTools, Clients (`mcpserv/{read_tools,scope,send_tools}.go`, `bridge/send.go`, `dashboard/api.go`, `ui/app.js`)

What reads the store while `Ingest` writes it. Readers do not disturb one another, so a behaviour
follows one (`reader`), or the send tools, or none.

| Code | Model |
|---|---|
| `scopedStore`: refuse a chat, filter a sweep | `Allow`, `KeepAllowed`, `ScopedChats`, ... ; `EditScope` between two reads |
| the read tools | `listChats`, `getChat`, `listMessages`, `searchMessages`, ... |
| `pollNewMessages`, its cursor | `poll`: `Bootstrap`, `TailFrom`, `PollNewMessages` |
| `fetchOlderMessages`, `backfills` | `asked`: `ReadOldest` (the anchor is read), `Remember` (the request has been made) |
| `handleHistory`, its two cooldown maps | `button`: `ClickHistory`, `TakeSlot`, `AnswerHistory` with `GiveBack` |
| the message pane of the page | `pane`, `replies`: a click asks (`OpenChat`, `JumpTo`, `LoadOlder`, `AskedThePhone`, `Refresh`), the reply is applied later, in any order (`Apply`) or fails (`Fail`); a chat being opened empties the list (`Skeleton`) while the former one stays current; `Stale` is the page's test of its generation |
| `Bridge.Deliver` and `recordOutbound` | `Submit`, `Deliver`, then `Record`, a write at a time beside the event handler's |
| `mark_read`, `deliverRead` | `MarkReadCall` groups by sender, then for each group `DeliverRead` (the receipt) and `MarkLocally` |

Drafts and the rate floor are `Gate`'s; here a submitted delivery comes through or is refused, also
by the scope, which the author of a reaction's target is looked up through (`scope.go:53`).

### Settings (`internal/config`, `internal/sessiontrust`, the trust, scope and setup commands, `dashboard/scope.go`)

| Code | Model |
|---|---|
| `config.json`: the account's keys left in it; does it parse | `config` |
| `account.json` per directory, absent or not | `account` |
| the session-trust file | `grants`; `since` and `crossed` are history |
| a command, a request, `setup`, `serve`, its readers | `proc[p]`: where it is, what it loaded, what it will do |
| `LoadFor`: config.json, then account.json | `ReadConfig`, `ReadAccount` with `Merged` |
| `SaveFor`: account.json, then config.json | `WriteFirst`, `WriteThen` |
| `prepareAccount`, `SplitLegacy` | `Split`, `Copy` |
| the edits | `Command`, `Handle`, `Edit` with `Edited` and `Idempotent`; `ReadGrants`, `TruncateGrants`, `WriteGrants` (`os.WriteFile` empties the file before it fills it) |
| `setup` and its wizard | `Setup`, `SetupPairs`, `SetupAttaches` |
| start, `ClearAtStartup`, the readers, a check | `Start`, `ClearAtStartup`, `Wire`, `Check`, `Stop` |

Each file is read and renamed in a step of its own. A process may be interrupted between any two,
and a human's edit leaves `config.json` unreadable for a while, in which the reader keeps what it had.
An `account.json` that does not parse fails a load in the same way and is left out.

## 3. The runs

| Run | Bounds | Shows |
|---|---|---|
| `gate` | 2 callers, 2 kinds, 2 drafts, cap 1, TTL 1, clock 1, floor 1, burst 2, fair | at most once, as shown, not after a discard, block never unconfirmed, every delivery paid for; the refinement of `Confirmation` with its liveness; no call hangs |
| `floor_window` | 2 callers, burst 2, clock 5 | the rate floor over every window |
| `schedule` | 1 client, 2 entries, clock 3, 1 stop, 1 failed write, fair | once per process life, durable cancels and entries, neither early nor revived; every acknowledged entry is settled |
| `send_absolute` | 2 callers, 2 requests, 3 drafts, cap 2, TTL 2 | an identical call with `send_at` commits; the draft table stays within its cap and in its order, and of live drafts only the oldest of a full order is ever evicted |
| `session_safety` | 2 numbers, 2 pairings, 3 clients, 1 log-out, 1 failed connect, lost connection or stop | an unpaired bridge is always watched; a serve that is all of one account stays so until it is logged out |
| `store_clients` | 1 person by LID and by phone, a group; 14 events, 3 of them taken, 1 stop; 6 readers or none, 3 calls; pages of 2 | no message is lost, misplaced or unlisted; a fold settles and keeps names; the scope, poll, backfill, history button, pane and mark_read keep their promises |
| `settings` | 2 editors, 2 commands, requests or setups, 1 stop, interruption or edit by hand, 1 JID, settings in the legacy file | what a serve answers from changes only when a load completes, to settings that were in force; only account.json moves them; grants die with their serve |
| `adoption` | serve and 1 command, 3 files, 2 stops, fair | no file is lost, doubled or replaced; no store is opened before the last file has moved; the migration ends |
| `schedule_missed`, `send_delay`, `session_accounts`, `setup_scope` | the smallest that show it | violations, see section 5 |

**Why these bounds are enough to be interesting.** Two callers are the fewest that race, and every
property of the run `gate` is about one token and the callers that name it. A cap of 1 makes every
second draft evict there, and the token of a confirmed draft is always pruned before it could count.
The table is therefore checked in `send_absolute`, with a cap of 2 and three drafts: there tokens of
confirmed drafts linger behind a live one and count, two drafts are stored in the other order of
their expiry, and an expired draft stands behind a live one. (`gate` itself with these bounds has
6.7 million states, too many for its liveness; the proofs hold for any cap.) A burst of 2 lets a wrongly kept
draft be delivered twice within its TTL, and runs empty before the third delivery; `floor_window`
has the clock to fill the bucket again. The kinds are a text, drafted unless the chat is trusted,
and a block, always drafted; a read receipt goes the way of a trusted text. Two entries with fire
times 1 and 2 let the runner sleep towards the later one while the nearer is added; one stop and one
failed write can be placed at any step, and clock 3 passes the grace of 1 for the first of them. In
`Session` two pairings are the fewest that can be of two numbers or race on one `session.db`, and
three clients are one of the start, one of a log-out and one of a reload; a fourth was tried and
finds nothing else.

In `adoption` the files are the database, its log and one that a running process writes: the three
ways a name can be taken. Two processes are the fewest that race, and what holds for any number of
them and of stops is proved.

In `store_clients` a person has two identities and may be in a group, which is what a fold is about;
three events are a message under the LID, one that teaches the pairing, and a third that comes
before, after or again, and `history <<>>` is a fold alone. A page of 2 has an edge with three
messages, two of them in one second. `Watched` limits the events beside each reader to those its
property is about; alone, the bridge meets all fourteen. One person of one account is enough: no
operator relates two persons except through a group. In `settings` two editors overlap with each
other and with a start, whose split of the legacy file is a third writer.

Symmetry is used over clients, numbers and editors, in safety runs only. The `Max...` constants bound guards
only and appear in comments as bounds.

**Deadlock** is checked but in the runs of `Session` (a serve offline for good, with no goroutine
left, is a state the program can rest in), of `Clients` and of `Settings` (calls, events and commands
are bounded, and files at rest stay as they are). Elsewhere some call can always still be made, so
a deadlock would be the model's.

**Fairness.** `Gate`: weak fairness of a begun call's next step: a goroutine inside the gate is
scheduled again and the mutex is not starved. `Schedule`: the same for the runner and for a client
inside Add or Remove, for the clock, and for `Restart`: the program is installed as a service that
is started again, and nothing is promised if it is not. `RateLimited` is limited by the clock's
bound, which assumes a limiter that does not refuse for ever (what `FloorHolds` is about is the
opposite direction). `Adoption`: a process that prepares an account is scheduled again, and `serve`
is started again when it is down; a command need never be run. Nothing is assumed about the network:
no fairness on `Connection`. The other modules state safety only.

## 4. The proofs

| Module | Theorems | From |
|---|---|---|
| `RateFloorProofs` | `Typed`, `RateFloorHolds` | `FloorInv`: each past grant together with the credit left is bounded by depth, elapsed time and backward seconds; `FloorHolds` alone forgets the credit and is not inductive |
| `GateProofs` | `Typed`, `NoDraftTwice`, `ConfirmedAsShown`, `DiscardPrevents`, `BlocksAreConfirmed`, `TableIsBounded`, `Implements` | `IInv`: a call names a token only if it was minted (`TokenInv`), a token being created is nowhere else (`FreshInv`), a claimed token is out of the table and claimed once (`ClaimInv`), a delivered or discarded one can never be claimed again (`FateInv`) |
| | `DeliveriesArePaid`, `DraftsLeaveForAReason` | one lemma per path of a call: which steps touch the bucket, and why a token is dropped; pruning pops no live draft (`PrunedAreDead`), whatever the order of the expiries, so what is evicted is the oldest of an order still full after pruning |
| | `ToolIsAGate`, `IdenticalCallWorks` | every call of `schedule_send` is a call of the gate (`ToolStep`), so that all of the above holds behind the tool; a draft carries what its call asked for (`AskedInv`), which with `send_at` is the same at any reading of the clock |
| `AdoptionProofs` | `Typed`, `NoFileLost`, `StoresOpenWhole`, `MovesReplaceNothing` | `IInv`: a name a process has passed is gone from the flat layout, whoever moved it (`PassedInv`), which is why a store opens whole; what a process found vacant stays so until that file is moved (`VacantInv`), because who writes there has opened the store; the log of an open store is its own (`LogInv`), so the last close removes nothing that was not replayed |
| `SessionProofs` | `Typed`, `UnpairedWatched`, `StaysApart` | `IInv`: a serve that is down runs nothing (`DownInv`), a client that is not built has no events (`FreshInv`), the one shown the codes is built (`PairInv`), and a serve that started on an account and was not logged out still has its first client, with no reload, no pairing and no log-out in hand (`SteadyInv`): what makes a reload harmless is that nobody begins one |
| `SettingsProofs` | `Typed`, `GrantsDie`, `Answered`, `SettingsMove` | `IInv`: between SaveFor's two writes the account has a file (`BlankInv`), what a process carries fits where it is (`AskInv`), the reader reads the account served and holds what was in force if that has no file yet (`ReaderInv`, `ReadInv`), a command between its read and its write of the grants holds what the clearing left or is marked (`WriteInv`). `Answered` needs besides that the reader and `serve` move by their own steps (`MovesByItself`) and that of the reader's only a completed load changes what it holds (`KeepsItsAnswer`) |
| `ClientsProofs` | `HistorySpaced` | `IInv`: a slot is held by one request (`HeldInv`), no stamp is older than a request that went out under it (`StampInv`), nor is the stamp a request would give back, as far as the requests before it go (`BeforeInv`): the last is what a failure among several on their way needs |
| | `ChatsCoverTheirMessages` | `IStore`: an id has one row in a chat, a row has its chat, and whoever has writes left (the event goroutine in `todo`, a send in `outbox`) writes the chat before the row, or the chat is there already (`Ready`): it is the writes still to come that make this inductive |
| | `FoldsSettle` | each fold in closed form; `Settled` says what a fold leaves, and `SettledAgain` that another finds nothing to do there |
| | `NothingForgotten` | `ISay`: rows and the tasks still to be written say what some event or send said (`Kempt`, `TasksSay`), so a redelivery overwrites a row with the same content and a prune takes only what says nothing |
| | `PollsSkipNothing`, `PollsRepeatNothing` | `Numbered`: a row number stays with its message, or is the next; hence `IPoll`: all numbers up to any one used are a row's or have moved, a cursor has passed only used ones, and what a poll reported is unchanged unless it moved |
| | `BackfillsHonest` | `IFetch`: no event whose id was stored when the anchor was read is older than the anchor, so no older row that is there now was there then; what is counted is bounded by the new rows through an injection |
| | `NamesStay` | `INamed`: what a contact is called is a name and not a spelled JID, a pairing joins the two addresses of one user, a message has a sender; and what each fold does to one person (`FoldCalled`): whoever is renamed takes the names along, filling only the gaps of the one renamed to |
| `ReadersProofs` | `SweepsStayConfined` | `Filed`: contacts and calls are finitely many and comparable, so the queries can put them in an order; what `Where` keeps has passed the scope's test, and every sweep ends in one |
| | `QuietChatsListed` | `ScopeInv`: the scope in force is one that was chosen. The allowlist's chats are put in order before the cut, and whatever stands before a chat in it is as recent: a chat the cut takes off has a page of allowed chats before it (`CountFirst`) |
| | `PaneIsOfItsChat` | `PaneInv`: the page on show is in order, without a row twice and of one chat, or emptied while a chat is being opened, and starts no earlier than the position older pages are asked before; an answer of the current generation on its way fits the end it is meant for, above the newest row for a refresh, below the oldest for an older page; one at a time at each end. Older generations are dropped on arrival and need not fit |
| | `MarksHaveReceipts` | `IFrom`: every row, and every task still to be written, comes from an event's message or an own send, so it has that message's sender and no mark but a receipt event's; `MarkInv`: each group a call still has to send is of one author, who sent what is in it, and what is marked, or will be by the step in hand, has its receipt |
| `ScheduleProofs` | `Typed`, `NoEntryTwice`, `CancelStays`, `AckedStays`, `NothingEarly`, `NothingRevived` | `IInv`: which ids can be where (an entry being added is nowhere yet, what is sent but not removed is the runner's), and for the two action properties the facts about the runner's entry and the clock (`TimeInv`) |

The theorems hold for any number of callers, clients, drafts, entries, numbers, pairings, editors,
chats, stops and failed writes, any kinds of delivery and any times; the constants' assumptions are
the modules' `ASSUME`s, which only say that numbers are numbers, that the TTL, the cap, the cooldowns
and the retry interval are positive, that the database and its log are among the files, that `serve`
is no command, that what a request resolves to is one of the gate's deliveries, and what `Ingest` says
of names (`NamesAssumption`): a name is no spelled JID (the encoding keeps the two apart: names lie
below a thousand), an event's alternate address is the same person's, and a contact's entry is
somebody's; and that a receipt event's mark is not the one that stands for a tool's
(`SendAssumption`), which is how `MarkedHasReceipt` tells the two apart.
`IdenticalCallWorks` has `FixedTimes` as its hypothesis: every request gives an absolute time.

The theorems on the store are about events from outside, and some say what they need of them:

* `NoLIDRecipient` (`ChatsCoverTheirMessages`, `FoldsSettle`): the tools send to phone numbers and
  groups. It cannot be left out: with a LID among `Recipients` TLC violates `ChatCoversItsMessages`
  (section 5), and where the reader is not the send tools the invariant holds without it.
* `OneMessagePerID` (`PollsSkipNothing`, `PollsRepeatNothing`, `BackfillsHonest`): events that carry
  the same message id carry the same time and the same side. Ids are WhatsApp's; the store takes an id
  as the message's identity within a chat, and a fold moves rows between chats.
* `OneContentPerID` (`NothingForgotten`): they also agree on whether there is anything to read, and
  no id of an empty one is given to an own send. `UpsertMessage` overwrites content, so without it a
  redelivered stub would empty a message and the prune delete it.
* `OneChatPerID` (`PaneIsOfItsChat`): events that carry the same id are of the same chat, by whichever
  of its two addresses; a chat's address names no device. The store keys a message by chat and id and
  would keep two apart, but the pane knows what it shows by time and id (`Position`), which the
  property compares with the rows of every chat.
* `OneSenderPerID` (`MarksHaveReceipts`): they have the same sender, and an id of an own send is of
  this account. The receipt names the sender the row had when it was looked up, and `UpsertMessage`
  overwrites the sender of a message that is delivered again.

`store_clients` has events and sends that satisfy them all; the last two are evaluated there
(`MCClients`).

`Implements` is the safety half of the refinement that `gate` checks in full.

**Only model-checked:** what rests on fairness (`NeverBlocks`, `AckedIsSettled`, `MigrationEnds`, the
liveness of `Confirmation`), which this prover does not reach. Every safety property the passing
runs check is stated by a theorem. For that, what a query returns in an order is a choice (`InOrder`: a
sequence of the rows that the order never contradicts; `Where`: what of a sequence passes a test, in its
order), and not a recursion over its data, of which nothing could be proved by induction here; that
such a sequence exists is proved for the orders in use from the finiteness of the store. TLC evaluates both by
enumeration, which the few rows of an instance allow. **Only proved:** the type invariants of `RateFloor`, `Gate`, `Schedule` and
`Adoption` (`Typed`), which no run repeats.

## 5. Where the code and its documentation part

Each is a run that TLC ends with a counterexample; `findings` in `PROJECT.json` quotes the lines.

* `schedule_missed`: an overdue entry kept by Load is tried before the bridge connects and dropped.
* `send_delay`: a `delay_minutes` draft cannot be committed by the identical call a second later.
* `session_accounts`: after a log-out and a pairing with another number in one process, the first
  account's schedules, trust list and scope serve the second.
* `setup_scope`: a first-time `setup` saves the chosen scope into the directory of no account, and the
  account it has just paired may be read in full.

Noted while modelling, most of it visible in the models, and not runs. Sends and session:

* A cancel between `next()` and the delivery is acknowledged and the entry is sent all the same.
* The draft cap counts tokens of confirmed drafts, so a live draft can be evicted early; two
  concurrent drafts can be stored in the other order of their expiry.
* The floor has a burst: it bounds windows (`FloorHolds`), not the interval between two sends.
* `accounts.Current` takes `LIMIT 1` of a query without an order and the bridge the first device the
  library returns. When setup and the dashboard have each paired a number, the next start can take
  one account's files and the other's client. `ApartUntilUnlinked` therefore speaks of a serve whose
  readings agree.
* `PairQR` sets "connecting" and leaves it when the pairing fails; a superseded client's events set
  the shown state; `NeedsPairing` is false before `OnPaired` has attached the account's store.
* A stop between a delivery and the removal of its entry sends the entry again after the restart,
  also when the delivery had failed in a way that may not be retried (`runner.go:40`).
* After a log-out, `recoverPairing` connects once; one failure leaves the re-paired serve offline.
* When `setup` pairs, the waiting `serve` connects and never attaches the account's store; when the
  dashboard pairs, `PairQR` returns connected before the store is attached. What arrives until then
  is written to the pending store, where "nothing is written" (`accounts.go:36`), and is not seen again.

Files:

* Two processes that move the legacy files at once: the second to come to a file fails, usually with
  "both a legacy and a per-account copy exist", though there is only one. A command run while `serve`
  starts can end that start; `MigrationEnds` says that the next one completes it.
* `AdoptLegacy` refuses at the first name that is taken, after files before it in a map's random
  order have moved: a flat `messages.db-wal` can end beside the account's own `messages.db`, and
  SQLite replays it there (the exception `Conflict` in `MigrationEnds`).
* `Attach` closes the old database after the swap: a read that took its handle from `conn()` before
  it fails, where `store.go:80` says it "waits rather than tearing".

Messages:

* A sent message is written by the tool's goroutine, chat first, then row (`send.go:361`); a fold by the
  event goroutine in between deletes the chat of a LID, and the row is listed nowhere. `store_clients`
  sends to phone numbers only, for which `ChatCoversItsMessages` holds (the hypothesis `NoLIDRecipient`
  of its theorem).
* `poll_new_messages` keeps the caller's cursor when every row it looked at was filtered out, and a
  rowid is given again after a fold or a prune deleted the largest; `PollSkipsOnlyMoved` and
  `PollRepeatsOnlyMoved` say what is left of "can neither skip nor duplicate a message".
* A fold counts as an arrival for `fetch_older_messages`, loses the read mark of a LID copy whose
  message the phone chat has already, and leaves a drafted reaction or deletion without its author.
* The pane's refresh asks for what follows its newest position, so a message that arrives late under
  an older time, or in the same second with a smaller id, is not shown until the chat is opened again.
* `openChat` and `jumpTo` have no stale guard: of two chats clicked in a row, the one whose answer comes
  last is shown, which may be the first. Until an answer comes, a refresh or an older page of the former
  chat lands in the emptied list.
* `get_last_interaction` answers for a readable JID also with what it wrote in a group that is not
  readable; `SweepsAreConfined` states that exception. Search applies its limit before the scope.
* An edit or a deletion by a tool does not change the stored row, and MCP's `fetch_older_messages` has
  none of the dashboard's cooldowns.

Settings:

* Every edit is load, change and save with no lock, and a command may ask for a name in between:
  edits that overlap lose one another's changes, and a late split can revert one.
* `deny` of the last chat of a list without a mode leaves an empty list without a mode: every chat is
  readable (`cmd/.../scope.go:85`, `dashboard/scope.go:118`).
* Commands on an install that is not paired write into `_pending` and empty `config.json`'s account
  keys (the exception in `SettingsMoveByTheirFile`).
* A session grant whose command had read the file before a start and writes it after survives that
  start (the exception in `GrantsDieWithServe`). A serve whose first load fails answers from empty
  settings, nobody trusted and every chat readable, until a load completes (`config.go:321`); while
  `config.json` is unreadable, edits of `account.json` are not seen (`AnswersAreInForce`).

## 6. What is not modelled, and why

`components` in `PROJECT.json` says it part by part. In short: text and layout (previews, banners,
escaping, rendering of rows), parsing helpers, the dialogue of the terminal wizard, service units and
MCP-client registration (files of other programs), HTTP authentication (one comparison, no state),
diagnostics, `WaitForCatchUp` (a best-effort wait), the backup of the database, media and avatars, and the SQL engine with its full-text ranking and its failing writes.
WhatsApp and whatsmeow are external: modelled, where needed, by what the code in `src/` asks of them
and handles from them. Power loss is not modelled: a renamed file stays.

## 7. Plan

1. Gate, RateLimiter, RateFloor, Confirmation; Schedule, ScheduleSend; their proofs. *Done.*
2. `Session`: clients, pairing, reload, log-out, the account's directories; `Settings`. *Modelled,
   checked and proved.*
3. `Store`, `Ingest` and their readers and senders (`ReadTools`, `SendTools`, `Clients`). *Modelled,
   checked and proved.*
4. `Adoption`: the legacy files, by several processes and with stops, and `Attach`. *Modelled, checked
   and proved.*
5. Open: `Schedule` composed with the live `Gate` whose limiter it shares.
