# A TLA+ development of ComaMessenger

ComaMessenger is a self-hosted messenger: a Go server (`core/`) over PostgreSQL, a
platform-neutral TypeScript client engine (`packages/core/`), a React client
(`apps/web/`) and a TypeScript runtime that executes LLM agents (`apps/agent-runtime/`).
This directory models the parts of it whose correctness is a matter of order,
concurrency and failure, checks them with TLC on small instances, and proves the
safety results for every instance with TLAPS.

All paths below are relative to the repository.

## 1. Inventory

### 1.1 Components

| Component | State it keeps | Operations | Talks to |
|---|---|---|---|
| **Durable event log** `core/internal/eventlog` | `organizations.event_seq`; rows of `events` with routing columns (chat, audience, excluded session) | append (by every domain service, under the organization row lock), `Current`, `Bounds`, `Replay`, `Live`, `Prune` | written by the domain services, read by realtime, push, triggers |
| **Dispatcher and hub** `core/internal/realtime/{dispatcher,hub}.go` | per organization a watermark; per subscription a bounded queue, `latest`, a cancel flag | `poll`, `Register`, `PublishLive`, `Advance`, `unregister` | polls the log; feeds sessions |
| **WebSocket sessions** `server.go`, `session.go` | `deliveredThrough`, `backlogHigh`, pending (unacknowledged) frames, `lastAck` | authenticate, register, bounds check, backlog replay, live frames, acknowledgements, timeouts | hub, log, client |
| **Client coordinator** `packages/core/src/realtime.ts` | persisted checkpoint, store checkpoint, ack timer, socket | connect, receive, ack, resync, reload | server; IndexedDB; `useMessengerSession` |
| **Agent runs** `core/internal/agentrun` | `agent_runs`: status, attempt, lease, deadline, backoff, cancel request, published message | Invoke, RequestCancel, claim (reap, scan, lock, count, commit), heartbeat, publish, complete, fail | claimed by runtimes; publishes messages; enqueued by people and triggers |
| **Provider gateway** `agentrun` + `agentprovider` + `http/agentprovider.go` | `agent_provider_calls`, `agent_usage` | admit a call against rate and budget, stream, record | runtime, vendors |
| **Agent runtime** `apps/agent-runtime` | claim loops | claim, execute (provider loop, tools, publish, complete), fail | Core over HTTP |
| **Agents and their configuration** `agent`, `agentconfig`, `agentmemory`, `agentauthz` | agents, versions, keys, credentials, connections, policies | CRUD, publish a version, pause, resume, delete | agent runs |
| **Triggers** `agenttrigger` | triggers, `agent_checkpoints`, schedules | dispatch events, commands, schedules; test | event log, agent runs |
| **Tools and confirmations** `agenttool` | `agent_tool_confirmations` | execute, ask, decide | messages, chats |
| **Messages** `message` | messages, reactions, pins, forwards, thread follows | create (idempotent by `client_msg_id`), update, delete, react, pin, forward | event log |
| **Chats** `chat` | chats, members, roles | create, join, add, remove, change role, archive | event log |
| **User state** `userstate` | read markers, drafts, notification preferences | last writer wins, monotone markers | event log |
| **Identity** `identity` | users, sessions (refresh families), invitations, statuses | bootstrap, login, rotate, revoke, invite | everything |
| **Files** `files`, `storage` | files, uploads, blobs, `organization_storage_usage` | reserve, chunk, complete, abort, expire, reconcile, sweep | messages |
| **Push and digests** `push` | notification jobs, deliveries with leases, digests | enqueue, lease, send, retry | event log, vendors |
| **Outbox and store** `packages/core/src/{outbox,store}.ts` | queued messages; messages, chats, unread and reply counts | send, flush; apply events | API, coordinator |
| **Redis coordination** `coordination` | none | best-effort wake-ups between Core processes | dispatcher |
| **Search, workspace, access, permission, password, config, database, http, api** | rows, queries, wiring, generated schema | | |
| **Web application** `apps/web` | views and hooks | | outbox, store, coordinator |

### 1.2 What is hard, and what makes each part correct

* **Delivery.** Commit, poll, registration, bounds check, replay, the live queue, the
  socket, the acknowledgement and the checkpoint are nine places that each hold a
  sequence number. Correct means: a client's checkpoint never passes an event it is
  entitled to without having it; nobody gets an event that is not theirs; everything
  arrives in the end.
* **Agent runs.** Many claim loops, a reaper inside the claim, leases that lapse under a
  live worker, requests authorized by one statement and carried out by another. Correct
  means: per-chat concurrency holds, a cancellation is final, attempts are bounded, one
  final message per run, no call is admitted over the budget, every run ends.
* **Chats.** Who may do what to whom is read before the transaction and decided again by
  the statement under the organization's lock; accounts and agents change outside that
  lock. Correct means: an open chat keeps an active owner, only owners make or unmake
  owners, only moderators change an archived chat, and nobody waits for ever.
* **Outbox and store.** A message is created once although its answer may be lost; counts
  derived from frames agree with the server although frames are delivered again.
* **Confirmations, push, triggers, sessions, files.** An approved action is executed once;
  a notification is sent once per subscription; every matching event starts a run once; a
  family of sessions survives a lost answer; the ledger of bytes equals the files.

`PROJECT.json` lists every hazard at its line; those without a property say why.

## 2. Modules

```
EventLog <-- Realtime <-- MCRealtime           AgentRun <-- MCAgentRun
                ^                              ^      ^
         RealtimeProofs <-- DeliveryProofs     |   AgentRunProofs
                                               |
Realtime implements EventStream                |   AgentRun implements RunQueue
                                               |
ChatMembers <-- MCChatMembers                  |
     ^                                         |
ChatMembersProofs                              |
ChatMembers implements Roster                  |
                                               |
Outbox (implements MessageDelivery) --+        |
Session ------------------------------+        |
Autosave -----------------------------+-- MCParts <-- MCProgress
Notifications ------------------------+
Confirmations (implements Approval) --+
Files --------------------------------+
Triggers -----------------------------+   <-- MCTriggers

BrowserProofs (Outbox, Session, Autosave)          NotificationsProofs
AgentPlatformProofs (Confirmations, Triggers)      FilesProofs
```

An arrow points to the module that is extended. The seven modules in the lower half share
no state with the event log or with each other; each is a specification of its own
(`Init`, `Next` and fairness under its own names). `MCParts` puts them side by side:
the first state chooses a part and only that part moves, so what is explored is the sum of
the seven state spaces, as if each had a run. `MCProgress` does the same for liveness and adds
`AgentRun`.

### 2.1 EventLog

One organization's log. Every command of the domain services takes the organization row
lock before it allocates a number and keeps it to the commit, so a transaction is one
step (`Append1`, `Append2`). An event is its three routing columns; `VisibleTo` is the
`WHERE` clause of `Replay`. One chat stands for all: two chats differ, for a reader, only
in who their members are. `Commands` selects the kinds of rows a run issues: `message`
(anything a member says to a chat), `reply` (a message with an automatic follow, two
rows), `state` (a personal event that excludes the session that made it), `status` (to
the whole organization), `join`, `remove`. `entitled` is history: the sessions that could
read an event at its commit and ever since. `Prune` removes any subset of the rows below
the count floor; the 72-hour age test has no clock here.

### 2.2 Realtime

`Realtime` extends `EventLog` with one Core process and its clients. A connection `k` is
a socket together with its server session; `cpc` says where `ServeHTTP` is (`current`
→ `register` → `bounds` → `open` → `closed`). Each statement that reads or changes shared
state is an action:

| Code | Actions |
|---|---|
| `Dispatcher.poll` | `PollStart` (watermark), `PollCurrent` (`Current`), `PollRead` (`Live`), `PollPublish` (`PublishLive` or `Advance`), `PollFail` |
| `Server.ServeHTTP` | `ReadCurrent`, `Register`/`RegisterRefused`, `BoundsResync`/`BoundsAccept` |
| `session.writeLoop` | `ReplayBatch`, `LiveFrame`, `AckFrame`/`InvalidAck`, `AckTimeout`, `SlowConsumer`, `PeerGone`, `ServerClose` |
| `RealtimeCoordinator` | `Connect`, `ReceiveEvent` (+ `ScheduleAck`), `AckTimer`, `ReceiveResync`, `ResyncDone`, `ResyncUnloaded`, `ResyncFailed`, `SeeClose`, `LoseSocket`, `Reload` |

Abstractions, and why they are sound for the properties:

* The fallback timer of the dispatcher makes a poll possible at any time, so wake-ups
  (local or over Redis) add no behaviour; several Core processes differ for a client only
  in which hub its socket is on.
* Byte limits depend on payloads: `room` is any number of frames the limit may leave.
* TCP: frames arrive in order without gaps until the socket breaks. Queues are sets taken
  smallest first, which is the channel's order because of `EnqueueInOrder`.
* The window of a client in `ReceiveEvent` is one step: the store's reducer, the write of
  the checkpoint and `scheduleAck` follow one another with one `await` on IndexedDB,
  whose writes are in order.
* A resync callback ends in one of three ways. The snapshot loads (`ResyncDone`). The chats or
  the counters do not: `reload` (`useMessengerSession.ts:91`) catches the error, so the
  coordinator saves the watermark and closes the socket as if they had (`ResyncUnloaded`).
  Or the messages of the open chat do not: `loadMessages` throws, and nothing is saved
  (`ResyncFailed`). `unloaded` is history: the highest watermark saved without its snapshot.
* The branch `last_seq > current` is left out: no client of this log can reach it.
* Tokens, revocations and shutdown are `ServerClose`; typing, presence and streaming
  previews have no durable state and are left out.

`EventStream` is the promise to a device: a log, and per session the number it saved, what
it knows and what it has given up for a snapshot. A device takes an event that is addressed
to it only when it has, or has given up, everything it is owed before it. `Realtime`
implements it (`StreamKept`) with `saved <- checkpoint`, `known <- covered`, `due <-
entitled`, addressees from the routing columns, and `awaited` from the resyncs that are
loading or failed; a watermark that is saved without its snapshot is a step of its own there
(`SaveUnloaded`), and the steps of dispatcher, hub, sessions and sockets are stutters.

### 2.3 AgentRun

One agent's queue. The clock is three flags per run that time can turn at any moment
(`LeaseExpires`, `Deadline`, `BackoffOver`). The claim transaction is five steps with its
row locks (`rows`), its candidates and its advisory locks (`keys`):

| Code (`agentrun/service.go` unless named) | Actions |
|---|---|
| `Invoke`, `RequestCancel`, pause/resume (`agent/service.go`) | `Invoke`, `RequestCancel`, `SetEnabled` |
| `reap` | `ReapQueued`, `ReapRunning` |
| `claim` | `ClaimScan`, `ClaimLock`/`ClaimAborted`, `ClaimCount`, `ClaimCommit` |
| `HeartbeatForAgent` | `Heartbeat` |
| `AgentRuntime.execute` (`runtime.ts`) | `SendStart`, `SendPublish`, `Preview`, `SendComplete`, `WorkerError`, `SendFail`, `WorkerDies` |
| `startProviderCall`, the stream, `finishProviderCall` | `StartProviderCall`, `StreamEnds`, `FinishProviderCall` |
| `publishAgentRun` → `CreateFinalForAgentRun` | `Publish`, `PublishRejected` |
| `providerUsage`, `Complete`, `Fail` | `ProviderUsage`, `Complete`, `Fail` |
| Core restarts | `CoreCrash` |

A runtime request is authorized by `RuntimeTarget` and then carried out by other
statements; `requests` holds the authorized ones, which outlive their worker. That split
is where late publications, completions and charges come from. Money is counted in units of a
reservation: a call reserves one unit, which in the code is an estimate from the length of
the request and its output limit, and costs from none to `MaxCost` units when it is finished,
since `finishProviderCall` records what was used and nothing caps it. Amounts are sets of
units `<<call, i>>`, so that what the gate's query counts twice would count once and what it
misses is missing. Other abstractions: all reservations are equal; one budget window; the vendor rate limit is a `WorkerError`; only a heartbeat that
un-expires a lease changes anything; deleting an agent is disabling it and cancelling its
runs; the order of `next_attempt_at` is open, so a claim may try any candidate first. An
answer reaches its worker only while the worker waits for that kind of answer (`Awaits`): the
response to a call that was given up goes nowhere.

`RunQueue` is the promise to whoever fills the queue: a claim is one step that starts a
queued run which is not canceled, has an attempt left and finds a place in its chat; a run
that was asked to stop ends as canceled; an ended run stays ended; one answer. `AgentRun`
implements it (`QueueKept`) with `executions <- claims` and `answer <- published`: a claim
happens at `ClaimCommit`, and its scan, locks and count, the workers' requests, leases and
provider calls are stutters.

### 2.4 ChatMembers

Groups and channels, their members and the accounts behind them. A request is one HTTP
call on its way through one transaction; `request` holds what it asks and its step:

| Step | Code | Action |
|---|---|---|
| reads before the transaction | `managementContext`, `Get`; `member`; `ownerCount` | `AskCreate` … `AskRemove`; `ReadTarget`; `CountOwners` |
| organization lock | `lockOrganization` | `LockOrganization` |
| the guarded statement | `INSERT`/`UPDATE`/`DELETE … WHERE EXISTS …` | `Write` (guard: `Permitted`) |
| audit row and event | `audit`, `appendDurableEvent` (foreign keys to actors) | `Record` |
| deferred constraint triggers | `assert_chat_has_owner` | `CheckConstraints` |
| commit, rollback | `tx.Commit`, `defer tx.Rollback` | `Commit`, `Refuse`, `Cancel` |

Agents (`BeginHire`, `BeginPublish`, `BeginDelete`: `Create`, `Publish`, `Delete` of
`agent/service.go`) lock the row of the agent instead, a publication also its actor, and
rewrite the agent's memberships. `BeginStatus` is `UpdateMember` of
`workspace/repository.go`: SERIALIZABLE, so it sees the database as it was when it began,
and its assertion is made of that. `since` is history: what others have committed since a
request's assertion.

What a transaction writes reaches the shared tables at `Commit`. That is READ COMMITTED
for these programs because the statements that read after writing read only rows of their
own, and what another request may not touch meanwhile is a lock: `Rows` (membership rows),
`Exclusive`, `Updated` and `Referenced` (accounts: `FOR UPDATE`, an update, the share of a
foreign key). A wait is a guard; `BreakDeadlock` is the database's deadlock detector and
`AbortSerializable` its refusal of two serializable transactions that depend on each
other. Other serialization failures and errors are `Cancel`.

`Roster` is what this amounts to for everybody else: a command is one step, permitted by
the roles, the state and the visibility of the moment of that step, and so are the changes
of agents and accounts. It has no requests, early reads, locks or assertions, and says
nothing of a last owner (`OwnerKept` is false). The mapping is the identity on `chatState`,
`public`, `role` and `account`: a commit is a step of `Roster`, everything else a stutter.

Left out: direct chats (two fixed members, no owner), names and topics, notification
settings, the organization's own owners (who cannot be deactivated), the share that the
foreign key of an administrator's audit row takes, and requests that are refused by their
first read, which change nothing.

### 2.5 Outbox and MessageDelivery

`MessageDelivery` is the promise: a message is accepted, then posted, once. `Outbox` is how
it is kept: the IndexedDB queue all tabs share (`queue`), and in every tab an instance of
the class `Outbox` (`flush`, `listed`, `item`), the access token, and the delivery status
the store shows (`view`).

| Code | Actions |
|---|---|
| `Outbox.enqueue`, the `online` listener | `Enqueue`, `Retry` |
| `Outbox.flush`, between its awaits | `ListEntries`, `SendEntry`, `Delivered`, `Failed`, `FlushDone` |
| `message.Service.create` (idempotent by `client_msg_id`) | `Handled`, and `HandledLate` for a request its tab has given up |
| the network, a refusal | `SendFails` |
| the store: `apply`, `replaceMessages` | `FrameArrives`, `PageShown` |
| page load, `reauthenticate`, `refresh` | `ReloadTab`, `TokenDropped`, `TokenRefreshed` |

A message is its `client_msg_id`. An entry is sent unchanged by one actor, so the
fingerprint of a repeated one never differs and `idempotency_conflict` has no action. The
refinement maps a message to "unsent", "accepted" (queued), "posted" by its rows in the
table, whatever the queue still holds.

### 2.6 Session

One sign-in of a browser: the family of sessions on the server (`issued`, `revoked`,
`lapsed`), the refresh cookie all tabs share, and in every tab the token, the
`BrowserSessionCoordinator` with its mailboxes for the broadcast channel, a request and the
socket.

| Code | Actions |
|---|---|
| `BrowserSessionCoordinator.refresh` under `navigator.locks` | `LockGranted`, `UseShared`, `AskServer` |
| `RotateSession` and the handler | `Rotate`, `RotateReused`, `NoCookie` |
| the answer, or none | `Refreshed`, `Denied`, `AnswerLost` |
| `BroadcastChannel` | `BroadcastArrives` |
| `MessengerAPI.request` and its one retry | `SendRequest`, `RequestEnds`, `Unauthorized` |
| logout | `LogoutLet` (the bearer is resolved), `LoggedOut` (the session is revoked) |
| the realtime socket | `SocketClosed`, `Connect` |
| time; another device | `AccessLapses`, `EndedElsewhere` |

`lapsed` holds the live sessions whose access token is past its end (of a revoked one it
makes no difference), and `sentWith` the token of a request until it has an answer: the one
retry ends whatever the answer to it is.

Signing in again starts another family, and a refresh that reaches the server after its tab
gave it up is left out: its cookie would be set by an answer nobody reads.

### 2.7 Autosave

A settings page: `useAutosave` over the draft of the organization's settings, the query it
comes from, the reconciler, and the versioned `UpdateSettings`. `Rendered` is one render
with its effect: the cleanup of the last effect, and the timer the new one sets. The order
inside `persist` is kept: `committed`, `onSaved`, the 50 ms timer, then `finally`, which
still sees the draft of the last render. `typed` and `replaced` are history: what the user
put in last, or what the answer of a refetch put in its place (`setDraft(query.data)`,
`shared.ts:24`), and whether that was another input. Pages without a version (profile,
notifications) and the unmount of a page are left out.

### 2.8 Notifications

Jobs are committed with their events (`Post`), materialized (`Materialize`), leased
(`Take`), sent (`SendNext`, `Answered`) and recorded (`RecordSent`, `RecordGone`,
`RecordFailure`, `RecordLost`). Push and digest differ in what goes out together (`Group`)
and when active readers are looked at (`screened`). A lease is the worker that holds it;
`Lapse` is its thirty seconds. Policies (memberships, mutes, schedules) are `wanting`, read
at materialization as in the code. Backoff is untimed: it makes `Take` choose any subset.

### 2.9 Confirmations

`RequestConfirmation` is `Invoke` of a write tool; `Approve`, `Deny` and `Expire` are
`DecideConfirmation` up to its commit under the row lock; `StartCall`, `Handler`,
`FinishCall` (or `ToolFails`, `FinishCallFails`) and `FinishConfirmation` are what the
request goes on to do, each a transaction of its own; `RequestLost` is its end in between.
The scope is read with the decision and not again; the membership is read by the handler.
The run, the scopes, the membership and the agent change at any time, as `AgentRun` and
`ChatMembers` have it.

`Approval` is the promise: a call is decided once, carried out once at most and only while
it stands approved, and reported as completed only if it was. `Confirmations` implements it
with `decision` as `confirmation` and `carried` as `effects`.

### 2.10 Files

Streamed uploads to the local store, every file of size one. A transaction is one step
except where one statement uses what another has read: the attachment (`AttachLock`,
`AttachEnds`), the cleanup (`CleanupChoose` in the snapshot of its statement, `CleanupLock`,
`CleanupDelete`, which looks again) and the recomputation of the ledger (`RecomputeReads`,
`RecomputeWrites`). Objects are deleted after the commits that give them up (`doomed`,
`DeleteBlob`). `drifted` is history: whether the last recomputation overlapped a change.

### 2.11 Triggers

The dispatcher of `agenttrigger/service.go`, what administrators change under it, and the
messages and reactions of agents that come back to it as events. A replica's round is
`round[d]`: idle, an agent taken from the list, the cursor locked and the triggers loaded,
or a due schedule read.

| Code | Actions |
|---|---|
| `Create`, `CreateForAgentRun`, `PutReaction`, `DeleteReaction` | `PersonPosts`, `CreateForAgentRun`, `PutReaction`, `PersonReacts` |
| `Update`, `Delete` of messages | `EditMessage`, `DeleteMessage` |
| `DispatchEvents`, `dispatchAgent` | `ListAgent`, `TakeCursor` (the row lock, the cursor, the triggers), `DispatchAgent` (the batch, the runs, the cursor, the commit), `DispatchFails` (an insert refers to a trigger that was deleted, the transaction is rolled back) |
| `DispatchSchedules`, `dispatchSchedule` | `ListDue`, `DispatchSchedule`, `NotDueAnyMore` |
| `Create`, `Update`, `Delete` of triggers, `ResetRecipe` | `CreateTrigger`, `UpdateTrigger`, `DeleteTrigger`, `ResetRecipe` |
| pause, resume, members, connections | `PauseOrResume`, `ToggleMember`, `ToggleConnection` |
| the death of a replica | `DispatcherDies` |

* One chat, whose members are who sees the events; the events of chats the agent is not in
  would be passed by the next one it sees. What a trigger matches is data: an event is *for*
  some agents (`for`). The body and the mentions are those the message has when the query of
  `dispatchAgent` joins them, so an edit or a deletion sets `for` of the event the message
  was posted with to any agents at all, the cursor being wherever it is, and appends an event
  of its own. The query and the commit of a batch are one step: what is posted or edited
  between them is as if it came after the commit. A slot stands for what a trigger is for, and an agent has at most one
  live trigger per slot; a trigger is its slot and a number, so a replaced one is another.
* A run is the row `dispatchAgent` inserts and, from then on, an author: it posts and reacts
  any number of times as long as its agent is a member. Its life as a run is `AgentRun`.
* `stored` keeps superseded triggers, which can still be deleted unless a run refers to one
  (the foreign key of `agent_runs`).
* Time is counted in occurrences of a schedule. `prompt` says whether a skipped policy finds
  its two minutes gone. An occurrence starts at most one run because `next_run_at` moves
  under the row lock; schedules are in the model for what they share with events (the runs
  that speak, the triggers that are deleted), and no property is about time.
* `links` and `reacted` (the chain that led to an event) and `owed` (what a listening trigger
  is still to answer) are history. What is owed is what was heard when it was posted and is
  heard still; an edit or a deletion that takes an agent away ends what it is owed, and one
  that brings an agent in is owed nothing, because the cursor may have passed.

The model shows, and the properties allow for: an agent that joins is started for old
messages its cursor has not reached; a message that is edited or deleted before the cursor
reaches it starts whom it is for by then, and nobody when it is edited afterwards; events
seen while the connection is disabled are passed for good; a trigger that is created while a replica holds the cursor misses that batch; a
batch that fails on a deleted trigger is tried again by the next round.

## 3. Runs

Every run is listed in `PROJECT.json` with its properties. States are distinct states.

| Run | Instance | Checks | Result |
|---|---|---|---|
| `audience` | 2 sessions of one actor, a second actor, 2 sockets, 3 rows of personal events, joins, removals | `NoSilentSkip`, `OnlyAddressed` | holds |
| `live` | 1 session, 2 sockets, 2 rows, all but the last prunable; window, queue and batch of 1; 1 fault (a lost socket, a reload, a snapshot that fails to load); fair | `DeliveryInv` (`NoSilentSkip` is one of its conjuncts), `EventuallyDelivered`, `StreamKept` | holds (225k) |
| `ack_timer` | 1 socket, 2 messages, no fault; fair | `AppliedIsAcked` | **violated** |
| `resync_overlap` | 1 socket, 4 messages, pruned to one | `CheckpointContiguous` | **violated** |
| `claims` | 2 runs of a chat, 2 claim loops, 2 attempts; 2 crashes while there is one run | `QueueInv` (`CancelSticks` and `AttemptsCount` are two of its conjuncts), `ChatLimitHeld`, `OneFinalMessage`, `QueueKept` | holds (1.2M) |
| `calls` | 2 runs, 2 claim loops, 2 provider calls, budget 1, calls that cost up to 2 units | `BudgetHeld` | holds (3.8M) |
| `conflict` | 1 run, 2 attempts, 2 provider calls | `ConflictMeansLost` | **violated** |
| `members` | 2 users (one a moderator and owner of the organization), 1 agent, 1 chat, 2 requests at a time | `MembersInv`, `WaitsEnd`, `OwnerLostByOverlap`, `OwnershipByOwners`, `RosterKept` | holds (3.1M) |
| `owner_kept` | the same, granting only ownership | `OwnerKept` | **violated** |
| `parts` | outbox: 2 tabs, 1 message, 3 losses (78k); session: 2 tabs, 2 sessions, 2 mishaps (254k); autosave: 3 inputs, 4 edits or retries, 2 saves of others (779k); notifications: 2 events, a subscription and a digest, 2 workers, 1 trouble (226k); confirmations: 2 calls, 2 managers, 2 disruptions (5k); files: 2 files, quota 1, 1 crash (132k); triggers: 2 agents, a trigger each that hears agents, 2 replicas, batches of 2, 3 turns (messages, edits, deletions, reactions and the rest), 2 of them changes or deaths, `max_chain_depth` 1 (507k) | the 17 safety properties of 3.1.2 | holds (2.0M) |
| `progress` | the same parts, smaller (session: 3 sessions, 1 mishap, 63k), and 2 runs of an agent (one a sandbox run) with 1 claim loop and 2 attempts; fair | the 8 liveness properties of 3.1.3 | holds (157k) |
| `triggers_reactions` | 2 agents, 1 replica | `ChainBounded` | **violated** |

### 3.1 What the properties say

#### 3.1.1 Delivery, agent runs, chats

* `NoSilentSkip`: no checkpoint passes a retained event its session is entitled to unless
  the event was applied, or a resync emptied the store past it and its snapshot is loading
  or failed to load. `DeliveryInv` is its inductive strengthening (section 4).
* `OnlyAddressed`: frames on the wire and in queues are for their session.
* `EnqueueInOrder`: a queue is appended to in log order (proved, and not in a run).
* `EventuallyDelivered`: what a session is owed it gets, or ceases to be owed, or its client
  has saved a watermark over it although the snapshot did not load. In that last case nothing
  ever streams it; what it changed comes back only with a later request for whole lists, which
  another event of a chat makes and none is sure to. `realtime-v1.md:233-239` lets a checkpoint follow its snapshot.
* `StreamKept`: `Spec` implements `EventStream!Spec`. It says more than `NoSilentSkip`: also
  what is applied without being saved, and what a snapshot replaces, comes without a gap.
* `QueueKept`: `Spec` of `AgentRun` implements `RunQueue!Spec`. It contains `EndIsFinal` (an
  ended run stays ended and keeps its message), which is also proved on its own.
* `BudgetHeld`: no call is admitted unless everything that the agent's calls have cost or have
  reserved, this one included, is within the budget. It is about the moment of admission,
  because that is what the code decides: a call that is admitted within the budget may cost
  more than its estimate, and the sum passes the limit. `OnlyOverrun` says that it does so by
  no more than that, and is a conjunct of the invariant that proves both (section 4).
* `ChatLimitHeld`, `CancelSticks`, `AttemptsCount`, `OneFinalMessage`,
  `EveryRunEnds`: see the comments in `AgentRun.tla`.
* `OwnerLostByOverlap`: what is true of `OwnerKept`. A step that takes the last active
  owner is the commit of a request whose assertion was overtaken by a commit, and one of
  the two does not take the organization lock. Chat commands among themselves cannot do it.
* `OwnershipByOwners`: whatever the early reads saw, the statement decides by the roles of
  the moment.
* `RosterKept`: `MembersSpec` implements `Roster!Spec`. It contains what is also proved on its
  own, that only moderators and the recipes of agents change an archived chat
  (`ArchiveIsFrozen`).
* `WaitsEnd`: whoever waits, for the organization lock, for rows or for an account, waits over
  two others at most for a request that can go on, or that the database may abort because it
  waits in a circle of two with another. So no request waits for ever for lack of a victim,
  and no circle is longer than the one the database is seen to break.
* `MembersInv`: its `LocksInv` says that the locks do what `RosterKept` and `WaitsEnd` need
  (one holder of the organization lock, no row and no account locked against each other, the
  statement's permission and the accounts it refers to still as it saw them at the commit).

#### 3.1.2 The parts: safety

* Outbox. `PostedOnce`: `OutboxSpec` implements `MessageDelivery!Spec`. `StatusTrue`: a
  status that asks for a retry has an entry to retry, or another tab took the entry away.
* Session. `OneLive`: at most one live session per family. `NoFalseReuse`: with
  `navigator.locks` a tab never presents a rotated token, so nobody is signed out for a
  theft that did not happen, unless an answer was lost or the session was ended meanwhile.
  Without locks, or with a lost answer, it would be false; the code has no remedy for either.
* Autosave. `SavedMeansStored`: a page that says "saved" and has nothing left to do is
  right. `LostOnlyAfterGraft`: another administrator's save is undone only after the
  reconciler put the new version on a draft with old fields. The run also reaches that.
* Notifications. `RepeatsExplained`: every repetition has a lapse, a crash or a lost answer
  to its account. `SentWentOut`: nothing is marked sent that was not.
* Confirmations. `EffectDecided`, `OutcomeTrue`; `ApprovalKept`: `ConfirmationsSpec` implements
  `Approval!Spec`, so a decision is final and only an approval has an outcome.
* Files. `AttachedKept`, `ReadyHasBlob`, `LedgerTrue`.
* Triggers. `AnsweredOnce`: an event starts at most one run of an agent for a slot, also when
  the slot's trigger is replaced between two replicas (the unique index would let both in;
  the cursor does not). `NothingPassed`: no cursor passes an event that a trigger heard when
  it was posted, hears still as its message is now, and has gone on listening for, without a
  run. `LoopBounded`: a chain of runs
  that answer each other by messages is at most `max_chain_depth` long.

#### 3.1.3 What must happen

* `EveryRunEnds`, `EveryDeliveryEnds`, `ReservationEnds`; `PostedWhenFlushed` (if a flush
  starts again and again); `ApprovalEnds` (unless the request that approved was lost: nothing
  takes it up).
* `RefreshEnds`: a refresh ends and hands the lock on, whether it is answered with a rotation
  or a denial or its answer is lost, and whether the session was signed out or ended
  elsewhere meanwhile. The bound on sessions stands in the way of one case only: a third
  rotation, which the model cannot make (`BeyondBound`). A rotation, a second one, and the denial of
  what was rotated, signed out or ended after each are all in the run.
* `InputSavedOrShown`: in the end the server has the last input, or an error shows, or a
  refetch replaced that input in the draft without a word (`replaced`). The last case is what the code
  does and contradicts the plan of the settings (3.2): the excuse is there because the
  property is false without it.
* `OwedIsRun`: what an agent is owed is answered, unless it is disabled, the trigger stops
  listening, or the message is edited or deleted before the cursor comes to it.

### 3.2 The five disagreements

1. `ack_timer`. `scheduleAck` arms a timer whose closure holds the number of the *first*
   event; later events neither re-arm nor replace it, so they are acknowledged only when
   another event comes. `realtime-v1.md` promises an acknowledgement within a second. The
   server closes such a connection for an ack timeout; the client reconnects.
2. `resync_overlap`. The resync callback awaits its snapshot while the coordinator already
   reconnects with the old checkpoint. Two resyncs overlap and the older watermark is saved
   last, or frames of the new socket advance the checkpoint over a store that is not
   filled. `realtime-v1.md` defines the checkpoint as contiguous and applied. `NoSilentSkip`
   excuses exactly this window, and `EventuallyDelivered` shows that it closes.
3. `conflict`. `providerUsage` refuses to complete a run that has any open provider call,
   also one left by an earlier attempt which nothing can close any more. The 409 means
   something that `agents-v1.md` does not list, after the run's message was published; the
   runtime gives up and the lease is reaped.
4. `owner_kept`. Decision 0005 says that deferred constraints prevent an open group or
   channel from losing its last active owner. A deferred trigger reads what is committed:
   an owner who leaves and the deactivation of the other owner pass both assertions and
   both commit. So do two publications or deletions of agents that own a chat. The chat is
   then stuck: the triggers refuse every later change of its members, until it is archived
   or an owner is activated again.
5. `triggers_reactions`. The plan of the agent platform limits the depth of a chain to
   prevent loops of agents (`phases/05-agent-platform.md:55`). The dispatcher takes the depth
   of an event from the provenance of its subject. The subject of `reaction.added` is the
   message that was reacted to, so the depth of the reacting run is lost: two agents with
   event triggers for reactions that include agents start each other for ever at the depth of
   that message. `LoopBounded` is what is true: of chains by messages alone.

Other places where a document says more than the code does, found while modelling and not
stated by a run: `phases/03-web-client.md:176` (a status always settles: a tab whose entry
another tab delivered may keep showing it as failed until the next page of the chat);
`phases/03-web-client.md:99` (a tab whose session was ended shows it at once: it does at its
next request or socket); `phases/03.2-settings-redesign.md:337` (the last input is saved:
not when a refetch replaces the draft first); `phases/03.1-navigation-settings.md:25` (no
update is lost: the grafted version of 3.1.2); `decisions/0010-web-push-delivery.md:12`
(one sender per delivery: not past thirty seconds); `phases/04-files-search.md:71` (orphans
are removed: objects of failed files are not orphans to `worker.go:111`);
`agents-v1.md:61` (an approval leads to the call: not when the request is lost). `phases/05-agent-platform.md:36`
(expensive calls stop before the budget is exceeded: only those whose estimates are high
enough; `:148`, the reservation under an advisory lock, is what the code keeps);
`realtime-v1.md:233-239` (the checkpoint follows the snapshot: also one that did not load).
Nothing
clears the IndexedDB queue at logout, so the entries that are left are flushed by whoever
signs in next in that browser.

### 3.3 Bounds

* Three log rows (`audience`) are enough for an event below the backlog target, one between the target
  and the watermark, and one after; `live`, with pruning, faults and fairness, has two. Windows and queues of one or two
  fill up in every run.
  A batch limit below the number of rows makes partial batches and the jump of the last
  batch to its target both occur. Two sockets are needed for the client that is back
  before the server has noticed; a third adds only another dead one.
* Pruning is on in `live` and `resync_overlap` (`MinCount = 1`) and off elsewhere, where it
  would multiply the states of the interleavings those runs are about.
* In `claims` two runs of one chat compete for its one place, two attempts make reap and
  failure retry; two claim loops are what row locks and advisory
  locks are about. A crash adds to every state of both runs, so crashes are explored while
  only one run was invoked (`CrashesAlone`): what they do there, leaving requests behind and
  a second attempt to race with them, needs one run. In `calls` two runs have a call each and
  one attempt, both are sandbox runs (publishing has no part in the budget), and a call costs
  up to twice its reservation; the late request of a lapsed lease is the third actor.
* In `parts` two of everything that competes (tabs, pages, workers, managers, files) make
  every pair of overlaps; the third actor only waits. One message suffices for the outbox
  because entries do not touch each other; two messages are in `progress`. In `parts` two sessions
  are issued at most, that is one rotation and one reuse. Four inputs are needed for the
  graft: two edits around a save, a refetch and the edit whose save does the damage. A quota of one makes the second upload
  wait for the first to be released. Every action of every part fires, which was confirmed
  by a run of each part alone.
* `progress` has three sessions and one mishap in `Session`: a lost answer (of a rotation or
  of a denial), a logout, or a session ended elsewhere, before, between and after two
  rotations, and the denial and the reuse that follow. So that this fits, one tab sends
  requests and signs out while the other refreshes for its socket, and the access token of
  the last session does not lapse, as nothing could follow it within the bound (`Bounded` in
  `MCProgress`). Both tabs take the lock, so it is handed over in either direction. `Outbox`
  has two messages, one tab and one loss, and there is one of everything else that does not
  compete.
* For triggers, `MaxTurns` counts messages, edits, deletions and reactions, occurrences of
  the schedule and changes together. In `parts` one message by a person, the agent's answer and the answer to
  that are the three turns that reach the limit of one; two replicas race for a cursor, and a
  batch of two leaves the third event to another round. A change is a death, a trigger
  deleted, replaced or disabled under a replica, or a member or connection that goes; one
  message leaves room for two, or for an edit and a deletion of it. The event of an edit or a
  deletion is heard by all agents or by none, because what is heard of it is its kind. The first states have every trigger or none, so that one can
  be made, too. In `progress` one agent and batches of one event are enough: what is owed
  there is held up by the other replica, by deaths and by changes. The bounds are the end of
  every behaviour, hence no check for deadlock.
* `MaxFaults` bounds lost sockets, reloads, failed reads and restarts; the proofs have no
  such bound, nor any other of these.
* The configurations of `Realtime` turn deadlock checking off because the system really
  stops: when the log is at `MaxSeq`, everything is acknowledged and no fault is left.
  `AgentRun` never stops (an agent can always be paused and resumed). `parts` and `progress`
  turn it off because a confirmation that is decided, or a delivery that is sent, is the end.
* In `members` two requests are enough because every property is about a pair of
  overlapping transactions (a third only waits for the organization lock or adds another
  overlap); the reads before the lock of one request interleave with a whole sequence of
  commits of the other. `Grants` leaves out "member" (joining and creating give it) and
  `Visibilities` "private" (a private chat only refuses `Join`). One user of two is a moderator, so both branches of every guard are taken.
  The model never stops: an idle request can always begin something.
* Symmetry is used for requests, sockets, claim loops, calls and interchangeable runs, and never
  with a liveness property.

### 3.4 Fairness

Weak fairness (strong in one place, in `Triggers` for several agents; for the one of
`progress` weak fairness is enough), and only of what the program itself drives. *Realtime*: the poll loop
(it has a timer), each session's goroutine and the cases of its `select`, the browser's
callbacks and timers, and the coordinator's reconnect. Nothing is assumed of commits,
pruning, faults, or of a lost frame. `PollFail`, `ServerClose`, `LoseSocket` and `Reload`
are faults. *AgentRun*: claim loops and executions keep going, Core answers what it has
authorized, streams end, deadlines come. Nothing is assumed of people, of leases or of the
agent being enabled. In `progress` the fairness of some parts is guarded by the chosen part:
elsewhere it would keep a loop going that is not looked at, or ask TLC needless questions.
The run has no crashes of Core in `AgentRun` because a claim loop whose report of a failure
gets no answer exits for good, and whatever starts it again is outside the repository.

*Outbox*: a flush goes on, Core answers, frames arrive, a token is refreshed; that flushes
start at all is the user's or the browser's doing and is the premise of `PostedWhenFlushed`.
*Session*: locks are granted in turn, broadcasts arrive, requests are answered; nothing is
assumed of users. *Autosave*: timers fire and saves are answered, also with an error.
*Notifications*: workers tick, no job and no due delivery is passed over for ever (they are
taken in order of their number), providers answer in the end, a lease nobody holds runs out.
*Confirmations*: a manager's request goes on until it is done or lost. *Files*: time passes,
transactions and requests end, the worker goes round. Nothing is assumed of failures.

*Triggers*: a replica's rounds go on (the ticker), and strongly that an agent is taken from
the list again and again while it is enabled again and again: `DispatchEvents` goes through
all enabled agents in order before it looks at the clock or starts over, which is lost when a
round is cut into single agents that compete. Nothing is assumed of people, of agents that
answer, or of administrators.

## 4. Proofs

All theorems are for arbitrary constants under the named assumptions of the modules
(limits are positive naturals, null values are not members, finite runs and calls).

* `RealtimeProofs`: lemmas about the log (`FirstSeqs`, `Least`, `Below`: what `ORDER BY seq
  LIMIT n` returns; appends and pruning keep it well formed), and that every action keeps
  the type invariant.
* `DeliveryProofs`: `Delivery` (`Spec => []DeliveryInv`) and from it `CheckpointSafe`
  (`NoSilentSkip`), `AddressedOnly` (`OnlyAddressed`) and `QueueInOrder`
  (`EnqueueInOrder`).
  `NoSilentSkip` is not inductive. What a checkpoint reaches next is the wire, so
  `DeliveredArrives` and `WireClosed` say that what the server counts as delivered is
  applied or on a wire without gaps. What reaches the wire comes from the replay or from
  the queue, so `QueueComplete` says that the queue holds everything past the backlog up to
  `latest`, or a prefix of it when the subscription was cancelled. What is queued comes
  from the dispatcher, so `HubBehind` says that whatever the dispatcher has passed the
  subscription has seen or will replay (which is why the backlog target is read *after*
  `Register`), and `BatchComplete` that the batch under way misses nothing.
  `EntitledReads` connects the history to the SQL filter; `Wiring` and `NotAhead` are the
  bookkeeping.
  `StreamRefines` (`Spec => StreamKept`) is the refinement of `EventStream`. Only five kinds
  of steps are more than stutters: a commit or a pruning changes the log, `ReceiveEvent` is
  `Receive` (`WireClosed` for what comes before the frame, `StoreAccounted` for a frame that
  comes again, `OnlyAddressed` for its addressee), `ReceiveResync` is `Empty`, `ResyncDone`
  is `Load`, and `ResyncUnloaded` is `SaveUnloaded`, which moves the saved number and leaves
  what was given up given up. A resync that throws or dies with the page is a stutter: what it awaited stays
  awaited (`AbandonStreams`). `StreamHasNoGap` (`StreamKept => []NoGap`) says
  what the abstract specification is worth: whatever implements it leaves no gap.
* `AgentRunProofs`: `QueueCorrect` (`Spec => []QueueInv`) and from it `ChatLimitSafe`,
  `CancelIsKept`, `AttemptsBounded`, `OneMessage` and the action property `EndsForGood`.
  `ChatLimitHeld` needs that the count a claim has read is still an upper bound when it
  commits: `KeysHeld` (only the holder of the chat's advisory lock adds a running run, and
  the lock is kept to the commit). `CancelSticks` and `AttemptsCount` need that a candidate
  stays queued and uncancelled between scan and commit: `RowsHeld` (row locks). One
  message per run follows from `MessageRecorded`: the history is what
  `published_message_id` says, and only an empty or equal identifier is accepted.
  `QueueRefines` (`Spec => QueueKept`) is the refinement of `RunQueue`. A commit is `Start`
  because of `RowsHeld` (still queued), `CancelSticks` (so not canceled), `AttemptsCount` (an
  attempt left) and `KeysHeld` (a place in the chat); a publication is `Answer` because of
  `ExecutedIsClaimed` (a request in flight belongs to a run that was claimed, however late it
  is carried out); reaper and reports are `Leave`. `QueuePromises` derives the limit of a
  chat and the finality of a cancellation from `RunQueue` alone.
  `BudgetSafe` (`Spec => BudgetHeld`, a property of steps) and `OverrunIsEstimate`
  (`Spec => []OnlyOverrun`) rest on `CallsAccounted` (`Spec => []BudgetInv`). That the sum
  stays within the budget is not proved: it is false, since a call may cost more than it
  reserved.
  The gate adds up usage rows of calls, usage rows of whole runs and calls without either;
  a call is missed if a run gets its row while one of its calls is open, or is charged
  afterwards. `CompletesAll` says that a completion under way was shown all the completed
  calls of its run; it holds because no call starts behind it: `TokensIssued` (a lease token
  is of one claim and one worker), `OneCall` (an execution has one call or one completion at
  a time) and `BetweenCalls` (a worker past its calls has none open). Then every exposed
  unit is in the sum (`GateSumsAll`), an admission adds one, and the end of a call adds only
  what it cost above its reservation. That a worker takes only the
  answer it waits for is needed here; without it a stale answer to a call that was given up
  would let a worker go on while another call is open.

* `ChatMembersProofs`: `MembersInvariant` (`MembersSpec => []MembersInv`) and from it the
  action properties `OwnerLostOnlyByOverlap`, `OwnershipOnlyByOwners` and `ArchiveIsFrozen`,
  the refinement `RosterRefined` and `NobodyWaitsInVain`. It is proved in two layers:
  `RequestsInv` is inductive by itself and carries the action properties, `LocksInv` on top of
  it carries the other two.
  What a commit writes was decided two steps earlier, so the invariant says that the
  decision still stands: `OrgLockHeld` (one command at a time past the lock), from which
  `GuardKept` follows (no other commit takes away an owner's role, or opens or archives the
  chat, between the statement and the commit; agents are never the users of a command),
  and `AssertionKept` (an assertion that no commit has overtaken is still true).
  `RosterRefined` (`MembersSpec => RosterKept`): a commit is the step of `Roster` its request
  asks for, because what the statement saw two steps earlier still holds. `PermitKept` says so
  of roles, state and visibility; it needs the organization lock against other commands and
  `RowsApart` against publications and deletions, which take no such lock. `AccountsSeen` says
  so of accounts, by `OneAgentOp` and `AccountsApart`. `LastWordKept` carries a consequence of
  `Roster` alone back to the requests: an archived chat keeps its owners among the users, and
  one that has none never gets one.
  `NobodyWaitsInVain` (`MembersSpec => []WaitsEnd`) is freedom from deadlock without ENABLED.
  A request that has run its statement waits only for an account that a publication or an
  activation holds (`WrittenWaitsOnce`); who waits to run it waits for rows of one that has
  (`LockedWaitsTwice`); and who waits for the organization waits for one of these
  (`EveryoneWaitsThrice`). The circle of a
  publication and a command is the one `BreakDeadlock` breaks.

* `BrowserProofs`, for any number of tabs. Outbox: `OutboxCorrect` (`OutboxSpec =>
  []OutboxInv`), from it `StatusStaysTrue` and the refinement `OutboxKeepsPromise`
  (`OutboxSpec => PostedOnce`). That a message is never back to "unsent" needs `Untouched`:
  what is in neither the table nor the queue no flush has listed and no abandoned request
  carries. `StatusTrue` needs `ListedCovered`: an entry under way is still queued or was
  taken off by another tab. Session: `AtMostOneLive` by `LastIsLive` (only the newest
  session can be live), `TokensNotReused` by `UnderLock` (the head of the lock's queue is
  the only tab past "wait"; while there was no mishap what it carries is the newest session,
  and the cookie is behind only until the answer arrives). Autosave: `OtherEditsKept` by `CopyInv` (every
  copy of the settings that carries the server's version carries its other fields, unless
  one was grafted), and `SavedIsStored` by `SavedInv`: the draft is the last input but for the
  server's normalization, the row a save has written holds what that save carried, and when the
  page has settled with no timer set its draft is on the server.
* `AgentPlatformProofs`. Confirmations: `ConfirmationsCorrect`, and from it `EffectsAreDecided`,
  `OutcomesAreTrue`, the action property `DecisionsStand` and the refinement
  `ConfirmationsRefine` (`ConfirmationsSpec => ApprovalKept`): the handler's commit is
  `CarryOut`, the record of an outcome `Report`, lapses and the deletion of the agent `TurnDown`
  of many calls at once. `ApprovalPromises` derives `EffectDecided` from `Approval` alone. Needed are `OneRequest` (an
  approved call belongs to one request at most) and `RequestKnows` (what a request believes
  the handler did is what it did). Triggers: `EventsAnsweredOnce`, `OwedNotPassed` and
  `LoopsAreBounded`. The first two need that one replica holds a cursor (`OneHolder`), that
  what it has read is still the cursor, which is not ahead of the log (`CursorInv`), that every run answers an event the
  cursor has passed (`CausesPassed`) and that what is owed is past the cursor and loaded by
  whoever holds it (`OwedInv`). What is owed is heard at every moment, so when the batch is
  read what it matches includes what is owed within it, whatever was edited or deleted
  before (`LogRevised`: a revision changes whom the events are for, and no depth); the third that the length of a chain
  without reactions is in the depth (`ChainInv`).
* `NotificationsProofs`: `NotificationsCorrect` and `MarkedWentOut` (a request that was
  answered "ok" went out), and `RepeatsAreExplained`. There `Bounded` bounds each delivery:
  the pushes so far, the workers that may still send it, and one more if the delivery is open
  to another lease, are together at most one more than the troubles so far.
* `FilesProofs`: `FilesCorrect`, and from it `AttachedFilesKept`, `ReadyFilesStored` and
  `LedgerStaysTrue`. Needed are `RowsAgree` (which pairs of states a file and its upload can
  have), `LocksHold` (what the cleanup and an attachment hold they do not share),
  `BlobsKept` (no pending delete names the object of a ready file) and `SumsTrue` (sums that
  nothing has overtaken are right); the step of the ledger is arithmetic on cardinalities.

`EnqueueInOrder` and `AttemptsCount` are proved; of the runs, `claims` checks the second as a
conjunct of `QueueInv`.

Only model-checked: the liveness properties, which depend on fairness. The
inductive invariants `BudgetInv` and `SavedInv` were checked by TLC on the instances of
`calls` and `parts` before they were proved; the runs keep the properties they are for.
`AppliedIsAcked`, `CheckpointContiguous`, `ConflictMeansLost`, `OwnerKept` and `ChainBounded`
are false.

## 5. Plan

The core of the first plan (delivery, agent runs, chats) and its modules for the outbox,
confirmations, push, files, sessions and triggers are here. What would come next, in this order:

1. **Abstract specifications of the remaining parts** (the ledger as a sum; a trigger as a
   cursor; a delivery as owed, sent or given up), implemented by their modules as
   `ChatMembers` implements `Roster` and `Confirmations` implements `Approval`.
2. **Direct chats and invitations** beside `ChatMembers`: one chat per pair of actors under
   concurrent creation (`chat.go:771`), an invitation accepted once.
3. **Triggers over several chats**, composed with `EventLog` and `AgentRun`: the cursor over
   events the agent cannot see, and the runs with the life they have there.
4. **EventLog with occurred_at** (holes after pruning by age) and **two coordinators over
   one checkpoint** (tabs), as extensions of `Realtime`.
5. **The store's counts** under frames that are delivered again, and the feed's pages.

## 6. Not modelled

Formatting, search ranking, embeddings, image processing, blob stores, vendor protocols,
MCP, SMTP, password hashing, permission tables, HTTP decoding, generated code, migrations
other than the columns above, and the web client's views: data conversions or single-row
updates without a protocol of their own. Redis wake-ups are covered by the fallback poll.

Most of the TypeScript of the repository is of this kind: the generated API schema, the
translations, the design files, and views whose state is what the server answered last. The
map covers the client engine and the hooks that have a protocol (realtime, outbox, session,
autosave, the parts of the store and of the API client they use).

With a protocol, and not modelled yet: direct chats and invitations; drafts
(a late `put` after a newer one), message feeds (a page that is older than a frame);
presigned and multipart uploads, previews and text extraction; sign-in and new login
families; the preferences that decide what is pushed after materialization.
