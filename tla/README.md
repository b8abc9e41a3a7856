# LobsterPot: models, checks and proofs

LobsterPot connects an iOS app to OpenClaw agents through a *bridge*: a Node
server with an SQLite database. OpenClaw runs a *channel plugin* that keeps a
WebSocket to the bridge; the app uses REST and an SSE stream; a *push relay*
sends notifications through APNs. This directory holds TLA+ modules of that
code, TLC configurations and TLAPS proofs. (`README.md` and
`lobsterpot-plan.md` of the repository describe a later design without a bridge;
the models follow the code.)

Paths below are relative to `src/lobsterpot/`.

## Inventory

| part | code | state | operations | what must hold |
|---|---|---|---|---|
| plugin hub | `apps/bridge/src/pluginHub.ts`, `db.ts` 165-266 | `activeByInstance`, rows of `plugin_connections`, revoked instances | upgrade, hello, replace, close, error, send | one open connection per instance; truthful status, announcements and sends; dead connections freed |
| event log and stream | `eventBus.ts`, `db.ts` 459-488, `routes.ts` 429-456 | rows of `events`, subscribers, running replays | record, list after a cursor, publish, replay, subscribe | events once and in order; no gap on a live stream; no loss at a reconnection |
| conversations, messages | `routes.ts` 230-406, `db.ts` 270-409 | `conversations`, `messages` | create, update, archive, delete, send, action | a session key has one conversation; an accepted message is stored, sent and published; only a stored one is sent; deletion leaves nothing behind |
| attachments | `routes.ts` 308-335, `db.ts` 411-455 | files, `attachments` | upload, serve | a message names uploaded files only |
| pairing, devices, rate limits | `routes.ts` 16-224, `db.ts` 492-544 | `pairing_codes`, `devices`, counters | start, finish, authenticate, revoke | a code pairs one device, before it expires; at most `max` calls in a window |
| push | `pushDispatcher.ts`, `pushRelay.ts`, `apps/push-relay/src` | registrations, tokens, one APNs session | register, update token, send, remove a bad token | a newer token is not removed by an answer about an older one; a live session is not closed by an old one's error |
| plugin client | `packages/openclaw-channel/src/bridge-client.ts` | socket, timer, back-off, `stopped` | connect, reconnect, send, stop | at most one live socket; reconnects unless stopped |
| plugin runtime, bindings | `runtime.ts`, `binding-adapter.ts`, `index.ts` | cache of materialised sessions, two binding maps | start, stop, hook, bind, unbind, inbound turn | one conversation per session; the maps agree |
| app | `apps/ios/LobsterPot` | lists, optimistic messages, typing, cursor, workspaces | send, refresh, SSE events, switch workspace | lists converge to the bridge's; no duplicate rows; a stopped client stays stopped |

The parts interact by WebSocket frames (plugin and hub), by HTTP (app and bridge,
plugin and bridge, bridge and relay), by the SSE stream (bridge and app), and
inside the bridge by synchronous calls: routes and hub call the database and
`EventBus.publish`, which calls the subscribers.

**Concurrency.** The bridge is one Node process and better-sqlite3 is
synchronous. A handler therefore runs without interruption up to its next
`await`; the interleavings are of handlers, socket events and the parts of a
handler between awaits. Every action of the models is one such part.
**Failure.** Connections end at any moment; the process may die at any moment,
also between two SQL statements outside a transaction; the database survives.

## Modules

| module | what it is |
|---|---|
| `ConnectionSlots` | abstract: one slot per instance, held by at most one link that is up, never given back to a link that lost it |
| `Line` | abstract: the plugin's connection; one client at a time has the line and never gets it back, its waits grow |
| `OneTimeCodes` | abstract: pairing codes; an offer is valid, then expired or used, and gives at most one device |
| `SessionThreads` | abstract: a session has one open thread, and what becomes known of it is that thread |
| `Chat` | abstract: a draft is posted, refused or failed once; a message reaches at most one plugin, the right one, once, and only if it is kept; a refused one none |
| `PushTarget` | abstract: the one target of notifications, the token it holds, tokens on their way to it in any order |
| `PluginHub` | the hub in detail; implements `ConnectionSlots` |
| `MCPluginHub` | instance for TLC |
| `EventStream` | the event log, the SSE streams and the client's cursor |
| `MCEventStream` | instance for TLC |
| `PluginClient`, `MCPluginClient` | the plugin's end of the socket: reconnection, back-off, stop; implements `Line`; instance for TLC |
| `RateLimiter` | the fixed-window limiters; their actions are used by `Pairing` |
| `Pairing`, `MCPairing` | pairing codes, devices and the app's side; implements `OneTimeCodes`; instance for TLC |
| `PushRelay`, `MCPushRelay` | bridge, relay and APNs tokens; implements `PushTarget`; instance for TLC |
| `ApnsSession`, `MCApnsSession` | the relay's shared HTTP/2 session; instance for TLC |
| `SubagentRuntime`, `MCSubagentRuntime` | hooks, binding adapter, inbound turns and the bridge's de-duplication; implements `SessionThreads`; instance for TLC |
| `MessageFlow`, `MCMessageFlow` | messages, actions, attachments and replies through the bridge; implements `Chat`; instance for TLC |
| `PluginHubProofs`, `EventStreamProofs`, `PluginClientProofs`, `PairingProofs`, `PushRelayProofs`, `ApnsSessionProofs`, `SubagentRuntimeProofs`, `MessageFlowProofs` | theorems and proofs |

`Pairing` composes the limiters with the routes behind them; `PluginHub` and its
abstraction `ConnectionSlots`, `SubagentRuntime` and the bridge's part of it, and
`PushRelay` with its two processes and APNs, are compositions too. `MessageFlow`
takes connections and the log as what `PluginHub` and `EventStream` show of them.

### PluginHub

A socket authenticates once, so `Sockets` are also the `connectionId`s. `sock` is
the `readyState` as the hub sees it, with the stage of the handshake; `active`
is `activeByInstance` and `joined` its insertion order (`firstActive` depends on
it); `row` and `updated` are the `status` and `updated_at` of the connection's
row. `Resolve` is the choice between the token's instance and the one the plugin
declares. `AcceptHello` is the whole handler: replacing and closing the previous
connection, the Map, the row, the announcement. `OnPluginClose` is called by
`SocketError` and `SocketCloses`, possibly both for one connection. `Crash` is
a restart; a WebSocket error before hello, for which the code has no listener,
ends the process and is the same step. `epoch`, `announced` and `sent` are
history that only the properties read.

Abstractions: `lastSeenAt`, capabilities and names are left out. Every write of
a row has a later `updated_at` than the writes before; two writes in one
millisecond, or a clock set back, are not considered. Publishing is taken to
succeed here: when it throws (`EventStream`) it does so in a socket's listener,
after the row was written, and ends the process, which is the same as the step
followed by `Crash`. Frames after hello change
nothing of this state. A hello that `ws` delivers from a buffer after its socket
has already failed is not modelled.

Properties: `OpenIsActive`, `StatusTruthful`, `AnnouncementAgrees`,
`SendIsTruthful`, `DeadIsFreed` (liveness) and the refinement `ImplementsSlots`.
`StatusTruthful` speaks of instances that have connected since the boot. For the
others it does not hold: `db.ts` 246 answers from the rows, and after a restart
they still say `connected`, until the plugin connects again. Nothing in the
repository promises otherwise, so this is no finding, but a reader should know.

Fairness: weak fairness of `SocketCloses` only: `ws` destroys a socket that stays
in CLOSING for its close time-out, and then emits `close`. No plugin is assumed
to connect, no message to be sent.

### EventStream

`events` is the table; a row's `rowid` is what SQLite gives (one more than the
largest in the table, which has no AUTOINCREMENT) and its `cursor` is the rowid,
or 0 for the `''` of the INSERT. `handler`, `todo` and `wire` are a client's
request: what is left of its replay and what was written but not received.
`cursor` is `BridgeClient.lastEventCursor`. `uid` is the place of an event in the
order of publication, which the program does not know; `last`, `got`, `since`
and `missed` are history.

`Connect` reads the rows (`ListEventsAfter` with its LIMIT), `WriteReplay`
writes one and awaits, `Subscribe` follows the last one, and `Publish` records
and writes to the subscribed streams. `CreateConversation` and
`DeleteConversation` are the routes, each with its publication; `PublishOther`
is any other event. `CrashInCreate`, `CrashInDelete` and `CrashInPublish` stop
the process with nothing recorded, or after the INSERT only; crashes between
requests are the first case of `CrashInPublish`. After an unfinished row
(`Torn`) `UNIQUE(cursor)` makes every later INSERT of `''` fail: routes answer
with an error and keep their change (`PublishOrThrow`), a socket handler's
exception ends the process (again `CrashInPublish`). The models show that order
and streams survive such a row; that nothing is ever recorded again until the
row is removed by hand follows from the guard of `Publish`.

Abstractions: the 25 s ping carries no event. A handler whose connection ended
stays subscribed for up to 25 s; nothing reads what it writes, so it ends at once
here. An app that starts again, or comes back to a workspace, has a
new client without a cursor and loads its lists anew (`Relaunch`).

Properties: `InOrder`, `LiveHasNoGap`, `NoOtherLoss`, `Delivered` (liveness), and
`CursorsHold`: while nothing is deleted the rows beyond a client's cursor are all
that came after it, so the deletion in the run `event_cursor` is the only reason
for its violation. `RowOrder` (rows sorted by rowid are in the order of
publication) is part of `IInv`.

Fairness: weak fairness of `WriteReplay`, `Subscribe` and `Receive`: a promise
of a write settles, and what was written arrives or the connection ends
(`Disconnect`, which needs no fairness as it disables them).

### PluginClient

`sock` is the `readyState` of a WebSocket object (free once its `close` has been
delivered), `owner` whose listeners it carries, `socket`, `timer`, `phase` and
`delay` are the fields of a client. `StartRuntime` and `StopRuntime` are
`runtime.ts`; the others are one callback each. `Breaks` is `error` with the
`close` that always follows; `HelloError` stops the client for good, also when
the hub's reason is transient.

Properties: `OneLine`, `KeepsTrying` (liveness) and the refinement
`ImplementsLine`. `Line` knows a client that has its turn, the state of the one
connection, the wait and the failures in a row; a socket that is closing is no
longer there for it, and a stopped client neither waits nor counts
(`LineOf`, `PauseOf`, `FailuresOf`). So the late `close` of a stopped client's socket
must be a stutter, and the wait of the n-th failure the n-th of `Delays`, although
the code doubles the delay in the timer's callback and resets it in `open`.
`StoppedIsSilent` and `BackoffDoubles` are part of `IInv`.
Fairness: weak fairness of each client's timer (Node fires it) and of `Closed` of
each socket (`ws` ends a socket that stays CLOSING). No peer is assumed to answer
and no connection to open.

### RateLimiter and Pairing

`counts` is the limiter's Map; `passed`, history, is the sequence of checks that
returned true, each with its time and the place of the first one of its window.
A request passes the limiter (`Arrive`), awaits its body, and runs to its end:
`StartPairing`, `FinishPairing` or `EndRequest` (refused, failed, or
`/api/setup/token`). `CrashInFinish` dies between the UPDATE of `pairing_codes`
and the INSERT of the device: the code is used up and no device exists; the
user has to start again. `Prune` is the sweep of expired windows; a restart
forgets all counts, so `passed` starts anew with it.

Abstractions: a pairing's verifier is its id and `sha256` is injective; an
address has one request at a time; `revokeDevice` has no caller and is left out.

Properties: `RateIsBounded` (2 * `max` passes need a whole window: a fixed window
lets through nearly twice `max` around its end, never more), `RefusedNotForever`,
`TokenIsPaired`, and the refinement `ImplementsOneTimeCodes`: an offer of the abstract
specification is `none`, `valid`, `expired` or `used` by the row and the clock
(`StateOf`), and held by the apps that have its token. `PairsOnce` is part of `IInv`;
`UsedUpForGood`, that a used code gets no other device, is a theorem.

### PushRelay

`rows` and `token` are the relay's table, `bridgeRows` the bridge's. A boot
registers when it has no row (`Register`, `CreateRegistration`,
`RegistrationAnswered`, or `RegistrationFails`, after which nothing tries again).
`PushRegister` stores a device's token and sends it on without waiting;
`AuthoriseUpdate` and `ApplyUpdate` are the relay's route before and after the
await of its body; `StartSend`, `SendEnds` and `SendRefused` its send route around
the answer of APNs. `GiveToken`, `Unreachable` and `Reachable` are the environment.

Abstractions: a handle stands for its grant; what a notification says is left
out. `push/test` is a send like any other: it checks that the calling device has
a token but notifies the device whose token the registration holds.

Properties: the refinement `ImplementsTarget`, `OnlyTheseMislead` (which lists
all that may keep the last token from the relay; two updates under way may
overtake each other), `BootRegisters` (liveness). The target is the bridge's
registration, closed when the relay has no row for it (`Closed`), and holds its
row's token (`Held`); a row whose answer was lost is not seen at all.
`OneRegistration` is part of `IInv`. Fairness: weak fairness of a boot's own
steps and of the relay's answer while it is reachable.

### ApnsSession

`state` is Node's session object, `session` is `this.session`, `on` the session a
request was started on, `builtAt` the cached JWT's time. `Send` is `send()` up to
the request; `RequestFails` and `SessionFails` are the `error` listeners, which
destroy *whatever session is held now*. So an old error may end a good successor
and fail its requests; what is checked is that nothing worse happens: `NoLeak`
(no usable session is lost hold of) and `StartsWell` (no request on a closed
session or with an old JWT). The code sets no time-out for a request; nothing is
said about when one ends. `destroy()` has no caller.

### SubagentRuntime

`key` and `deleted` are the bridge's conversations with a session key; `cache` is
`materializedConversationIdsBySession`, `bySession` and `byConversation` the maps
of the active adapter, `call` what awaits the bridge, `origin` what a hook last
told OpenClaw. `HookResumes` reads `activeRuntime` again after the await, as the code
does: it may be another runtime, or none, and then the hook throws with the cache
filled. `BindResumes` writes into the adapter it was called on. A call may fail
after the bridge has handled it (`CallFails`).

Properties: `NoSplit`, `BoundBothWays`, `ReadyUnlessLost`, and the refinement
`ImplementsThreads`: what caches, maps, calls under way and turns hold of a
session (`Heard`) only ever grows by its open conversation; a late answer or
bind may keep a conversation that is deleted by then, never bring one back.
Worth knowing: the cache is never cleared, so a deleted conversation is still
given out, and a cached hook reports `threadBindingReady` (`index.ts` 67)
without binding after a restart or an unbind — the exceptions `ReadyUnlessLost`
names; entries of earlier conversations stay in `byConversationId`; two hooks
that race both announce the subagent; `materializedSpecialistLabels` is never
read.

Abstractions: `touch`, labels and texts; OpenClaw's own use of a binding.

### MessageFlow

An id stands for one request of the app or one frame of a plugin, with the
message and event it gives rise to; `at` says where it is. `BeginRequest` reads the
conversation and awaits the body. From there the message route ends in one of five
ways:

- `RefuseMessage`: 400, nothing stored (attachments not found, or no text);
- `FailMessage`: 500, nothing stored (the foreign key refuses the row because the
  conversation was deleted meanwhile, or a statement fails);
- `RejectMessage`: stored, and nothing more. `inboundMessageSchema.parse` comes
  after `createMessage` and answers 400 to an attachment whose filename is `''`
  (an upload named `/`; `Nameless`), or the row cannot be read back, 500;
- `FinishMessage`: stored, sent and published in this order, with the conversation
  as it was read: 202 or 503, or 500 when `publish` throws, with the message
  stored and perhaps at the plugin;
- `CrashInMessage`: the process dies after the store: before the frame is sent, or
  in or after the publication, with the frame on its way (`Restart({e})`).

`Publish` and `PublishFails` are `recordEvent`: the INSERT or the UPDATE may fail,
the process may die between them, and a row that is left with the cursor `''`
(`torn`) makes every later INSERT throw; it goes only with its conversation. All
routes publish with `PublishOrFail`; in the listener of a plugin's socket an
exception ends the process (`DieOfReply` for a reply to a deleted conversation,
`CrashInReply` and `CrashInProgress` for a failed publication, `Crash` for
anything else). `FinishAction` publishes, then sends. `StoreReply` and
`PublishProgress` are the hub's handling of frames, `BeginUpload` and
`FinishUpload` the two sides of writing a file.

Properties: `NothingOrphaned`, `LogAgrees`, `AnswersAreTrue`,
`AttachmentsAreThere`, and the refinement `ImplementsChat`, in which the route's
steps, the log, the frames and the process are gone: a message is due to a
plugin while its frame is on the way (`DueTo`) and handed over when the plugin
has it; it is shown once its event has a row, be it torn, because a replay
without a cursor gives that row out; what the app was told is what the answer said (`Told`); actions and
progress have passed once they are `Done`.

Worth knowing, and said by the properties: a message answered 503, 500 or 400 may be
stored all the same; a plugin may hold a message that was answered with 500, or
never, and whose event has no row, so that no stream tells of it until the app
reads its messages; a change whose publication fails is never told;
actions and progress of a deleted conversation are published still. What does
hold is that no plugin has a message the bridge did not store, that 202 and 503
mean stored and logged, and that 400 means neither sent nor logged.

Abstractions: the log is a set (`EventStream` models its order) and keeps the rows
that properties tell apart; of the others only a torn row matters (`OtherRow`).
Titles, pins, archive marks and serving files are left out.

## Runs

| run | shows | bounds |
|---|---|---|
| `plugin_hub` | all properties of `PluginHub` and its refinement | 3 connections, 2 instances, a token that owns an instance and one that does not, 1 restart |
| `event_stream` | all properties of `EventStream` | 1 client, 1 conversation, 4 events, LIMIT 2, 1 deletion, 1 restart |
| `event_cursor` | violation: cursors are given out again | as above, LIMIT 10, no restart |
| `event_replay` | violation: an event published during a replay is lost | as above, LIMIT 10, nothing deleted, no restart |
| `plugin_client` | all properties of `PluginClient` and its refinement | 3 runtimes, 3 socket objects used again |
| `pairing` | all properties of `RateLimiter` and `Pairing`, and the refinement | 1 address, 2 pairings, 2 codes; at most 1 start and 2 finishes in a window of 2; lifetime 3, clock to 4, 1 restart |
| `push_relay` | all properties of `PushRelay` and its refinement | 2 registrations, 3 tokens, 2 updates and 2 sends under way, 1 restart |
| `push_wipe` | violation: a late refusal removes a newer token | as above |
| `push_boot` | violation: a relay that is reachable later is not registered with | as above |
| `apns_session` | all properties of `ApnsSession` | 3 sessions used again, 3 requests, JWT lifetime 2, clock to 4 |
| `subagent` | all properties of `SubagentRuntime` and its refinement | 2 sessions, 3 conversations, 2 calls under way, 2 runtimes |
| `message_flow` | all properties of `MessageFlow` and its refinement | 2 ids; a main conversation with an instance, and one without; 2 instances; 2 attachments, one of them nameless, of which a behaviour has one (`Bounded`); 1 restart; 1.7 million states |

Three connections let one be replaced, its successor be replaced too, and the
closes come in any order, with another instance beside; two instances are what
`firstActive` needs to have a choice. A socket is used once, so no bound on time
is needed. Streams share only the table, so one client shows what many would;
four events suffice for a replay longer than its LIMIT with live events behind
it, and for a deletion that frees the newest rowid before another event takes
it. The theorems cover every size.

Three runtimes let a client that is stopped still be closing while its successor
is replaced in turn. Two pairings and codes are what confusing them takes; a
clock of two windows lets a third begin. Three tokens give an old, a newer and
the newest one to updates and sends that overtake each other. A session that
fails late needs a successor, and one more shows the successor's successor. Two
calls are two hooks, or a hook and a bind, of one session; three conversations
let a deleted one be replaced beside another session's. Two ids are two messages,
or a message and a reply, of one conversation that is deleted under them; the lists
of attachments are none, one, one named twice, and one without a name. `Bounded`
drops what is only more of the same: a second upload, one under way while messages
are stored, and a torn row of another event of the main conversation, which stays
for ever like one of no conversation.

Deadlock checking stays on except in three runs whose systems may stop:
`plugin_client` (each client is started once), `subagent` (each runtime is started
once, conversations are not created again) and `message_flow` (each request is
made once). The bounds do that, or the program that is left alone.

### Findings

`event_cursor`: `apps/bridge/test/bridge.test.ts` 357 says "listEventsAfter
returns events after the given cursor". A client receives an event of a
conversation, the conversation is deleted with its events, and
`conversation.deleted` itself takes the cursor the client holds: after a
reconnection it is not sent.

`event_replay`: `packages/openclaw-channel/src/binding-adapter.ts` 10 says "iOS
sees a new conversation row appear via the bridge SSE stream." A conversation
created while the handler awaits the write of a replayed row is in neither the
rows nor the subscription.

`push_wipe`: `apps/push-relay/src/index.ts` 109 says "BadDeviceToken means the token
is stale — remove it". The route awaits APNs after it read the token; by the
time of the refusal the registration may hold a newer, valid one, which line 111
removes.

`push_boot`: `apps/bridge/src/index.ts` 51 warns "push notifications disabled until
relay is reachable." `register` is called at boot only: a relay that becomes
reachable later is never asked.

## Proofs

TLAPS checks these for every value of the constants, from the named assumption of
each module and nothing else (`ConstantsAssumption`, `PairingAssumption`: the
special value is none of the ids; bounds are naturals and a code's lifetime is not
zero; a token's owner is an instance or none). Every invariant and every action
property of a passing run is a theorem; so are the six refinements. A refinement
is proved in the same way each time: the initial states correspond; a lemma per
action shows, under the inductive invariant, which abstract step it is or that the
abstract variables do not change; the mapped functions are computed at one argument
first and compared as functions after.

`PluginHubProofs`: `Invariance` (`Spec => []IInv`), hence `TypeCorrect`,
`OneConnectionPerInstance`, `StatusIsTruthful`, `AnnouncementsAgree`,
`SendsAreTruthful`; and `Refinement`, that the hub implements `ConnectionSlots`.
The safety properties are not inductive alone. `BindingInv` says a socket has an
instance and a row exactly from its hello on; `ActiveInv` that an active
connection is bound to its instance, belongs to this boot, and has the strictly
newest row, marked connected: this is why a replaced connection's row does not
matter; `FreedInv` that without one the newest row is stale; `ClockInv` that no
row is newer than the clock. For the refinement a hello is a `Take`, a close of
the active connection a `Release`, the peer's close a `Drop`, a restart a
`Reset`, and the late close of a replaced connection a stutter.

`EventStreamProofs`: `Invariance`, hence `TypeCorrect`, `RowsAreOrdered`,
`EventsComeInOrder`, `LiveStreamsHaveNoGap`, `OnlyReplaysLose`,
`CursorsKeepTheirPlace`. `RowsInv` bounds a rowid by its event's place in the
order of publication and says an unfinished row is the last; `StreamInv` that
what a stream still has to bring is in order and newer than what it has brought;
`CursorInv` that a row *beyond* a sent event or a cursor is newer than it (the
converse is what `event_cursor` refutes), which survives deletions because
rowids freed by them are given to newer events only; `AccountInv` that without
deletions every row up to a cursor was received or is known to be missed;
`CursorsHold` follows from it and the order of the rows. `IInv` is also an
invariant of the runs.

`PluginClientProofs`: `Invariance`, hence `TypeCorrect`, `OneLineOnly`,
`StoppedStaysSilent`, `DelaysDouble`; and `Refinement`, that the client and its runtime
implement `Line`. `LineInv` says that a started client is the
active runtime's and has either a pending timer or a socket that will still be
closed, never both and never neither; `OwnerInv` that only stopped clients have
sockets beside `this.socket`; `DelayInv` ties the delay to the closes in a row. For the
refinement a new runtime is a `Take`, which also ends the predecessor's turn;
`hello.error` and the end of a runtime are `GiveUp`, once; `open` is `Answered`, a close
of a started client's socket `Wait`, its timer `Retry`; a stopped client's closes
and a second stop are stutters. It needs that no client is active before it was
started and that `this.socket` of a stopped one is empty (both in `LineInv`).

`PairingProofs`: `Invariance`, hence `TypeCorrect`, `RateBound`, `RefusalsEnd`,
`OneDevicePerCode`, `TokensArePaired`, the action property `UsedStaysUsed`, and
`Refinement`, that the routes implement `OneTimeCodes`.
`PassesInv` says the passes of one window are adjacent, at most `max`, and that a
window begins at least `windowMs` after the one before; `EntryInv` that the Map's
entry is the newest window's, and missing only when that is over, which is why
pruning is harmless. 2 * `max` passes then touch three windows, of which the middle
one lies between the first pass and the last. `RowsInv` says a device comes with
the mark that uses its code up. For the refinement `FinishPairing` is `Give`,
`CrashInFinish` a `Waste`, a tick of the clock `Expire`, which needs that a code is
still `valid` at the moment it is made (its lifetime is not zero).

`PushRelayProofs`: `Invariance`, hence `TypeCorrect`, `RegistersOnce`,
`LastTokenArrives`; and `Refinement`, that bridge and relay implement
`PushTarget`. `HandleInv` says an answer on the way is for a registration the
bridge does not have yet, and updates and sends are for one it has; `LatestInv`
that, unless excused, the last token is in the only update under way, whose
registration still exists once it is authorised, or has arrived. For the
refinement the answer of a registration is `Settle`, an update `Tell` and, when
it is applied, `Arrive`: also when it was authorised before the row was deleted,
and then it must leave nothing. An update that is refused or lost and a relay
that fails are `Drop`s, so is the end of a send; creating a row whose answer may
never come is a stutter. This is where it is needed that a row without the
bridge's registration has no token.

`ApnsSessionProofs`: `Invariance`, hence `TypeCorrect`, `NoSessionLeaks`, and the action
property `RequestsStartWell`. `NoLeak` is nearly inductive: what is held or awaited
must be an object, and a JWT not of the future.

`SubagentRuntimeProofs`: `Invariance`, hence `TypeCorrect`, `SessionsStayWhole`,
`RoutesBackAndForth`, `CachedIsBound`; and `Refinement`, that it implements
`SessionThreads`. All the plugin knows of a session was once
an answer of the bridge, keys never change, and of one key at most one
conversation is open (`KeyInv`): so two that are known differ only if one was
deleted. For the refinement an answer of the bridge is an `Open` or a `Learn` of the
open conversation; so is a turn, which the bridge takes for an open conversation only;
resuming after an await, binding and restarting only move
or forget what is known.

`MessageFlowProofs`: `Invariance`, hence `TypeCorrect`, `NoOrphans`,
`LogIsTrue`, `AnswersHold`, `AttachmentsStay`; and `Refinement`, that it
implements `Chat`. The invariant is `TablesInv` (the tables, the log and
`FlowInv`) with `SentInv`, that a frame went to the conversation's own plugin if
it has one. `FlowInv` ties a message, an event, torn or not, and an answer to the
place its request has reached; the steps are proved by kind (conversations, files,
requests, frames, the end of the process), those that store a message by one lemma
(`StoreStep`). For the refinement a 202, a 503 or a stored reply is a `Post`, an
action or progress a `Pass`, a 400 a `Refuse` (that keeps the message when the schema
refused it late), a 500 a `Fail` (that keeps it, shows it if its row is torn and puts
it on its way if a plugin was there), a lost connection and a crash a `Lose` (of a
message that may be kept, shown or on its way); updates of titles and uploads are
stutters.

Only model-checked: the liveness properties `DeadIsFreed`, `Delivered`,
`KeepsTrying` and `BootRegisters` (fairness is out of the prover's reach), the
four violations, and what the mutated definitions (marked "A bug:" in the modules)
show. The sequences of `RateLimiter` need no induction over their length in the
proofs: their invariant relates places of one sequence. A proof assumes what its
module abstracts, and nothing else: `sha256` injective and one request of an
address at a time in `Pairing`, a publish that succeeds in `PluginHub` (where its
failure is a `Crash`).

Hazards no property catches, because nothing in the code, its comments, docs or tests
promises otherwise and the models show them as they are: a protocol error before hello
ends the process (`pluginHub.ts` 96), a revoked instance is still served (`db.ts`
211), a reply is dropped while the socket is down (`runtime.ts` 239). PROJECT.json notes
for the others what part of the hazard its properties leave open: the log that stays
dead (`db.ts` 472), the change that is never told (`routes.ts` 268), the process that
ends with a late reply (`pluginHub.ts` 189).

## Plan

1. `AppState`: optimistic messages, SSE events racing answers, refreshes racing
   workspace switches, typing timers, push tokens, a retry of a message that was
   answered with 400, 500 or 503 and is stored, reconnection after stop. The
   remaining hazards without a property are mostly here.
2. `PluginLink`: `PluginClient` composed with `PluginHub`, with a publish that
   throws inside `AcceptHello`: an unstopped plugin whose bridge stays up has an
   open connection again eventually.
3. `Migrations`: a crash between two ALTERs of one file, after which the rest of
   the file is skipped at every boot.
4. The three INSERTs of `createOpenClawInstance`, with a crash between them, in
   `PluginHub`.

## Not modelled

- The app's lists, timers and workspaces, its views and the key chain (`AppState`,
  planned); of the app the models have its cursor, its stream and its side of pairing.
- Migrations (planned). Views only render; schemas, configuration, channel glue,
  build files and shared utilities have no state of their own.
- A reply the plugin drops because its socket is down (`runtime.ts` 239): nothing
  queues it and nothing promises it, so there is nothing to check.
- `lastSeenAt`, the SSE ping, the text analysis of `runtime.ts` 250-343 (no
  caller), `revokeDevice` and the APNs provider's `destroy()` (no caller).
PROJECT.json lists every part with its status.
