# Tryst Core in TLA+

This directory specifies the chat engine of Tryst Core: how two endpoints keep
one transport between them, how a chat's history is kept on disk, how the actors
of the application serve the UI, and how it all shuts down. The modules are
checked with TLC on small instances, and every safety property the passing runs
check, except `GlareKeepsOne`, is also proved with TLAPS for all values of the constants.
Source paths below are relative to the repository.

## The system and its parts

| Part | Source | State | Operations |
|---|---|---|---|
| Chat connection | `src/protocols/chat.rs` | `InternalConnState` behind a lock, watch channel, spawned tasks | `send_message`, `receive`, `reconnect`, `update_handle`, `close`, disconnect reports |
| Chat protocol actor | `src/protocols/chat/protocol_handler.rs` | request queue, cancel token, pump and monitor tasks per transport | dial, accept, shutdown |
| Chat manager actor | `src/manager.rs` | select loop, `reset_doc_state`, UI receiver | tick, send, receive, subscribe, inject an accepted handle, close |
| Chat repository | `src/persistence.rs`, `src/persistence/schema.rs` | automerge document, sync state, saved heads; tables `chats`, `chat_log` | `new`, `add_message`, `receive_sync_message`, reset, `get_messages` |
| Application | `src/app.rs` | `chat_managers`, database pool, endpoint | `chat_manager`, accept loop, shutdown |
| Framing | `src/protocols/chat/utils.rs` | stream buffers | `write_message`, `read_message` |
| Tryst protocol | `src/protocols/tryst/` | stored epochs and secrets | invites, discovery, ratchet (mostly stubs here) |

The AppActor creates one ChatManager per peer. The manager owns a
ChatRepository and a ChatConnection. The connection asks the ChatProtocol actor
to dial; accepted transports come from that actor through the AppActor and the
manager's queue. Messages travel as automerge sync messages.

What is hard to get right: both endpoints dial at once (glare) and decide
separately which transport to keep; tasks spawned earlier report on transports
that have been replaced since; the watch channel is read without the lock;
`close()` races a dial still in progress; the database may fail, or the process
stop, at every `await` of a repository method; saved heads must
not run ahead of the disk; compaction must not lose rows; pages are read from the ends of
several lists. Callers give up, managers end and channels are dropped in any order, yet
no call may be lost and `shutdown()` must leave nothing running; a peer may go silent
in a handshake or stop reading while an actor that others need waits for it;
a select loop must not consume a change without passing it on; bounded queues in
both directions may all be full. `PROJECT.json` lists these hazards with their lines.

## Modules

| Module | Models |
|---|---|
| `Glare` | the tie-breaker in `update_handle` |
| `ChatConnection` | one connection, with its tasks, its manager's calls, the protocol actor and the transports |
| `ChatConnectionProofs` | theorems about it |
| `ChatPeers` | both endpoints: queues, handshakes, glare, failures, restarts |
| `ChatPeersProofs` | theorems about them |
| `ChatRepository` | one repository, its tables, and a remote replica |
| `DurableChat` | what the repository promises: a history that only grows and contains everything acknowledged |
| `ChatRepositoryProofs` | theorems about the repository |
| `Pagination` | `get_messages` and `get_all_messages` against the sorted history |
| `PaginationProofs` | theorems about them |
| `Framing` | length-prefixed messages between a send and a receive task |
| `FramingProofs` | theorems about it |
| `ChatManager` | the manager's select loop, watch channels, sync state and UI callbacks |
| `ChatManagerProofs` | theorems about the manager |
| `AppActor` | the application: UI calls, AppActor, table of managers, the shared protocol actor, shutdown |
| `AppActorProofs` | theorems about the application |
| `Backpressure` | the bounded queues of one transport between two managers |
| `BackpressureProofs` | theorems about them |
| `MC...` | instances for TLC: symmetry sets and value ranges |

Definitions carry the names of the functions they model. Operators introduced
by "A plausible slip" are deliberate mutations: substituted for the definition
that follows, they must break a property. They are not part of the model.

### ChatConnection

A write section of the code changes the state and then publishes it to the
watch channel before it releases the lock. These are two steps; the lock is held
exactly while watch and state differ, and every other lock user waits for
`LockFree`. A `reconnect` task is a program counter per slot in `Task`. UUIDs are
fresh numbers. A failed `send_message` or `receive` adds the id it read at the
start of the call to `reports`; each report is a task of its own. The
manager is sequential: inside a send it does nothing else, while a waiting receive
is dropped when another select branch fires. Message contents are not modelled.

### ChatPeers

A write section is one step, a failed receive and its report are one step, and
`shutdown()` closes the local end at once; the peer's end notices later. Slots
for transports are reused when nobody refers to them (`Referenced`: an end is open, or
a node holds or will get a handle). The manager's existence is
state, so an accepted transport may create it. Restarts lose everything local.

### ChatRepository

A document is its set of changes and heads stand for all changes below them.
Every change records what it depends on; automerge (external) applies a change
once its dependencies are there. A sync message delivers some causally closed part
of the document or nothing, which covers lost messages and any sync state. Each
method is split at its database awaits; a failure or a stop may come there.
Each database operation is atomic, including the compaction transaction.
Lists are named by the change that created them, and of two lists under one key
the one with the highest op id is read.

`refused` collects the messages whose INSERT failed: the caller was told so, but
the change stays in the document and a later sync may send it. `SentIsDurable`
excepts them, and `AckedIsVisible` holds until there is one.

Two branches cannot be taken within one process and are left out: the retry after
`INSERT OR IGNORE` changed no row, and `Entry::Occupied` in
`handle_chat_manager`. The AppActor creates managers one at a time.

### Pagination

A message is its time and identifier; times may repeat or step back. `usize` is
modelled with `UsizeMax` and additions wrap. `sort_by` puts a message at the position
told by how many of the others precede it; that this is a sequence of all the
messages in order is a lemma of `PaginationProofs` (`SortByOrders`).

### Framing

A byte is known by the frame, the part of it and the position it comes from; the
reader gets a length or a message only from exactly the right bytes, and an
arbitrary length from any others. Bytes arrive in pieces of any size. The send
task finishes the stream between frames only; a lost connection is an error
for the reader, not an end of the stream. A message has at least one byte
(`FramingAssumption`): postcard writes the length of `ProtoMessage`'s payload first.

### ChatManager

One manager's actor. A handler that awaits is split there: `pc` says where the
actor is, and meanwhile the connection's tasks go on changing the published state.
A watch channel is its value and whether the receiver has seen it (`borrow_and_update`
marks, `borrow` does not). `fresh` says that the sync state was reset since the
connection state was last published, `out` that the message in hand comes from such
a state, `greeted` that one was handed to the transport. What automerge answers (is
there something to send, are we in sync) is nondeterministic. `owed` and `shown` compare
what arrived with what the UI was given. No branch of the select excludes another,
which allows more than the biased select does.

### AppActor

A chat is three values here (manager, connection, request channel); the details are
in `ChatConnection` and `ChatManager`. A UI task is in one call at a time and may
give up at any moment. A request names its caller, or `Gone`, or `Handle` for an
accepted connection. A manager that waits in `send_message` is "replying" when it has a
caller's request in hand and "sending" otherwise; either way it takes nothing from its
channel until the peer makes room or the transport is closed. The protocol actor serves
one request at a time for all chats. A dial ends, since `connect()` has a timeout. An
accept (`protocol_accepted`) ends only if the peer opens its stream or the connection is
lost; `accept_bi` and `read_exact` (`protocol_handler.rs:165-168`) have no timeout and do
not watch the token, so an accept may never end. `router.shutdown()` is what the code in `src/` relies on: it
waits for `ChatProtocol::shutdown` and closes the endpoint. Subscriptions use a channel of their own with the same
life cycle and are modelled in `ChatManager` only.

### Backpressure

Messages are counted. Each direction has a write channel, a stream window and
a read channel; pump tasks move messages between them; a manager inside
`send_message` takes nothing from its read channel. Tokens, the monitor task and
both tasks' exits are modelled, since only they end a mutual wait. What a step waits
for is a definition of its own (`can_read`, `must_close`, ...), so that `Stuck` can say
that no manager and no task can move.

## Runs

| Run | Checks | Result |
|---|---|---|
| `conn` | one kept transport, true reports, a dialer behind Reconnecting, no healthy transport given up; dead transports noticed, disconnected chats redial, closing releases transports | pass |
| `peers_safety` | no open end of a transport is forgotten; agreement when nothing is under way | pass |
| `peers_live` | the two decisions of a glare never close both transports; convergence on one transport | pass |
| `repo` | durability, closed tables, nothing sent before it is stored, no second list hides messages, refinement of `DurableChat` | pass |
| `repo_doc` | documented truncation of the log | violated |
| `pages` | pages of ordered lists and the full list against the sorted history | pass |
| `pages_doc` | documented pages when clocks may stand still | violated |
| `framing` | order and completeness of messages, agreement of the two size limits | pass |
| `manager` | the UI is told every change, transports are greeted with a fresh sync, messages are shown, a cancelled manager ends | pass |
| `app` | no caller and no dial is lost; calls are answered and `shutdown()` returns unless a silent peer holds an actor up for good; a shutdown that returns is complete | pass |
| `app_doc` | documented dial when a chat is opened | violated |
| `backpressure` | nothing but full queues holds a send up; blocked sends get on unless every queue is full; a shutdown frees both ends | pass |

The violated ones are disagreements between code and documentation:

1. `persistence.rs:7-8` says the log is truncated when it exceeds
   `CHAT_LOGS_LIMIT`; this happens only when a document is loaded or reset.
2. `get_messages` reads the ends of the lists by position but sorts by time and
   random id. With two messages of a peer in one millisecond, or a clock that
   steps back, one message can appear on two pages and another on none.
3. `app.rs:321-323` says that retrieving a ChatManager triggers an outgoing
   connection attempt. A caller that drops its future makes the manager's actor end
   (`manager.rs:373`); the dead manager stays in `chat_managers`, is handed out
   by every later call (`app.rs:415`), and the chat neither dials nor accepts
   until the application restarts.

Other things the models show, which no run counts as a violation:

- `chat.rs:8-9` gives the Dial role to the higher id; the code gives it to the
  lower one (`Glare`). Both endpoints still agree.
- The exceptions in `OnlyFailuresHide` are reachable: after two failed receives in a
  row, a failed reset, or a stored message that cannot be read back, a message is in
  the document without having been pushed, although `manager.rs:13-14` speaks of all updates.
- When the manager ends, `close()` publishes Disconnected but nobody tells the UI,
  which keeps the last state it was given; hence `pc = "ended"` in `UiCatchesUp`.
- Of two concurrent `shutdown()` calls only the one that takes the join handle waits
  (`app.rs:224`). `ShutdownIsComplete` is about that one.
- The state excepted by `BlockedIsFreed` and described by `OnlyFullQueuesBlock`, all six
  queues full, is reachable: then both
  managers wait until the connection is lost or one side shuts down.
- The exceptions of `ShutdownReturns` and `CallsAreAnswered` are reachable, and each
  is needed: without it TLC finds a counterexample. A peer that connects and opens no
  stream keeps the protocol actor in an accept; `shutdown()`, which joins that actor
  through the router, then does not return (`HeldInCleanup`), and the dials of all chats
  stay queued. A peer that stops reading keeps a manager in `send_message`; its channel
  fills up, and if another connection of that peer is accepted, the AppActor waits in
  `pass_accepted_conn_handle` (`HeldInPass`) and serves nobody, nor does it see a shutdown.

### Bounds

Two transports and two reconnect tasks let a current transport meet a superseded or
rejected one and two overlapping dials (`conn`; the proofs cover any number). Ids
are numbered without a bound; they stay finite because each
transport is established once. `ChatPeers` allows two outstanding dials per
endpoint; four slots and two faults for safety, three slots and one fault for
liveness. The repository has four changes, a log limit of one row and at most three
rows, so compaction, and loads below and above the limit, all happen. Pagination
has two peers, four messages and `UsizeMax` 7. Framing has a prefix of two bytes
and messages below, at and above a limit of three.

`ChatManager` has one message and three changes of the connection, besides those
caused by reports and by closing: enough for a transport to be replaced, and lost,
while the previous one is still unseen. `AppActor` has one chat, two callers, one shutdown task, channels of
capacity one and one accepted connection on its way, so that every channel can be full
while another actor waits for it; the proofs are for any number of chats, callers and
shutdown tasks. The liveness properties are checked for one chat: with more, an
accept or a blocked send of any peer holds up the others in the same way. A second
dial of a chat is not queued while one is. The accept queue (1024 handles) never
fills: were it full when the AppActor is already in `cleanup()`, the protocol actor
would wait at `protocol_handler.rs:109` and shutdown with it. `Backpressure` has
queues of one message.

Deadlock checking is off: bounded resources run out, and a closed chat stops.

### Fairness

Spawned tasks and actors run (Tokio schedules every ready task); a dial ends,
because the QUIC handshake times out; a cancelled or abandoned transport is
closed by its monitor task; the interval ticks. Ticks and `receive` have strong
fairness in `ChatConnection`, because other branches of the select may pre-empt
them any number of times. There, and in `ChatManager`, a send that waits for room is
assumed to return; `AppActor` and `Backpressure` do not assume it. Nothing forces a user to
open a chat, and no failure is fair.

`ChatManager`: handlers end; closing and the two watch branches have strong fairness,
since the select is biased and only the cancel token, a five-second tick and the sync
status come before a connection state. `AppActor`: actors run, and queries and
dials end (a new connection is assumed to have room for the open message). The end of
an accept and the end of a send to a connected peer are up to the peer and not fair; a
send ends for certain only once its transport is closed (`send_message_fails`). Managers
have strong fairness because a sync may start whenever they are idle, which is rare
compared with their requests. Senders that wait for room in a channel have strong
fairness because Tokio's mpsc serves them in order. Callers need not call, give up or
shut down. `Backpressure`: every task that can run does; local messages are not fair.

The two modules meet in a circle. In `Backpressure` a send with all queues full is freed
by a shutdown, since the cancelled token of the protocol closes the transport; fairness
of its `protocol_shutdown` assumes that the AppActor reaches `cleanup()`. In `AppActor`
the AppActor reaches `cleanup()` unless it waits to pass a transport to a manager whose
channel is full (`HeldInPass`), and that manager may be the one in the blocked send. So
`ShutdownFreesManagers` says what happens from `cleanup()` on and `ShutdownReturns`
excepts the case in which it is not reached; nothing in the code breaks the circle, only
the peer or the network does. An accept that never ends does not matter here: the token
is cancelled before the actor is joined.

`EventuallySettled` and `GlareKeepsOne` are checked with `Prompt = TRUE`: a result reaches its
task before the next tick (five seconds) or handshake. Without it two
outstanding dials can be applied out of order again and again. The other safety
properties of `ChatPeers` are checked without this assumption.

## Proofs

`ChatConnectionProofs`, for any sets `Conn` and `Task` and any distinct ids
(`ConnAssumption`): `TypeCorrect`, `ReportsStayTrue`, `ReconnectingIsOwned`,
`HealthyKept`, `SingleTransport`. `ReportsAreTrue` is not inductive by itself.
The invariant `IInv` adds that ids are unique and below `next_id`, that
every handle held anywhere is established, that the id of a call was
issued to its transport, and that reports carry issued ids. Then a fresh id (new
transport or rotation) never revives an old report.

`ChatRepositoryProofs`, for any changes and limits (`RepositoryAssumption`):
`TypeCorrect`, `TablesStayClosed`, `AckedStaysDurable`, `Refinement`,
`SentStaysDurable`, `AckedStaysVisible`. The
invariant adds that only created changes occur anywhere, that document and
tables are causally closed, and that saved heads are on disk. So a
row written relative to the saved heads leaves the tables closed, and a
load finds everything in them. The last two theorems add what is known of own
changes in the document and of the lists they belong to.

`ChatManagerProofs`, for any messages and number of changes (`ManagerAssumption`):
`TypeCorrect`, `UiStaysCurrent`, `TransportsStayGreeted`, `MessagesAreShown`. The
invariant adds that nobody has subscribed before the first state is handled, that a
seen transport is greeted already or by the send under way, and that what the UI has
not been shown is in the batch being received, or only in memory and about to be
dropped by the reset.

`AppActorProofs`, for any peers, callers, shutdown tasks and capacities
(`AppAssumption`): `TypeCorrect`, `NoLostCaller`, `NoLostDial`, `ShutdownStaysComplete`.
`WaitersHaveSenders` needs that no sender is queued twice, that a request under way
is about a chat without a manager, and that a manager inside a write, or inside the
send that follows it, has its request in front of its channel. `ReconnectingIsQueued`
needs that a Reconnecting chat has a live manager and that an accept under way is the
first request of the queue, so that no accept takes a dial away (`Dialing`). `ShutdownIsComplete` needs how the stages of the AppActor go
with the pool, the token and the protocol actor (`Stopping`).

`ChatPeersProofs`, for any transports, dials and faults (`PeersAssumption`):
`TypeCorrect`, `NoLeakedEnd`, `Agreement`, and `GlareAgreement` about
the tie-breaker alone. `QuietMeansAgreement` speaks only of moments when nothing is
under way; what every step preserves is `EndsAreHeld`, that an open end of a transport
belongs to the node's handle or to one still in the answer to a dial, in the request
queue or in the manager's inbox. With the queues empty only the handle is left. The
invariant adds the bound on outstanding dials, which the counts of failed dials need.

`FramingProofs`, for any messages, sizes, prefix length and limit
(`FramingAssumption`): `InOrder`, `NothingRejected`, `NoneAtTheEnd`. The stream is cut
anywhere, so the invariant speaks of byte positions: there is a function `start` from
frames to the position of their first byte (`Layout`), and what is in flight, buffered
or being read is one contiguous stretch of the bytes so laid out (`Flow`). The reader
is always at the start of a frame or a known number of bytes into it, so prefix and
body come from one frame. That `start` exists is part of the invariant and a step that
begins a frame extends it, which takes the place of an induction over the messages.
A clean end is only read with nothing left between the two positions.

`BackpressureProofs`, for any capacities (`BackpressureAssumption`): `TypeCorrect` and
`FullQueuesBlock`. The first, that no queue exceeds its capacity, is proved only; no run
repeats it. If nothing can move and one manager waits, its write channel is full;
the transport is open, or its send task would end; so the window is full; the other
end's recv task lives, or its monitor would close; so the read channel there is full; its
manager neither receives nor has ended, so it waits too, and the argument repeats.
This is the part of `BlockedIsFreed` that needs no fairness.

`PaginationProofs`, for any peers, ids and times (`PaginationAssumption`):
`PagesAreRight` and `AllOfTheHistory`. The invariant is that an id is at one
place of one list and that the messages are finitely many. A message's distance from
the end of a sorted set is the number of its successors. A message that
`get_messages` leaves out of an ordered list has at least `offset + limit` successors
in that list, so the sorted candidates and the sorted history have the same end. The
second theorem assumes fewer than `usize::MAX` messages, more than a `Vec` can hold.

Only model-checked: the liveness properties (TLAPS does not handle fairness and
ENABLED) `DeadTransportNoticed`, `DisconnectedIsLeft`, `ShutdownReleasesTransports`,
`EventuallySettled`, `UiCatchesUp`, `TransportsAreGreeted`, `CancelledManagerEnds`,
`CallsAreAnswered`, `ShutdownReturns`, `BlockedIsFreed` and `ShutdownFreesManagers`; and
the invariant `GlareKeepsOne`, which rests on the timing that `Prompt` stands for.

## Not modelled

- `TrystRepository` and the lazy ratchet: no code of the program calls them. The
  invite manager and the discovery only hold the repository, and `ratchet_if_needed`
  always returns false. Invites are public keys and discovery is a library here; the
  logic is withheld from this repository.
- `list_chats_remote_peers_ids`: one query and the splitting of its result.
- The contents of automerge documents and sync states, so also the reading of patches
  in `extract_new_messages_from_patches` (its failure is modelled) and the size of a
  sync message: one that exceeds the frame limit would end every connection in turn.
- A full accept queue during shutdown (see Bounds).
- Start-up, network endpoint set-up, logging, error types, benchmarks,
  cryptography: no state of the running chat engine.
