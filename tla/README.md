# A TLA+ development of hashhush

hashhush is a chat server for ephemeral, end-to-end encrypted rooms: a C++
server (Crow, SQLite) that stores rooms, one-time challenges and access tokens
and relays ciphertext, and a Svelte client. This directory holds TLA+ models of
the program and of the vendored code its requests pass through, TLC
configurations that check them, and TLAPS proofs. Paths below are relative to
the repository; `PROJECT.json` maps every definition to its lines.

## 1. The system

| Component | State it keeps | Operations | Where |
|---|---|---|---|
| Store | tables `rooms`, `challenges`, `access_tokens`; one mutex; survives restarts | create, find, touch, activate, delete a room; insert and consume challenges; insert and look up tokens | `src/db.cpp` |
| HTTP handlers | locals of each request | create a room (after a proof of work), activate it with its challenge pool, delete it with a token | `src/webapi.cpp` 132-342 |
| WebSocket handlers | the `Peer` of each connection: room, joined, pending token, expected plaintext | `hello` (token or challenge flow), `challenge_response`, `msg`, `presence`, close | `src/webapi.cpp` 380-624 |
| Peer table | `peers_`, `byRoom_`, `msgCache_`; one mutex | accept, close, mark joined, count, broadcast, close room, cache | `src/room.cpp` |
| Purge thread | its list of idle rooms | once a minute: select, then close and delete one by one | `src/main.cpp` 184-204 |
| Proof-of-work gate | secret of the process, ledger of used nonces | issue, verify | `src/captcha.cpp` |
| Process and HTTP server | acceptor, worker threads, connections, deadlines | start, accept, read, time out, stop on a signal, join | `src/main.cpp`, `crow/http_server.h`, `http_connection.h`, `task_timer.h` |
| HTTP parser and response | parser state between reads; one response object per connection | parse chunks, report URL, headers, body; frame and write answers, whole or in pieces | `crow/http_parser_merged.h`, `parser.h`, `http_response.h` |
| Router | one search tree per method | add, optimise, find, redirect, upgrade | `crow/routing.h` |
| WebSocket connection | queues, pending operations, close state; the frame being read | upgrade, read, write, close handshake, `check_destroy` | `crow/websocket.h` |
| JSON, query strings, encodings, digests | none | read, write, decode, hash | `crow/json.h`, `query_string.h`, `utility.h`, `src/util.cpp`, `src/sha256` |
| Configuration | none | parse the file, apply options | `src/config.cpp`, `src/config` |
| Client | token and key in `localStorage`, member and message lists, status, reconnect timer | join, send, reconnect, ask for the password, delete | `web/src` |

**How they interact.** The acceptor hands a socket to the worker that was given
the fewest. A worker runs every callback of its connections, one at a time:
read, parse, route, handler, response. An upgrade turns an HTTP connection into
a WebSocket connection on the same thread. Handlers of different workers and the
purge thread run in parallel and share the store and the peer table. Each method
of those two is atomic under its own mutex, and a handler calls several of them
without holding anything in between. The peer table keeps raw pointers to
connections; frames are posted to them after its mutex is released. The peer
table is lost in a restart, the store is not.

**What is hard.** Check-then-act across critical sections (activation, capacity,
the cap on rooms, token checks before a deletion); joins racing with deletion
and purging; frames handled after the server decided to close; a restart or a
failed write between two writes; frames of several threads overtaking the
`joined` frame; a clock read before a lock; a connection destroyed while an
operation or a pointer to it is outstanding; signals at any point of the start;
timer identifiers that begin again; reads that end anywhere; flags a response
inherits from the one before; lengths at the limits of their types; in the
client, callbacks of replaced sockets, probes answered late and tabs that share
`localStorage`. `PROJECT.json` lists each hazard at its line with the properties
aimed at it.

**What makes each part correct.**

- Store and server: a challenge admits one joiner and takes one answer; a token
  belongs to the room whose challenge bought it; whoever is joined or deletes a
  room holds a token of that room; no row outlives its room; an active room has
  its whole pool; idle rooms go. `RoomContract` says the same without handlers.
- Relay: nothing is kept from a joiner, histories are the newest messages, one
  sender's messages keep their order, member lists and announcements add up to the
  peers that are there, a departure is the last news of a connection.
- Proof-of-work gate: a proof buys one room while it is valid.
- Client session: a key is stored once it was tested, the status shown is true, a
  deleted room stays deleted, a lost connection leads somewhere.
- Process and HTTP server: deadlines belong to the read they were set for,
  connections that end are released, a signal ends the process unless a write
  holds a worker, and no thread outlives the objects it uses.
- WebSocket connection: it lives as long as an operation of its own is under way,
  leaves the peer table once, and is in it no longer when it is destroyed.
- Formats: what is written is read back, and the result does not depend on where
  the reads end.

## 2. The modules

| Module | Models | Grain of a step |
|---|---|---|
| `RoomStore` | `src/db.cpp` | one method of `Database` |
| `RoomServer` (extends `RoomStore`) | `src/webapi.cpp`, membership in `src/room.cpp`, purge thread | one critical section of a handler |
| `RoomContract`, `RoomRefinement` | the promise, and the mapping of `RoomServer` to it | one change a client could notice |
| `Captcha` | `src/captcha.cpp` | up to the ledger's lock; under it |
| `Relay` | `src/room.cpp`, `finalizeJoin`, the relaying in `webapi.cpp` | one critical section, or one posted frame |
| `ChatSession` | `Chat.svelte`, `ws.js`, `storage.js`, the probe of `App.svelte` | one callback up to its next `fetch` |
| `WsConnection` | `crow/websocket.h` with the callbacks of `webapi.cpp` and the pointers of `room.cpp` | one callback, up to its calls on other connections |
| `HttpServer` | `src/main.cpp`, `crow/app.h`, `http_server.h`, `http_connection.h`, `task_timer.h` | one callback of a worker, one step of `main` |
| `HttpParser`, `HttpResponse`, `Router`, `Json`, `QueryString`, `WsFrames`, `Codecs`, `Digest`, `Ini` (with `Text`) | the code that converts: operators on sequences | - |
| `MCRoomServer`, `MCCaptcha`, `MCRelay`, `MCWsConnection` | - | symmetry sets for TLC |
| `Conversions` | what `Codecs` and `Digest` promise | one conversion per behaviour |
| `MCFormats` (extends `Conversions`) | the same for the other formats, and the inputs | one conversion per behaviour |
| `RoomServerProofs`, `RoomRefinementProofs`, `CaptchaProofs`, `RelayProofs`, `WsConnectionProofs`, `HttpServerProofs`, `ChatSessionProofs`, `ConversionsProofs` | - | theorems |

### RoomStore and RoomServer

`rooms`, `row`, `poolOf`, `used`, `lastChallenge` and `tokenRoom` are the tables.
A row keeps the columns control depends on. A challenge triple is its row id,
and the plaintext a joiner returns is identified with the id it belongs to; a
client that has the right key is one that answers with that id. `peers`,
`closing` and `task` are the connections: the peer entry, whether the server
asked for a close, and where the frame handler is. `req` and `purge` are the HTTP
requests in flight and the purge thread.

A handler is a chain of actions, one per critical section, for instance
`HelloFind`, `HelloCount`, `HelloConsume` for a `hello` without token, then
`ChallengeResponse`, `MarkJoined`, `FinishJoin`; `ActivateFind`,
`ActivateInsert`, `ActivateCommit`; `DeleteCheck`, `DeleteClose`, `DeleteRow`;
`PurgeSelect`, `PurgeClose`, `PurgeDelete`, `PurgeRest`. A connection that is
being closed still has its frames handled (`closing` guards nothing), as in
Crow. `Crash` loses everything but the store. `Faults` names the writes that may
fail; a failed write leaves the store alone and takes the handler's error path,
with two exceptions that the code makes: `commit`, the COMMIT of
`insertChallenges`, and `consume`, the UPDATE of `consumeChallenge`, fail
unnoticed, and the handler goes on as if they had not.

Abstractions:

- Random ids and tokens never repeat (`drawn`, `minted`), and `peerIdFromToken`
  is injective.
- Handlers that change nothing (a bad JSON body, a malformed frame, `ping`, `is_alive`,
  a refused HTTP request) are stuttering and have no action.
- Where a handler reads the clock just before it calls the store (the stamp of a
  new room, the purge cutoff), the reading and the call are one step.
- `closeRoom` asks for all closes in one step; its frames are in `Relay`.

### RoomContract and RoomRefinement

The abstract specification has no handler and no schedule. A room id is new, then
live, then gone; a challenge is spent once, on a token of its room or on a wrong
answer; a connection comes in with a token of the room it is at; when a room
goes, its tokens go. The refinement mapping reads these off the server's state:
`life` from `rooms` and `drawn`, `spent` from the challenges answered, `sold` and
`owner` from the tokens, `at` and `inside` from the peer table. The contract lets
a peer in whose token was good when it was looked at though the room has gone
since: the server does not look again (see known departures in section 3).

### Captcha

A token is its nonce with its expiry and the process (`epoch`) whose secret
signed it. `VerifyChecks` reads the clock and checks signature and expiry,
`VerifyLedger` collects and inserts under the lock with the clock value read
before. Parsing and hashing keep no state and are abstracted to their verdict.

### Relay

One room. A peer's id is the digest of its token; the connections of a reload or of a
second tab have one token and one id. No handler looks at an id, so frames and log
entries name connections; what a peer reads in them is `PeerId` and `MemberIds`, and
the properties about ids are stated for every map from connections to ids
(`IdMaps`). `member` is the peer table, `cache` the ring buffer, `run[c]` the
handler of connection `c`, `log[c]` the frames posted to `c` in order. A message
is its number in the order of appending. A connection is used once; when all have
left, the room is at rest, which is why these runs do not check for deadlock.
A call through the stale
pointer of a connection that has gone is undefined in the code; here it reaches
nobody.

### ChatSession

One room, one browser. `tab[t]` is the component of a tab with its current
client; its fields keep the names of the component's variables. `stored` is the
room's entry in `localStorage`, shared by the tabs. A key is the one derived
from the link, from the password, or from another password. A `fetch` splits a
function in two actions: `TryReconnect` and `ProbeDone`, `ConfirmDelete` and
`DeleteDone`; other awaits are on resolved promises and split nothing. A client
that was replaced has been closed before, so all it can still do is deliver its
close event (`stale`, `OnStaleClose`).

The server is an environment: a token is good until the room's rows are removed,
a challenge is answered by whoever has the right key, and `closeRoom` reaches
the connections that are open when it runs. As in the server, telling the peers
and removing the rows are two steps. A connection that is dropped, refused or
timed out is `Drop`. The backoff delays are left out: a timer fires sometime.

### WsConnection

`conn[c]` is the connection object: read loop, writes under way, the flags of the
close handshake. `tasks` are the posted callbacks of each io thread in order, and
`calls[t]` what a callback of thread `t` has still to call on other connections.
Only the thread of a connection touches its object, so a callback is one step up
to those calls. `send_text` is always posted; `close` runs at once on the
connection's own thread and is posted from others: this is where their order is
lost. The contents of frames are those of `RoomServer`, so a handler here joins,
relays, refuses, throws or does nothing. Pings are left out, the error paths of
reads and writes are not. An exception of the handler leaves the read loop
without a read (`stuck`).

### HttpServer

`main` goes from the start (configuration and database succeed or end it) through
the signal handlers, the purge thread and `run()` to the joins, with its early
returns and exceptions. A worker runs callbacks; the deadline queue `tasks[w]`, its next identifier and each
connection's identifier are as in `task_timer.h`, which begins with 0 again
whenever its queue is empty. `DoAccept` chooses the worker with the shortest
queue, a count that only a failed accept takes back. A read, the parsing, the
handler and the response are one callback since the handlers answer before they
return; the response is written synchronously, and where the socket does not take
it at once (`WriteBlocks`) the worker does nothing else until the client reads or
is gone, its deadlines included.

`Signal` is `onSignal` on the thread of `main`: `Crow::stop` first walks
`websockets_`, which is empty because nothing calls `add_websocket`, then stops the
acceptor and the workers' `io_context`s made so far. It logs and locks within the
handler, so a signal that interrupts `main` while it allocates may hang both
(`hung`).

What the model has of the start, beyond the properties: a signal that comes
before the server object exists is lost, and one before its pool exists leaves
`run()` waiting for a second; a port in use throws past a purge thread that is
still joinable, which ends in `std::terminate`; an invalid bind address makes
`run()` return and the program exit with 0.

### The formats

Each module is the code as operators on sequences of characters or bytes, with
the limits of the code as constants.

- `HttpParser`: every state of `http_parser_execute` and every callback of
  `HTTPParser`, over the chunks that reads return. Matchers that compare letter by
  letter are a comparison with the words they look for. The largest length is a
  constant so that its overflow is reached.
- `HttpResponse`: the response object through a sequence of requests on one
  connection: assignment and `clear`, the flags of HEAD, `Content-Length`, bodies
  in pieces, static files, the cached bundle with its ETag, exceptions.
- `Router`: adding to the tree, `optimize`, `find` with its precedence of
  parameters, choice by method, slash redirects, upgrades.
- `Json`: the reader and the writer with escapes, depth and lookups.
- `QueryString`: splitting, decoding, lookup by key.
- `WsFrames`: reading of frames that arrive in pieces, fragments and control
  frames between them, and the headers that are written.
- `Codecs`: base64 of both libraries, hexadecimal, `meetsDifficulty`,
  `sanitize_filename`. `Digest`: SHA-256, SHA-1 and HMAC down to the blocks that
  are hashed; the compression functions are uninterpreted, so two digests are
  equal exactly when the blocks are.
- `Ini`: the parser's lines, sections, continuations and comments, the reader, the
  options and defaults, and the file that `--generate-config` writes.

`Codecs`, `Digest` and `Text` define their loops as functions on the positions of
the input, so that they can be proved about; `Conversions` states what they promise
for any inputs, which are its constants (`ByteStrings`, `Paths`, `Messages`, ...). The
other modules are recursive and only TLC uses them. `MCFormats` extends
`Conversions`, gives it inputs, and adds the conversions of the others.

## 3. What TLC checks

Passing runs:

| Run | Instance | Shows |
|---|---|---|
| `RoomServer_joins` | 2 connections, 1 request, 1 room, 2 tokens, 2 challenges, all faults but `consume` and `commit`, 1 tick, 1 restart | `OneTokenPerChallenge`, `OneGuessPerChallenge`, `NoOrphanRows`, `PoolBeforeActivation` |
| `RoomServer_rooms` | 1 connection, 2 requests, 2 rooms, cap on rooms 1, 2 tokens, 2 challenges, failing token insert, 1 tick | `TokensAreEarned`, `JoinedHoldsToken`, `DeleteIsAuthorised`, `RoomsCapOvershoot`, `ImplementsContract` |
| `RoomServer_purge` | 1 connection, 1 request, 1 room, all faults but `delete`, 2 ticks, 1 restart, no symmetry | `IdleRoomsArePurged` |
| `Captcha_valid` | 3 tokens, 3 threads, window 2, 4 ticks, 1 restart | `SingleUseWhileValid` |
| `Relay_order` | 2 connections, cache of 1, 2 messages, 1 presence | `HistoryIsRecent`, `NothingSkipped`, `MembersAreTold`, `SenderOrder`, `LeaveIsLast` |
| `ChatSession_session` | 1 tab, a room with a password, 2 probes in flight, 2 replaced sockets, 2 outages | `PromptIsUsable`, `ShownJoinedIsConnected`, `KeyIsTested`, `DeletedIsFinal`, `LostSessionsComeBack` |
| `WsConnection_lifetime` | 2 connections on one or two io threads, the purge thread, 2 data frames | `PendingKeepsAlive`, `OwnCallsReachLive`, `LeavesOnce`, `FreedIsForgotten` |
| `HttpServer_process` | 3 connections, 2 workers, timeout 1, 2 ticks, identifiers up to 2 | `DeadlinesAreCurrent`, `EndedIsReleased`, `NothingOutlivesMain`, `SignalEnds` |
| `Formats` | one conversion per behaviour, some 59,000 states | `RouteIsBestMatch`, `JsonRoundTrip`, `Base64RoundTrip`, `StaticPathsStayInside`, `DigestsAreStandard`, `ConfigReadsBack`, `QueryIsDecoded`, `RequestsSurviveSplits`, `BodiesAreFramed`, `FramesRoundTrip` |

**Why the bounds are enough.** The interesting races involve two actors and one
shared thing: two joiners and one triple, a joiner and a deletion, two requests
and one cap, a sender and a joiner, two connections of one thread or of two. Two
rooms are needed only where tokens could be confused between rooms or the cap
exceeded. The multipliers 5 and 10 are the constants `OpenFactor` and
`PasswordFactor`, 1 and 2 in the runs, so that pools are exhausted and their two
sizes differ. A cache of one entry overflows on the second message. In
`ChatSession` a second probe and a second replaced socket suffice for a late
answer to meet a newer attempt; what two tabs do to the shared credentials is in
`ChatSession_stored_key`, and in the theorem about `KeyIsTested`. In `Relay_order` the
two connections have an id each or one between them; a third, to watch two that share
one, is in `Relay_shared_id`, and the theorems are about any number. In `WsConnection` two data frames let both join,
or one join and have a message relayed to the other. In `HttpServer` three
connections on two workers put two of them on one timer, and two identifiers
suffice for one to be handed out again. The theorems of section 4 lift the
safety properties of these models to every size.

In `Formats` the inputs sit at the boundaries: the largest length is 255, so
lengths next to it and past it are read; headers are cut at 400 bytes, lines at
200, paths at 6, queries at 3 pairs, nesting at 6; a body over 4 bytes is
streamed in pieces of 2; frames have 125, 126 and 65,536 bytes; messages to be
hashed end around 55, 56, 63 and 64 bytes. Requests are cut into chunks at every
position outside a URL. Each property compares with a definition that does not follow the
code: the route that a comparison rule by rule finds, the value that was
written, the padding of the standard.

A run does not check for deadlock where the system may stop: a room everyone has
left, a session that ended, a process that exited, a conversion that is done.

**Fairness.** In `RoomServer` only the purge thread is assumed fair: `FairSpec`
is weak fairness of `PurgeNext`. It is an OS thread in an endless loop with a
sleep, and its steps are never disabled for good. Clients, requests and the clock
are assumed nothing of. `delete` is not among the faults of that run: a deletion
that fails for ever would leave the room. In `HttpServer` the threads run: weak
fairness of `main` (`Process`), of the end of the purge thread and of the end of
each worker, which is enabled when no write holds it. The callbacks of the workers,
signals, clients and time are owed to nobody: a client that does not read keeps a
worker in `do_write_sync`, and its deadlines with it. `SignalEnds` therefore has the
hypothesis that no write lasts for ever; without it the process does not end. In `ChatSession` what the browser and the server do by
themselves (`Proceed`: events, timers, answers, and `RoomRemoved`) goes on; the
user, the network's failures and whoever closes the room are not assumed to act.
Failures are finite in number, so an attempt is finally answered;
`LostSessionsComeBack` excepts a session whose user asked for the deletion, since
`confirmDelete` closes the socket cleanly and a failed request leaves it so.

Runs that refute a statement of the documentation, each with its counterexample
described under `findings` in `PROJECT.json`:

| Run | Property | What happens |
|---|---|---|
| `RoomServer_pool` | `PoolIsHardCap` | two activations of one room store two pools |
| `Relay_shared_id` | `LeaveMeansGone` | after a reload the old connection's departure is told with the id of the new one |
| `ChatSession_stored_key` | `StoredKeyIsRight` | a tab with a wrong key joins by another tab's token and stores its key |

**How to read the results.**

- `NothingSkipped` and `MembersAreTold` hold: the server does post every message,
  arrival and departure to a joiner. What is lost is lost by its place before the
  `joined` frame, which replaces the lists the client has (see known departures).
- `RoomsCapOvershoot` bounds by how much concurrent creations exceed
  `total_rooms_cap`. With one request at a time the bound is the cap itself.
- `OneTokenPerChallenge` does not survive a failed UPDATE or COMMIT in
  `consumeChallenge` (`src/db.cpp` 238), whose result the code ignores; `consume`
  is therefore not among the faults of the runs that check it. Likewise
  `PoolBeforeActivation` and `commit`.
- `PoolBeforeActivation` says that the pool is there, not that it is the only one
  (`RoomServer_pool`).
- `MembersAreTold` is about ids: if the last that a peer heard of an id is ambiguous
  because two connections have it, the lists and announcements together still name
  everyone who is there, and everyone who left was told. `LeaveIsLast` is about
  connections; an id is heard of again, and may be told as gone while it is there
  (`Relay_shared_id`).
- `KeyIsTested` is what holds of the stored key for any number of tabs: only a join
  by a token stores a key that was not tested, and only when another tab has had the
  room open, so that the token may be its. With one tab, as in `ChatSession_session`, the key is
  right; with two it need not be (`ChatSession_stored_key`).
- `DeletedIsFinal` names its exception: a reconnect the server admits before the
  rows are removed has its `joined` handled after the session showed the room as
  deleted, and the session is back. The converse of `ShownJoinedIsConnected` does not
  hold (see known departures).
- `DeadlinesAreCurrent`: since identifiers begin again, a connection can cancel
  another's deadline; a read can lose its deadline and wait for ever, but no
  deadline closes a connection that was heard of since.
- `SignalEnds` begins with the first signal that finds the pool, and ends with the
  exit or with `main` hung in a further signal.
- `RequestsSurviveSplits` names three exceptions: a read that ends inside a URL (the
  piece is routed, which is a 404 and a close); a header with an empty value, which
  is dropped unless it is the last; and a query that arrives in one read behind the URL
  of another request, some of which stays in the URL, so that no rule is found.
- `BodiesAreFramed` says what is accepted: of several encodings one has to end in
  `chunked`, whichever, and not behind a tab, which the parser
  takes for another character after a comma.
- Of responses it excepts two answers to HEAD: one of HTTP/1.1 without a Host
  leaves the flag that suppresses the body to the next answer, and one for
  `/static/` declares no bytes and sends the file or the text of the error.
- `FramesRoundTrip` excepts a read of one byte of the two-byte header
  (`crow/websocket.h` 373), which is taken for the whole.

**Known departures.** Behaviours of the code that a reader of it or of its documents
would not expect. No run is made of them, and the properties are
stated so that they neither deny nor hide them:

- `max_participants` (`README.md` 140: "capacity per room") is compared with the
  peers joined when a challenge is handed out, and not again when it is answered, and
  a returning token is never counted (`src/webapi.cpp` 530): more peers can be joined.
- A COMMIT of `insertChallenges` that fails goes unnoticed (`src/db.cpp` 196), and
  the room becomes active without a pool (the fault `commit`).
- The list of idle rooms is taken once per round (`src/main.cpp` 196): a room that is
  used before its turn is purged all the same. The contract lets the purge end any
  room.
- The result of `deleteRoom` is not looked at (`src/webapi.cpp` 335): if it fails,
  peers were told `deleted`, the request is answered ok, and the room lives on (the
  fault `delete`).
- `finalizeJoin` marks the peer and copies the history before it posts `joined`
  (`src/webapi.cpp` 463-497): a message that comes between is posted first, and
  `handleJoined` replaces it by a history that lacks it.
- `send_text` is posted and `close` is not (`crow/websocket.h` 261), so on the
  connection's own thread the close frame is queued before the error or `deleted`
  sent just before it ("send error then close", `src/webapi.cpp` 448).
- `broadcast` and `closeRoom` call connections after the lock is released
  (`src/room.cpp` 108); one of another thread may have been destroyed by then.
- A client that does not read its answer holds the worker in `do_write_sync`
  (`crow/http_connection.h` 549), with the other connections and deadlines of that
  worker, and keeps `run()` from returning after a signal.
- A late close event of a client that was replaced shows a joined session as lost
  (`Chat.svelte` 206).
- `confirmDelete` closes the socket before its request; if that fails, the session
  is shown as "Connection lost. Reconnecting…" and nothing reconnects it
  (`Chat.svelte` 414).
- Of two Transfer-Encoding headers the first may be the one that ends in `chunked`
  (`crow/http_parser_merged.h` 1549); the RFC quoted at 1679 wants such a request
  refused.
- A peer that joins between `closeRoom` and `deleteRoom` stays joined to a room
  that is gone (334), and a message handled after `closeRoom` creates the cache of
  the room again (`src/room.cpp` 141).
- A proof of work can be accepted again after its expiry by a thread whose clock
  reading is older than the collection of the ledger (`src/captcha.cpp` 212).
- A handler that throws leaves the connection open with no read under way
  (`Throws`); it is released when a write to it fails or it is closed.
- After a wrong password `passwordDraft` is empty already, so `passwordError` stays
  false (`Chat.svelte` 193).
- In the formats: the payload limit is per frame and not per message; a query value is
  cut at a second `=`; a lookup in a JSON value that is no object throws; nesting
  counts twice against the depth limit; a configuration line over 199 characters
  is split, an indented key continues the value before, repeated keys are joined
  by line ends, `010` is 8, and the port is cast to 16 bits.

To check a run: `tlc -config RoomServer_joins.cfg MCRoomServer`, and likewise with
the module and configuration named in `PROJECT.json`.

## 4. What is proved

The theorems hold for every value of the constants that satisfies the `ASSUME`s:
counts are natural numbers, the null values are not in the sets, requests, room
ids and WebSocket connections are finitely many, there is a worker, the purge
thread is no io thread; what is converted is a sequence of bytes or characters, and
`_` is no control character.

| Module | Theorem | Property |
|---|---|---|
| `RoomServerProofs` | `TypeCorrect` | `TypeOK` |
| | `JoinedPeersHoldTokens` | `JoinedHoldsToken` |
| | `DeletesAreAuthorised` | `DeleteIsAuthorised` |
| | `RowsAreNeverOrphaned` | `NoOrphanRows` |
| | `PoolsComeFirst` (o) | `PoolBeforeActivation` |
| | `RoomsStayNearCap` | `RoomsCapOvershoot` |
| | `ChallengesAreOneTime` (*) | `OneTokenPerChallenge` |
| | `GuessesAreBounded` (*) | `OneGuessPerChallenge` |
| | `TokensStayEarned` (*) | `TokensAreEarned` |
| `RoomRefinementProofs` | `ServerKeepsContract` (*) | `ImplementsContract` |
| `CaptchaProofs` | `ProofsAreSingleUse` | `SingleUseWhileValid` |
| `RelayProofs` | `RelayTypes` | `TypeOK` |
| | `MessagesKeepTheirOrder` | `SenderOrder` |
| | `NothingAfterLeave` | `LeaveIsLast` |
| | `HistoryStaysRecent` | `HistoryIsRecent` |
| | `NoMessageIsSkipped` | `NothingSkipped` |
| | `EveryMemberIsTold` | `MembersAreTold` |
| `WsConnectionProofs` | `ConnectionTypes` | `TypeOK` |
| | `PendingIsAlive` | `PendingKeepsAlive` |
| | `OwnCallsAreSafe` | `OwnCallsReachLive` |
| | `DeparturesAreToldOnce` | `LeavesOnce` |
| | `FreedAreForgotten` | `FreedIsForgotten` |
| `HttpServerProofs` | `ServerTypes` | `TypeOK` |
| | `DeadlinesStayCurrent` | `DeadlinesAreCurrent` |
| | `EndedStayReleased` | `EndedIsReleased` |
| | `NoThreadOutlivesMain` | `NothingOutlivesMain` |
| `ChatSessionProofs` | `SessionTypes` | `TypeOK` |
| | `PromptStaysUsable` | `PromptIsUsable` |
| | `JoinedIsConnected` | `ShownJoinedIsConnected` |
| | `KeysAreTested` | `KeyIsTested` |
| | `DeletedStaysFinal` (+) | `DeletedIsFinal` |
| `ConversionsProofs` | `BytesRoundTrip` | `Base64RoundTrip` |
| | `PathsStayInside` | `StaticPathsStayInside` |
| | `DigestsStandard` | `DigestsAreStandard` |

(*) assumes `"consume" \notin Faults`: when the UPDATE of `consumeChallenge` fails,
`db.cpp` returns the challenge all the same, and it can be handed out again.
(o) assumes `"commit" \notin Faults`: when the COMMIT of `insertChallenges` fails, the
handler goes on without the pool.
(+) assumes one tab: another's credentials let a session back in that forgot its own.

None of the properties of the state machines is inductive by itself. Each module states the invariant that is,
built in layers, with one lemma for each action or group of actions; where the
invariants were new, TLC checked them on the bounds of the runs first.

**RoomServer.** (1) `TypeOK`, then `ControlInv`: where a handler is determines what
its locals hold (a handler about to mark a peer has a token, a request past its
check a room), and a connection without an entry runs nothing. (2) `PendingInv`:
tokens about to be issued are fresh and differ from peer to peer. (3)
`CredentialInv`: rooms come from drawn ids only (`DrawnInv`), whence a deleted id is
never a room again; this makes stale token checks harmless. (4) `PoolInv`: challenge
rows have ids the counter has passed, and a room. (5) `ChallengeInv`: an answered
challenge is spent (marked used, or its row gone and its id passed by the counter),
and an expected one was consumed from its peer's room, so no later
`consumeChallenge` returns it. This layer is the one that fails when the UPDATE may.
(6) `ActivationInv`: what an activation knows of its room stays true between its
critical sections, as the pool of a room in creation only grows. `RoomsStayNearCap`
counts: a request past the cap check is counted beside the rooms.

**The refinement.** `RefinementInv` adds to these that a handler about to mark its
peer does it for the first time and with a token that was bought (`EntryInv`). Then
the mapped initial states are the contract's, and each action is one of the
contract's or a stutter: creation, consumption and deletion map to steps, the
checks before them to stutters, a crash to all connections leaving.

**Captcha.** `LedgerInv`: a thread's clock reading is never ahead of the clock, and a
valid token of this process that was accepted is in the ledger. A collection
therefore removes only what has expired.

**Relay.** `RunInv`: a handler speaks for its own connection, of a departure once the
entry is gone and of anything else while it is there. `LogInv`: what was posted was
said by somebody in that position. `OrderInv`: a message still to be posted is
newer than its sender's messages in the log, which makes `SenderOrder` inductive.
`HistoryInv`: the cache is the newest messages and a copied history was it.
`ReachedInv`: every message since a joiner's history was copied is in its log or in a
handler on the way to it. `TellInv`: the same of the arrivals and departures since
its copy of the members. The last two are what `NothingSkipped`
and `MembersAreTold` become when no handler is quiet.

**WsConnection.** `LifeInv`: a connection passes through its states once; its room id
goes with its entry, and only then it can be destroyed. `CallInv`: of the calls a
thread has left, those on its own connections find them alive, and the end of a
callback, which may destroy its connection, is the last of them.

**HttpServer.** `ThreadInv` ties the threads to what `main` has passed; `QueueInv`
says there is a worker for the next connection and each connection keeps its own;
`TimerInv` that a deadline is in the timer of its connection's worker, so that no
other worker cancels it. That `PickIoContextIdx` returns a worker needs the least
element of a set of numbers, from the well-foundedness of `<`.

**ChatSession.** `TabOK`, for each tab: besides the two properties, a tab that is not
mounted is as it was made, and so nothing is due for it. `KeyOK`: a
client that has a token, has answered a challenge or is let in has the right key;
while a token is stored the session's key is right; who asks for a password or shows
the room as deleted has no token stored. That holds of a tab as long as it is the
only one to have the room open (`Only`, `KeyInv`); from it follows `KeyIsTested` for
any number of tabs, since a tab that writes is that one, has had its own challenge
answered, or joined by a token beside another (`Writers`). A step is shown to preserve these from what
each function of the component does to a tab (`CloseClientEffect`,
`SpawnClientEffect`, `OnCloseEffect`, ...).

**Conversions.** A behaviour is one conversion, so these are statements about inputs
of every length, and the induction is on the position in the input. It is over a set
of positions (`Induction`, from the least number that is not in it), since the
library's induction theorems take a predicate as a parameter, which the provers
cannot instantiate. *Base64*: `Reading` is what the decoder knows after each of the
four digits of a group: how many bytes it has written, that they are the first of
the input, and the bits of the next byte it holds; the encoder of the handshake
writes the same digits. Blanks leave the decoder as it is, so the spaced text has
the decoder in the same state at every second position. *Paths*: `CleanUpTo` says of the
first characters of a path that none is replaced any more, the first is no
separator, and a special name begins at none of those where a part of the path
begins; one round of the loop extends it by a character, also when that round
shortens the path. What is clean is left alone by a second cleaning. *Digests*: `At`
says that a hash has been given the first n bytes of a message and no others: the
whole blocks are out, the rest is in the buffer, the counts are right. `UpdateByteAt`
and `ProcessByteAt` extend it by a byte. The message with the padding of the
standard is the one it is used for: `PadBlock` completes its last block or two
(`PadBlockBlocks`), and `getDigest`, which feeds the padding byte by byte, gets to its
end (`Sha1DigestBlocks`). HMAC is three uses of that. The bits of a difficulty are
those of whole bytes and the top bits of one more (`DifficultyIsBits`). That a length
in bits fits the 32 bits of the model is assumed in `Conversions` to say what `Bytes`
stands for; the equalities do not depend on it.

**Only model-checked.** Liveness (`IdleRoomsArePurged`, `LostSessionsComeBack`,
`SignalEnds`): properties under fairness are outside the prover's
reach. The router, JSON, the configuration, query strings, requests, responses and
frames: their modules are recursive operators, which the prover cannot reason about.
And the runs that end in a violation.

## 5. What is not modelled

- The client's cryptography, its proof-of-work search and the URL fragment:
  computations without state (`web/src/lib/crypto.js`, `pow.js`, `urlfrag.js`). A
  right key is the ability to return the plaintext. The rounds of the hashes.
- Logging (plog), the text of `--help`, `version` and `is_alive`: no state and
  nothing depends on them.
- The parts of Crow the program never calls: templates, multipart bodies,
  middlewares, cookies, sessions, CORS, compression, blueprints, catch-all rules,
  TLS. Floating-point numbers in JSON. The headers of the WebSocket handshake but
  for their digest.
- The user interface beyond the session: messages shown, nicknames, sidebar,
  dialogues, wake lock, translations. The creation page (`Home.svelte`) is a chain
  of requests whose effects are `RoomServer` and an initial state of
  `ChatSession`.
- Negative values in the configuration.

## 6. Plan

Done: the models above, the refinement of `RoomContract`, and the theorems of
section 4, which cover every safety property of the state machines and the
encodings, paths and digests of the formats. Next, in this order:

1. `RoomServer` without the assumption on `consumeChallenge`: what a failing
   UPDATE still leaves true.
2. The other formats as functions on positions, as `Codecs` and `Digest` are, and
   theorems about them: query strings and WebSocket frames first.
