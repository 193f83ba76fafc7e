----------------------------- MODULE RoomServer -----------------------------
(***************************************************************************)
(* The life of rooms, peers and access tokens in hashhush: the HTTP and    *)
(* WebSocket handlers of src/src/webapi.cpp, the peer table of             *)
(* src/src/room.cpp and the purge thread of src/src/main.cpp, on top of    *)
(* the store (RoomStore).                                                  *)
(*                                                                         *)
(* Crow runs the handlers of one connection one after the other on its io  *)
(* thread; handlers of different connections, HTTP requests and the purge  *)
(* thread run concurrently.  A handler takes the store's mutex or the peer *)
(* table's mutex several times and holds neither in between, so it is a    *)
(* sequence of actions here, one for each critical section; `task', `req'  *)
(* and `purge' say where each handler is and what its locals hold.         *)
(***************************************************************************)
EXTENDS RoomStore

CONSTANTS
    Conns,              \* WebSocket connections
    Reqs,               \* HTTP requests that can be in flight at once
    MaxParticipants,    \* config: max_participants
    MaxParticipantsCap, \* config: max_participants_cap
    OpenFactor,         \* challenges per participant, no password (5)
    PasswordFactor,     \* challenges per participant with password (10)
    TotalRoomsCap,      \* config: total_rooms_cap, 0 for no cap
    IdleTtl,            \* config: idle_ttl_seconds
    MaxTime,            \* bound: ticks of the clock
    MaxCrashes,         \* bound: restarts of the server
    NoToken             \* an empty token string

ASSUME ServerAssumption ==
    /\ MaxParticipants \in Nat /\ MaxParticipantsCap \in Nat
    /\ OpenFactor \in Nat /\ PasswordFactor \in Nat
    /\ TotalRoomsCap \in Nat /\ IdleTtl \in Nat
    /\ MaxTime \in Nat /\ MaxCrashes \in Nat
    /\ NoToken \notin Tokens
    /\ IsFiniteSet(Reqs) /\ IsFiniteSet(RoomIds)

VARIABLES
    peers,      \* RoomManager::peers_ by connection; room = NoRoom: no entry
    closing,    \* connections whose close the server has asked for
    task,       \* the frame handler of each connection
    req,        \* the HTTP requests in flight
    purge,      \* the purge thread
    minted,     \* history: the challenge whose answer bought a token
    guessed,    \* history: challenges some answer was compared with
    drawn,      \* history: room ids handed out; a random id never repeats
    crashes     \* history: restarts so far

connVars  == <<peers, closing, task>>
ghostVars == <<minted, guessed, drawn, crashes>>
vars == <<storeVars, connVars, req, purge, ghostVars>>

NoChallenge == 0                    \* expectedPlaintext is empty
Decoy == MaxChallengeId + 1         \* random bytes no client can answer

\* struct Peer: peerId is derived from the token, and stands for it here.
Peer(r, joined, peerId, pending, expected) ==
    [room |-> r, joined |-> joined, peerId |-> peerId,
     pending |-> pending, expected |-> expected]

\* The next critical section of a handler, and its locals.
Task(at, token, limit)       == [at |-> at, token |-> token, limit |-> limit]
Request(at, r, token, count) == [at |-> at, room |-> r, token |-> token,
                                 count |-> count]
Purging(at, stale, cur)      == [at |-> at, stale |-> stale, cur |-> cur]

NoPeer == Peer(NoRoom, FALSE, NoToken, NoToken, NoChallenge)
Idle   == Task("idle", NoToken, 0)
NoReq  == Request("none", NoRoom, NoToken, 0)
Asleep == Purging("sleep", {}, NoRoom)

MaybeToken == Tokens \cup {NoToken}
MaybeRoom  == RoomIds \cup {NoRoom}

TaskAt  == {"idle", "count", "consume", "mark", "touch"}
ReqAt   == {"none", "create", "insert", "activate", "close", "row"}
PurgeAt == {"sleep", "pick", "delete"}

PeerType  == [room: MaybeRoom, joined: BOOLEAN, peerId: MaybeToken,
              pending: MaybeToken, expected: 0 .. Decoy]
TaskType  == [at: TaskAt, token: MaybeToken, limit: Nat]
ReqType   == [at: ReqAt, room: MaybeRoom, token: MaybeToken, count: Nat]
PurgeType == [at: PurgeAt, stale: SUBSET RoomIds, cur: MaybeRoom]

TypeOK ==
    /\ StoreTypeOK
    /\ peers \in [Conns -> PeerType]
    /\ closing \in [Conns -> BOOLEAN]
    /\ task \in [Conns -> TaskType]
    /\ req \in [Reqs -> ReqType]
    /\ purge \in PurgeType
    /\ minted \in [Tokens -> 0 .. MaxChallengeId]
    /\ guessed \subseteq ChallengeIds
    /\ drawn \subseteq RoomIds
    /\ crashes \in Nat

Init ==
    /\ StoreInit
    /\ peers = [c \in Conns |-> NoPeer]
    /\ closing = [c \in Conns |-> FALSE]
    /\ task = [c \in Conns |-> Idle]
    /\ req = [q \in Reqs |-> NoReq]
    /\ purge = Asleep
    /\ minted = [t \in Tokens |-> NoChallenge]
    /\ guessed = {}
    /\ drawn = {}
    /\ crashes = 0

----------------------------------------------------------------------------
(* The peer table.                                                         *)

Connected(c) == peers[c].room # NoRoom
PeersOf(r)   == {c \in Conns : peers[c].room = r}
JoinedOf(r)  == {c \in PeersOf(r) : peers[c].joined}
LiveCount(r) == Cardinality(JoinedOf(r))

\* onopen: any room id is accepted, whether or not the room exists.
WsOpen(c, r) ==
    /\ ~Connected(c)
    /\ peers' = [peers EXCEPT ![c] = Peer(r, FALSE, NoToken, NoToken, NoChallenge)]
    /\ closing' = [closing EXCEPT ![c] = FALSE]
    /\ UNCHANGED <<storeVars, task, req, purge, ghostVars>>

\* onclose, between two frames of the connection: the client left, or the
\* close the server asked for came through.
WsClose(c) ==
    /\ Connected(c) /\ task[c] = Idle
    /\ peers' = [peers EXCEPT ![c] = NoPeer]
    /\ closing' = [closing EXCEPT ![c] = FALSE]
    /\ UNCHANGED <<storeVars, task, req, purge, ghostVars>>

----------------------------------------------------------------------------
(* Frames of a peer that has not joined.  A connection the server is       *)
(* closing still has its frames read and handled until the close is done.  *)

Reading(c) == Connected(c) /\ task[c] = Idle

\* sendErrAndClose, and the close on an oversized frame.
Refuse(c) == closing' = [closing EXCEPT ![c] = TRUE]

\* Mutant of HelloToken: any known token opens any room.
HelloAnyToken(c, t) ==
    /\ Reading(c) /\ ~peers[c].joined
    /\ RoomForToken(t) # NoRoom
    /\ task' = [task EXCEPT ![c] = Task("mark", t, 0)]
    /\ UNCHANGED <<storeVars, peers, closing, req, purge, ghostVars>>

\* hello with a token: the owner is looked up, then finalizeJoin starts.
HelloToken(c, t) ==
    /\ Reading(c) /\ ~peers[c].joined
    /\ \/ /\ RoomForToken(t) = peers[c].room
          /\ task' = [task EXCEPT ![c] = Task("mark", t, 0)]
          /\ UNCHANGED closing
       \/ /\ RoomForToken(t) # peers[c].room
          /\ Refuse(c)
          /\ UNCHANGED task
    /\ UNCHANGED <<storeVars, peers, req, purge, ghostVars>>

FreshTokens == {t \in Tokens : minted[t] = NoChallenge
                               /\ \A c \in Conns : peers[c].pending # t}

\* The challenge frame: a new pending token replaces an earlier one.
Challenge(c, i) ==
    /\ \E t \in FreshTokens :
         peers' = [peers EXCEPT ![c] = Peer(@.room, @.joined, @.peerId, t, i)]
    /\ task' = [task EXCEPT ![c] = Idle]

\* hello without a token: a missing room gets a decoy challenge, an existing
\* one has its columns copied.
HelloFind(c) ==
    /\ Reading(c) /\ ~peers[c].joined
    /\ \/ /\ ~RoomExists(peers[c].room)
          /\ Challenge(c, Decoy)
       \/ /\ RoomExists(peers[c].room)
          /\ task' = [task EXCEPT ![c] =
                Task("count", NoToken, row[peers[c].room].maxParticipants)]
          /\ UNCHANGED peers
    /\ UNCHANGED <<storeVars, closing, req, purge, ghostVars>>

\* ... then the joined peers are counted; a full room gets a decoy.
HelloCount(c) ==
    /\ task[c].at = "count"
    /\ \/ /\ LiveCount(peers[c].room) >= task[c].limit
          /\ Challenge(c, Decoy)
       \/ /\ LiveCount(peers[c].room) < task[c].limit
          /\ task' = [task EXCEPT ![c] = Task("consume", NoToken, 0)]
          /\ UNCHANGED peers
    /\ UNCHANGED <<storeVars, closing, req, purge, ghostVars>>

\* ... then a challenge is consumed; an empty pool gives a decoy.
HelloConsume(c) ==
    /\ task[c].at = "consume"
    /\ \/ /\ UnusedChallenges(peers[c].room) = {}
          /\ Challenge(c, Decoy)
          /\ UNCHANGED storeVars
       \/ \E i \in ChallengeIds :
             /\ ConsumeChallenge(i, peers[c].room)
             /\ Challenge(c, i)
    /\ UNCHANGED <<closing, req, purge, ghostVars>>

\* Mutant of ChallengeResponse: a wrong answer keeps the expectation.
ChallengeResponseRetry(c, answer) ==
    LET expected == peers[c].expected IN
    /\ Reading(c) /\ ~peers[c].joined
    /\ answer # expected
    /\ guessed' = guessed \cup ({expected} \cap ChallengeIds)
    /\ Refuse(c)
    /\ UNCHANGED <<storeVars, peers, task, minted, req, purge, drawn, crashes>>

\* challenge_response with the plaintext of challenge `answer', or with
\* NoChallenge for anything else.  The expectation is cleared first: one
\* challenge takes one answer.  A right answer buys the pending token.
ChallengeResponse(c, answer) ==
    LET expected == peers[c].expected
        right == answer # NoChallenge /\ answer = expected
        inserted == TokenInsertSucceeds(peers[c].room)
    IN
    /\ Reading(c) /\ ~peers[c].joined
    /\ peers' = [peers EXCEPT ![c] =
                    Peer(@.room, @.joined, @.peerId, NoToken, NoChallenge)]
    /\ guessed' = guessed \cup ({expected} \cap ChallengeIds)
    /\ \/ /\ right /\ inserted
          /\ InsertAccessToken(peers[c].pending, peers[c].room)
          /\ minted' = [minted EXCEPT ![peers[c].pending] = expected]
          /\ task' = [task EXCEPT ![c] = Task("mark", peers[c].pending, 0)]
          /\ UNCHANGED closing
       \/ /\ ~right \/ ~inserted \/ MayFail("token")
          /\ Refuse(c)
          /\ UNCHANGED <<storeVars, minted, task>>
    /\ UNCHANGED <<req, purge, drawn, crashes>>

\* A frame above the size limit, or any other type from a peer not joined.
BadFrame(c) ==
    /\ Reading(c)
    /\ Refuse(c)
    /\ UNCHANGED <<storeVars, peers, task, req, purge, ghostVars>>

\* finalizeJoin, first critical section: markPeerJoined.
MarkJoined(c) ==
    /\ task[c].at = "mark"
    /\ peers' = [peers EXCEPT ![c] =
                    Peer(@.room, TRUE, task[c].token, @.pending, @.expected)]
    /\ task' = [task EXCEPT ![c] = Task("touch", NoToken, 0)]
    /\ UNCHANGED <<storeVars, closing, req, purge, ghostVars>>

\* ... its end, after the snapshots and the sends (module Relay): touchRoom.
FinishJoin(c) ==
    /\ task[c].at = "touch"
    /\ TouchRoom(peers[c].room)
    /\ task' = [task EXCEPT ![c] = Idle]
    /\ UNCHANGED <<peers, closing, req, purge, ghostVars>>

\* msg from a joined peer (the relaying itself is module Relay).
SendMsg(c) ==
    /\ Reading(c) /\ peers[c].joined
    /\ TouchRoom(peers[c].room)
    /\ UNCHANGED <<connVars, req, purge, ghostVars>>

----------------------------------------------------------------------------
(* POST /api/rooms, after the proof of work was accepted (module Captcha). *)

Capacity == IF MaxParticipants <= MaxParticipantsCap
            THEN MaxParticipants ELSE MaxParticipantsCap

\* Mutant of UnderCap: the comparison is off by one.
UnderOrAtCap == TotalRoomsCap = 0 \/ CountRooms <= TotalRoomsCap

UnderCap == TotalRoomsCap = 0 \/ CountRooms < TotalRoomsCap

CreateCheck(q) ==
    /\ req[q] = NoReq
    /\ UnderCap
    /\ req' = [req EXCEPT ![q] = Request("create", NoRoom, NoToken, 0)]
    /\ UNCHANGED <<storeVars, connVars, purge, ghostVars>>

CreateInsert(q, r, password) ==
    /\ req[q].at = "create" /\ r \notin drawn
    /\ \/ CreateRoom(r, Capacity, password)
       \/ MayFail("create") /\ UNCHANGED storeVars
    /\ drawn' = drawn \cup {r}
    /\ req' = [req EXCEPT ![q] = NoReq]
    /\ UNCHANGED <<connVars, purge, minted, guessed, crashes>>

(* POST /api/rooms/<id>/activate.                                          *)

\* challenges_required: the size of the pool the creator must submit.
Required(r) == row[r].maxParticipants
               * (IF row[r].requiresPassword THEN PasswordFactor ELSE OpenFactor)

ActivateFind(q, r) ==
    /\ req[q] = NoReq
    /\ RoomExists(r) /\ ~row[r].activated
    /\ req' = [req EXCEPT ![q] = Request("insert", r, NoToken, Required(r))]
    /\ UNCHANGED <<storeVars, connVars, purge, ghostVars>>

\* Mutant of ActivateInsert: the result of insertChallenges is ignored.
ActivateInsertUnchecked(q) ==
    LET r == req[q].room
        n == req[q].count
    IN
    /\ req[q].at = "insert"
    /\ \/ InsertSucceeds(r, n) /\ InsertChallenges(r, n)
       \/ (~InsertSucceeds(r, n) \/ MayFail("insert")) /\ UNCHANGED storeVars
    /\ req' = [req EXCEPT ![q] = Request("activate", r, NoToken, n)]
    /\ UNCHANGED <<connVars, purge, ghostVars>>

ActivateInsert(q) ==
    LET r == req[q].room
        n == req[q].count
    IN
    /\ req[q].at = "insert"
    /\ \/ /\ InsertSucceeds(r, n)
          /\ InsertChallenges(r, n)
          /\ req' = [req EXCEPT ![q] = Request("activate", r, NoToken, n)]
       \/ /\ ~InsertSucceeds(r, n) \/ MayFail("insert")
          /\ req' = [req EXCEPT ![q] = NoReq]
          /\ UNCHANGED storeVars
    /\ UNCHANGED <<connVars, purge, ghostVars>>

ActivateCommit(q) ==
    LET r == req[q].room IN
    /\ req[q].at = "activate"
    /\ \/ ActivateSucceeds(r) /\ ActivateRoom(r)
       \/ (~ActivateSucceeds(r) \/ MayFail("activate")) /\ UNCHANGED storeVars
    /\ req' = [req EXCEPT ![q] = NoReq]
    /\ UNCHANGED <<connVars, purge, ghostVars>>

(* DELETE /api/rooms/<id>.                                                 *)

\* closeRoom: a close is asked for every connection of the room.
CloseRoom(r) == closing' = [c \in Conns |-> closing[c] \/ peers[c].room = r]

\* deleteRoom, whose result no caller looks at.
DropRoom(r) ==
    \/ DeleteRoom(r)
    \/ MayFail("delete") /\ UNCHANGED storeVars

\* Mutant of DeleteCheck: the owner of the token is not compared.
DeleteCheckAnyToken(q, r, t) ==
    /\ req[q] = NoReq
    /\ RoomForToken(t) # NoRoom
    /\ req' = [req EXCEPT ![q] = Request("close", r, t, 0)]
    /\ UNCHANGED <<storeVars, connVars, purge, ghostVars>>

DeleteCheck(q, r, t) ==
    /\ req[q] = NoReq
    /\ RoomForToken(t) = r
    /\ req' = [req EXCEPT ![q] = Request("close", r, t, 0)]
    /\ UNCHANGED <<storeVars, connVars, purge, ghostVars>>

DeleteClose(q) ==
    /\ req[q].at = "close"
    /\ CloseRoom(req[q].room)
    /\ req' = [req EXCEPT ![q] = Request("row", @.room, @.token, 0)]
    /\ UNCHANGED <<storeVars, peers, task, purge, ghostVars>>

DeleteRow(q) ==
    /\ req[q].at = "row"
    /\ DropRoom(req[q].room)
    /\ req' = [req EXCEPT ![q] = NoReq]
    /\ UNCHANGED <<connVars, purge, ghostVars>>

----------------------------------------------------------------------------
(* The purge thread: one list of idle rooms per round, then room by room.  *)

PurgeSelect ==
    /\ purge.at = "sleep"
    /\ purge' = Purging("pick", RoomsIdleSince(IdleTtl), NoRoom)
    /\ UNCHANGED <<storeVars, connVars, req, ghostVars>>

PurgeClose(r) ==
    /\ purge.at = "pick" /\ r \in purge.stale
    /\ CloseRoom(r)
    /\ purge' = Purging("delete", purge.stale \ {r}, r)
    /\ UNCHANGED <<storeVars, peers, task, req, ghostVars>>

\* Mutant of PurgeDelete: rooms with a joined peer keep their row.
PurgeDeleteUnlessJoined ==
    /\ purge.at = "delete"
    /\ IF JoinedOf(purge.cur) = {} THEN DropRoom(purge.cur) ELSE UNCHANGED storeVars
    /\ purge' = Purging("pick", purge.stale, NoRoom)
    /\ UNCHANGED <<connVars, req, ghostVars>>

PurgeDelete ==
    /\ purge.at = "delete"
    /\ DropRoom(purge.cur)
    /\ purge' = Purging("pick", purge.stale, NoRoom)
    /\ UNCHANGED <<connVars, req, ghostVars>>

PurgeRest ==
    /\ purge.at = "pick" /\ purge.stale = {}
    /\ purge' = Asleep
    /\ UNCHANGED <<storeVars, connVars, req, ghostVars>>

----------------------------------------------------------------------------
(* The process dies and is started again: all but the store is lost.       *)

Crash ==
    /\ crashes < MaxCrashes
    /\ crashes' = crashes + 1
    /\ peers' = [c \in Conns |-> NoPeer]
    /\ closing' = [c \in Conns |-> FALSE]
    /\ task' = [c \in Conns |-> Idle]
    /\ req' = [q \in Reqs |-> NoReq]
    /\ purge' = Asleep
    /\ UNCHANGED <<storeVars, minted, guessed, drawn>>

Tick ==
    /\ now < MaxTime
    /\ now' = now + 1
    /\ UNCHANGED <<rooms, row, poolOf, used, lastChallenge, tokenRoom>>
    /\ UNCHANGED <<connVars, req, purge, ghostVars>>

----------------------------------------------------------------------------

ConnNext(c) ==
    \/ \E r \in RoomIds : WsOpen(c, r)
    \/ WsClose(c)
    \/ \E t \in Tokens : HelloToken(c, t)
    \/ HelloFind(c)
    \/ HelloCount(c)
    \/ HelloConsume(c)
    \/ \E answer \in 0 .. MaxChallengeId : ChallengeResponse(c, answer)
    \/ BadFrame(c)
    \/ MarkJoined(c)
    \/ FinishJoin(c)
    \/ SendMsg(c)

ReqNext(q) ==
    \/ CreateCheck(q)
    \/ \E r \in RoomIds, password \in BOOLEAN : CreateInsert(q, r, password)
    \/ \E r \in RoomIds : ActivateFind(q, r)
    \/ ActivateInsert(q)
    \/ ActivateCommit(q)
    \/ \E r \in RoomIds, t \in Tokens : DeleteCheck(q, r, t)
    \/ DeleteClose(q)
    \/ DeleteRow(q)

PurgeNext ==
    \/ PurgeSelect
    \/ \E r \in RoomIds : PurgeClose(r)
    \/ PurgeDelete
    \/ PurgeRest

Next ==
    \/ \E c \in Conns : ConnNext(c)
    \/ \E q \in Reqs : ReqNext(q)
    \/ PurgeNext
    \/ Crash
    \/ Tick

Spec == Init /\ [][Next]_vars

\* The purge thread is an OS thread that always runs again.
FairSpec == Spec /\ WF_vars(PurgeNext)

----------------------------------------------------------------------------
(* Properties.                                                             *)

\* A challenge triple admits one joiner: two tokens were never bought with
\* the same challenge, whatever the interleaving of the joiners' hellos and
\* whatever restarts happen in between (consumeChallenge,
\* challenge_response).
OneTokenPerChallenge ==
    \A s, t \in Tokens :
        s # t /\ minted[s] # NoChallenge => minted[s] # minted[t]

\* A challenge takes one answer: an expectation some peer still holds was
\* never compared with an answer before, and no other peer holds it.  The
\* pool therefore bounds the guesses at a room's key or password
\* (webapi.cpp: each wrong guess consumes one challenge).
OneGuessPerChallenge ==
    \A c \in Conns : peers[c].expected \in ChallengeIds =>
        /\ peers[c].expected \notin guessed
        /\ \A d \in Conns : d # c => peers[d].expected # peers[c].expected

\* Every token row stands for a challenge of its own room that was consumed:
\* a token cannot outlive its room, move to another one or appear without
\* an answered challenge (challenge_response, deleteRoom's cascade).
TokensAreEarned ==
    \A t \in Tokens : tokenRoom[t] # NoRoom =>
        /\ tokenRoom[t] \in rooms
        /\ minted[t] \in used
        /\ poolOf[minted[t]] = tokenRoom[t]

\* A peer the server treats as joined, and a handler about to mark one so,
\* has a token of the very room it is connected to, unless that room was
\* deleted meanwhile (hello, challenge_response, finalizeJoin).
JoinedHoldsToken ==
    \A c \in Conns :
        /\ peers[c].joined =>
              \/ tokenRoom[peers[c].peerId] = peers[c].room
              \/ peers[c].room \notin rooms
        /\ task[c].at = "mark" =>
              \/ tokenRoom[task[c].token] = peers[c].room
              \/ peers[c].room \notin rooms

\* A DELETE request past its token check names a room its token belongs to,
\* or one that is already gone: a stale check never lets it remove another
\* room, because room ids and tokens are not reused.
DeleteIsAuthorised ==
    \A q \in Reqs : req[q].at \in {"close", "row"} =>
        \/ tokenRoom[req[q].token] = req[q].room
        \/ req[q].room \notin rooms

\* No challenge row outlives its room or is there without one: foreign keys
\* and the cascade hold even for handlers that looked the room up before it
\* was deleted (activate, challenge_response against DELETE and the purger).
NoOrphanRows ==
    /\ \A i \in ChallengeIds : poolOf[i] # NoRoom => poolOf[i] \in rooms
    /\ \A i \in used : poolOf[i] # NoRoom

\* An activated room was given its whole pool first, also when the server
\* died or a write that reports its failure failed between the two writes of
\* the handler (activate).  The COMMIT of insertChallenges reports none: with
\* that fault the property does not hold.
PoolBeforeActivation ==
    \A r \in rooms : row[r].activated =>
        Cardinality({i \in ChallengeIds : poolOf[i] = r}) >= Required(r)

Creating == {q \in Reqs : req[q].at = "create"}

\* The cap on rooms is checked and used in two critical sections, so it can
\* be exceeded; the excess is smaller than the number of requests in flight
\* (POST /api/rooms).
RoomsCapOvershoot ==
    TotalRoomsCap > 0 =>
        CountRooms + Cardinality(Creating) <= TotalRoomsCap - 1 + Cardinality(Reqs)

IsIdle(r) == r \in RoomsIdleSince(IdleTtl)

\* A room that stays idle past the TTL is deleted by the purge thread, even
\* across a restart; otherwise somebody was active in it again.
IdleRoomsArePurged ==
    \A r \in RoomIds : IsIdle(r) ~> ~IsIdle(r)

(* What the documentation says, and the code does not keep.                *)

\* README.md: the size of the pool is a hard cap on the joins by challenge in
\* the life of a room (activate: a second request, in flight at once or sent
\* after a failed one, stores a second pool).
PoolIsHardCap ==
    \A r \in rooms : Cardinality({t \in Tokens : tokenRoom[t] = r}) <= Required(r)

=============================================================================
