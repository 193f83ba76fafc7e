------------------------------- MODULE Relay -------------------------------
(***************************************************************************)
(* The relay of one room: src/src/room.cpp with the parts of the frame     *)
(* handlers of src/src/webapi.cpp that send frames (finalizeJoin, msg and  *)
(* presence, the close of a connection, closeRoom).                        *)
(*                                                                         *)
(* The peer table and the message cache are read under one mutex, and      *)
(* every frame is posted to its connection after the mutex is released.    *)
(* So a handler is a sequence of actions: one for each critical section    *)
(* and one for each frame posted.  Crow keeps the order in which frames    *)
(* are posted to a connection; log[c] is that sequence.                    *)
(*                                                                         *)
(* The id of a peer is made from its token, so all the connections of one  *)
(* token have it: a reload's while the old one is still there, or those of *)
(* two tabs.  No handler looks at an id, so a frame is recorded here with  *)
(* the connections it is about; what is written in it are their ids        *)
(* (PeerId, MemberIds), and the properties about ids are stated for every  *)
(* way in which the connections may share tokens.  A message is its number *)
(* in the order in which messages enter the cache.  Who may join is module *)
(* RoomServer.                                                             *)
(***************************************************************************)
EXTENDS Naturals, Sequences, FiniteSets

CONSTANTS
    Conns,      \* connections to the room
    Peers,      \* peer ids
    CacheSize,  \* config: message_cache_size
    MaxMsgs,    \* bound: messages sent
    MaxPresence,\* bound: presence frames sent
    Deletes,    \* bound: whether the room is deleted, once
    Nobody      \* no connection

ASSUME RelayAssumption ==
    /\ CacheSize \in Nat /\ MaxMsgs \in Nat /\ MaxPresence \in Nat
    /\ Nobody \notin Conns
    /\ Deletes \in BOOLEAN

VARIABLES
    member,     \* the peer table: absent, open, joined or left
    cache,      \* msgCache_ of the room
    sent,       \* messages that entered the cache so far
    sender,     \* who sent each message
    run,        \* the handler each connection's thread is running
    log,        \* the frames posted to each connection there is
    closer,     \* closeRoom: the connections it still has to close
    deleted,    \* closeRoom has run
    since,      \* history: `sent' when the history of c was copied
    presence    \* history: presence frames sent

vars == <<member, cache, sent, sender, run, log, closer, deleted, since, presence>>

Frame(type, from, msg, history, members) ==
    [type |-> type, from |-> from, msg |-> msg, history |-> history, members |-> members]
NoFrame == Frame("none", Nobody, 0, <<>>, {})

\* The id of the token each connection joins with, shared or its own.
IdMaps == [Conns -> Peers]

\* What a frame says on the wire: peer_id, and the list of `joined'.
PeerId(id, f) == id[f.from]
MemberIds(id, f) == {id[d] : d \in f.members}

\* A handler: where it is, the frame it is making or sending, who is left.
Handler(at, frame, except, targets) ==
    [at |-> at, frame |-> frame, except |-> except, targets |-> targets]
Quiet == Handler("idle", NoFrame, Nobody, {})

Joined == {c \in Conns : member[c] = "joined"}
JoinedIds(id) == {id[c] : c \in Joined}
Connected == {c \in Conns : member[c] \in {"open", "joined"}}

FrameType ==
    [type: {"none", "joined", "peer_join", "peer_leave", "msg", "presence", "deleted"},
     from: Conns \cup {Nobody}, msg: 0 .. MaxMsgs, history: Seq(1 .. MaxMsgs),
     members: SUBSET Conns]

HandlerType ==
    [at: {"idle", "history", "members", "joined", "cast", "send"}, frame: FrameType,
     except: Conns \cup {Nobody}, targets: SUBSET Conns]

TypeOK ==
    /\ member \in [Conns -> {"absent", "open", "joined", "left"}]
    /\ cache \in Seq(1 .. sent) /\ Len(cache) <= CacheSize
    /\ sent \in 0 .. MaxMsgs /\ presence \in 0 .. MaxPresence
    /\ sender \in [1 .. MaxMsgs -> Conns \cup {Nobody}]
    /\ run \in [Conns -> HandlerType]
    /\ log \in [Conns -> Seq(FrameType)]
    /\ closer \subseteq Conns /\ deleted \in BOOLEAN
    /\ since \in [Conns -> 0 .. MaxMsgs]

Init ==
    /\ member = [c \in Conns |-> "absent"]
    /\ cache = <<>>
    /\ sent = 0
    /\ sender = [m \in 1 .. MaxMsgs |-> Nobody]
    /\ run = [c \in Conns |-> Quiet]
    /\ log = [c \in Conns |-> <<>>]
    /\ closer = {} /\ deleted = FALSE
    /\ since = [c \in Conns |-> 0]
    /\ presence = 0

----------------------------------------------------------------------------
(* Broadcast, the end of several handlers.                                 *)

\* send_text.  A connection that left takes no frame: what a call through
\* its stale pointer does is undefined, and no other peer sees it.
Post(d, frame) ==
    log' = IF d \in Connected THEN [log EXCEPT ![d] = Append(@, frame)] ELSE log

\* The handler of c broadcasts `frame' next.
Announce(c, frame, except) ==
    run' = [run EXCEPT ![c] = Handler("cast", frame, except, {})]

\* Mutant of Cast: every broadcast leaves its own connection out.
CastToOthers(c) ==
    LET targets == Joined \ {c} IN
    /\ run[c].at = "cast"
    /\ run' = [run EXCEPT ![c] = IF targets = {} THEN Quiet
                                 ELSE [@ EXCEPT !.at = "send", !.targets = targets]]
    /\ UNCHANGED <<member, cache, sent, sender, log, closer, deleted, since, presence>>

\* Under the mutex: the joined peers, less the exception.
Cast(c) ==
    LET targets == Joined \ {run[c].except} IN
    /\ run[c].at = "cast"
    /\ run' = [run EXCEPT ![c] = IF targets = {} THEN Quiet
                                 ELSE [@ EXCEPT !.at = "send", !.targets = targets]]
    /\ UNCHANGED <<member, cache, sent, sender, log, closer, deleted, since, presence>>

\* Mutant of Send: the loop does not move on after a frame.
SendAgain(c, d) ==
    /\ run[c].at = "send" /\ d \in run[c].targets
    /\ Post(d, run[c].frame)
    /\ run' = [run EXCEPT ![c] = IF Len(log[d]) > MaxMsgs + 2 THEN Quiet ELSE @]
    /\ UNCHANGED <<member, cache, sent, sender, closer, deleted, since, presence>>

\* Outside it: one frame after the other, in the order of a hash set.
Send(c, d) ==
    LET rest == run[c].targets \ {d} IN
    /\ run[c].at = "send" /\ d \in run[c].targets
    /\ Post(d, run[c].frame)
    /\ run' = [run EXCEPT ![c] = IF rest = {} THEN Quiet ELSE [@ EXCEPT !.targets = rest]]
    /\ UNCHANGED <<member, cache, sent, sender, closer, deleted, since, presence>>

----------------------------------------------------------------------------
(* finalizeJoin: mark, copy the history, copy the member list, post.       *)

Open(c) ==
    /\ member[c] = "absent"
    /\ member' = [member EXCEPT ![c] = "open"]
    /\ UNCHANGED <<cache, sent, sender, run, log, closer, deleted, since, presence>>

MarkPeerJoined(c) ==
    /\ member[c] = "open" /\ run[c] = Quiet
    /\ member' = [member EXCEPT ![c] = "joined"]
    /\ run' = [run EXCEPT ![c].at = "history"]
    /\ UNCHANGED <<cache, sent, sender, log, closer, deleted, since, presence>>

RecentMessages(c) ==
    /\ run[c].at = "history"
    /\ run' = [run EXCEPT ![c] = Handler("members", Frame("joined", c, 0, cache, {}), c, {})]
    /\ since' = [since EXCEPT ![c] = sent]
    /\ UNCHANGED <<member, cache, sent, sender, log, closer, deleted, presence>>

JoinedPeerIds(c) ==
    /\ run[c].at = "members"
    /\ run' = [run EXCEPT ![c].at = "joined", ![c].frame.members = Joined]
    /\ UNCHANGED <<member, cache, sent, sender, log, closer, deleted, since, presence>>

SendJoined(c) ==
    /\ run[c].at = "joined"
    /\ Post(c, run[c].frame)
    /\ Announce(c, Frame("peer_join", c, 0, <<>>, {}), c)
    /\ UNCHANGED <<member, cache, sent, sender, closer, deleted, since, presence>>

----------------------------------------------------------------------------
(* Frames of a joined peer, and the end of its connection.                 *)

\* Mutant of Trim: the newest entry is evicted.
TrimNewest(s) == IF Len(s) > CacheSize THEN SubSeq(s, 1, CacheSize) ELSE s

\* The ring buffer: the newest CacheSize entries.
Trim(s) == IF Len(s) > CacheSize THEN SubSeq(s, Len(s) - CacheSize + 1, Len(s)) ELSE s

\* msg: appendCachedMessage, then a broadcast to all, the sender included.
SendMsg(c) ==
    /\ member[c] = "joined" /\ run[c].at = "idle" /\ sent < MaxMsgs
    /\ sent' = sent + 1
    /\ sender' = [sender EXCEPT ![sent + 1] = c]
    /\ cache' = IF CacheSize = 0 THEN cache ELSE Trim(Append(cache, sent + 1))
    /\ Announce(c, Frame("msg", c, sent + 1, <<>>, {}), Nobody)
    /\ UNCHANGED <<member, log, closer, deleted, since, presence>>

\* presence: relayed to the others, never cached.
SendPresence(c) ==
    /\ member[c] = "joined" /\ run[c].at = "idle" /\ presence < MaxPresence
    /\ presence' = presence + 1
    /\ Announce(c, Frame("presence", c, 0, <<>>, {}), c)
    /\ UNCHANGED <<member, cache, sent, sender, log, closer, deleted, since>>

\* Mutant of OnWsClose: the joined flag is read after the entry went.
OnWsCloseSilent(c) ==
    /\ c \in Connected /\ run[c] = Quiet
    /\ member' = [member EXCEPT ![c] = "left"]
    /\ log' = [log EXCEPT ![c] = <<>>]
    /\ since' = [since EXCEPT ![c] = 0]
    /\ UNCHANGED <<cache, sent, sender, run, closer, deleted, presence>>

\* Mutant of OnWsClose: the departure is announced, the entry is kept.
OnWsCloseKept(c) ==
    /\ c \in Joined /\ run[c] = Quiet
    /\ Announce(c, Frame("peer_leave", c, 0, <<>>, {}), Nobody)
    /\ UNCHANGED <<member, cache, sent, sender, log, closer, deleted, since, presence>>

\* onWsClose: the entry goes, then the others are told if it had joined.
\* The connection's frames go with it.
OnWsClose(c) ==
    /\ c \in Connected /\ run[c] = Quiet
    /\ member' = [member EXCEPT ![c] = "left"]
    /\ \/ member[c] = "joined" /\ Announce(c, Frame("peer_leave", c, 0, <<>>, {}), Nobody)
       \/ member[c] = "open" /\ UNCHANGED run
    /\ log' = [log EXCEPT ![c] = <<>>]
    /\ since' = [since EXCEPT ![c] = 0]
    /\ UNCHANGED <<cache, sent, sender, closer, deleted, presence>>

\* closeRoom: under the mutex, take the connections and drop the cache ...
CloseRoom ==
    /\ Deletes /\ ~deleted
    /\ deleted' = TRUE
    /\ closer' = Connected
    /\ cache' = <<>>
    /\ UNCHANGED <<member, sent, sender, run, log, since, presence>>

\* ... then post `deleted' to each and ask for its close.
CloseRoomSend(d) ==
    /\ d \in closer
    /\ closer' = closer \ {d}
    /\ Post(d, Frame("deleted", Nobody, 0, <<>>, {}))
    /\ UNCHANGED <<member, cache, sent, sender, run, deleted, since, presence>>

Next ==
    \/ \E c \in Conns :
          \/ Open(c) \/ MarkPeerJoined(c) \/ RecentMessages(c) \/ JoinedPeerIds(c)
          \/ SendJoined(c) \/ SendMsg(c) \/ SendPresence(c) \/ OnWsClose(c)
          \/ Cast(c) \/ CloseRoomSend(c)
          \/ \E d \in Conns : Send(c, d)
    \/ CloseRoom

Spec == Init /\ [][Next]_vars

----------------------------------------------------------------------------
(* What was posted to a connection.                                        *)

Indices(c, types) == {k \in DOMAIN log[c] : log[c][k].type \in types}
Welcomed(c) == Indices(c, {"joined"}) # {}
WelcomeAt(c) == CHOOSE k \in Indices(c, {"joined"}) : TRUE
Welcome(c) == log[c][WelcomeAt(c)]

InHistory(c) == {Welcome(c).history[k] : k \in DOMAIN Welcome(c).history}
LiveMessages(c) == {log[c][k].msg : k \in Indices(c, {"msg"})}

Settled == closer = {} /\ \A c \in Conns : run[c] = Quiet

----------------------------------------------------------------------------
(* Properties.                                                             *)

\* Nothing is relayed past a joiner: once every handler is done, a peer that
\* is still connected was posted each message that entered the cache after
\* its history was copied, whatever joins, leaves and sends ran in between
\* (finalizeJoin marks the peer before it copies the history).
NothingSkipped ==
    Settled => \A c \in Joined : Welcomed(c) =>
        \A m \in since[c] + 1 .. sent : m \in LiveMessages(c)

\* The history a joiner is sent is the newest CacheSize messages there were
\* when it was copied, however the appends of other peers interleaved with
\* the steps of finalizeJoin, unless the room was closed meanwhile
\* (appendCachedMessage, recentMessages).
HistoryIsRecent ==
    \A c \in Conns : Welcomed(c) /\ ~deleted =>
        InHistory(c) = {m \in 1 .. since[c] : m + CacheSize > since[c]}

\* The messages of one connection are posted to every peer in the order in
\* which they were sent, each once (its next frame is handled after the
\* broadcast of the one before).  Two connections of one id run on their own.
SenderOrder ==
    \A c \in Conns : \A j, k \in Indices(c, {"msg"}) :
        j < k /\ log[c][j].from = log[c][k].from => log[c][j].msg < log[c][k].msg

\* Nothing of a connection is relayed after its departure was told: its arrival
\* and all it sent went before (onWsClose runs on the thread that ran
\* finalizeJoin and the relaying).  What still comes under its id then is of
\* another connection of the same token.
LeaveIsLast ==
    \A c \in Conns : \A k \in Indices(c, {"peer_leave"}) :
        \A j \in Indices(c, {"peer_join", "msg", "presence"}) :
            k < j => log[c][j].from # log[c][k].from

\* Arrivals and departures are told or in the member list: once every handler
\* is done, a peer that is still connected was sent a list with an id in it
\* or a peer_join of it if a connection of that id is there, and a peer_leave
\* of it if it was sent a list with the id in it and none is there (the peer
\* is marked before the list is copied, and broadcasts go to those marked).
MembersAreTold ==
    \A id \in IdMaps :
        LET told(c, p, type) == \E k \in Indices(c, {type}) : PeerId(id, log[c][k]) = p IN
        Settled => \A c \in Joined : Welcomed(c) => \A p \in Peers \ {id[c]} :
            IF p \in JoinedIds(id)
            THEN p \in MemberIds(id, Welcome(c)) \/ told(c, p, "peer_join")
            ELSE p \in MemberIds(id, Welcome(c)) => told(c, p, "peer_leave")

(* What the documentation says, and the code does not keep.                *)

\* README.md: the in-room id of a participant survives reloads.  Once every
\* handler is done, the last a peer heard of another's id is no departure
\* while a connection of that id is there (onWsClose announces the id of the
\* token, which the new connection of a reload has too).
LeaveMeansGone ==
    \A id \in IdMaps :
        Settled => \A c \in Joined : \A k \in Indices(c, {"peer_leave"}) :
            PeerId(id, log[c][k]) \in JoinedIds(id) \ {id[c]} =>
                \E j \in Indices(c, {"peer_join"}) :
                    k < j /\ PeerId(id, log[c][j]) = PeerId(id, log[c][k])

=============================================================================
