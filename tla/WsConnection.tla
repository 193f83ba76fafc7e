---------------------------- MODULE WsConnection ----------------------------
(***************************************************************************)
(* The life of the WebSocket connections of one room: the connection       *)
(* object of src/src/crowlib/crow/websocket.h (upgrade, writes, the two    *)
(* close frames, destruction), the io threads that run its callbacks, and  *)
(* the peer table of src/src/room.cpp, which keeps pointers to it.         *)
(*                                                                         *)
(* Every callback of a connection runs on its io thread, to its end;       *)
(* several connections share a thread.  Only the thread of a connection    *)
(* touches the object and its entry in the peer table, so a callback is    *)
(* one step up to the point where it has other connections to call: what   *)
(* is left of it then is calls[t], and the steps of other threads come in  *)
(* between.                                                                *)
(*                                                                         *)
(* send_text always queues a task on the io thread of the connection       *)
(* (asio::post).  close runs at once when it is called on that thread and  *)
(* is queued otherwise (asio::dispatch).  A queued task does nothing when  *)
(* the object is gone.                                                     *)
(***************************************************************************)
EXTENDS Naturals, Sequences, FiniteSets, SequencesExt

CONSTANTS
    Conns,      \* connections to the room
    IoThreads,  \* worker threads, each with its io_context
    Purger,     \* the purge thread, which has none
    MaxFrames   \* bound: data frames the clients send

ASSUME WsAssumption ==
    /\ IsFiniteSet(Conns)
    /\ Purger \notin IoThreads
    /\ MaxFrames \in Nat

VARIABLES
    io,         \* the io thread of each connection
    conn,       \* the connection objects
    peers,      \* the peer table: absent, open or joined
    calls,      \* what each thread has still to run
    tasks,      \* tasks queued on each io thread
    frames,     \* data frames the clients sent
    deleted     \* closeRoom has run

vars == <<io, conn, peers, calls, tasks, frames, deleted>>

Threads == IoThreads \cup {Purger}

\* The members of class Connection; told counts the peer_leave frames, stuck
\* marks a read loop that an exception ended.
Unopened ==
    [obj |-> "none", socket |-> "open", sentClose |-> FALSE, recvClose |-> FALSE,
     closing |-> FALSE, reading |-> FALSE, stuck |-> FALSE, sending |-> FALSE,
     queued |-> FALSE, userdata |-> TRUE, told |-> 0]

\* What a deleted object leaves: only what the properties ask of.
Freed(r) ==
    [Unopened EXCEPT !.obj = "freed", !.reading = r.reading, !.sending = r.sending,
                     !.userdata = r.userdata, !.told = r.told]

\* A call: send_text or close of a connection, a broadcast (to all or to the
\* others), or the end of a callback of the connection.  A frame is data or a
\* notice: the error of a refusal or the `deleted' of closeRoom.
Call(op, c) == [op |-> op, conn |-> c, frame |-> "data", all |-> TRUE]
SendText(c, frame) == [Call("send", c) EXCEPT !.frame = frame]
Broadcast(c, all) == [Call("cast", c) EXCEPT !.all = all]
CallType ==
    [op: {"send", "close", "cast", "answer", "destroy"}, conn: Conns,
     frame: {"data", "notice"}, all: BOOLEAN]

ConnType ==
    [obj: {"none", "alive", "freed"}, socket: {"open", "broken", "closed"},
     sentClose: BOOLEAN, recvClose: BOOLEAN, closing: BOOLEAN, reading: BOOLEAN,
     stuck: BOOLEAN, sending: BOOLEAN, queued: BOOLEAN, userdata: BOOLEAN, told: Nat]

TypeOK ==
    /\ io \in [Conns -> IoThreads]
    /\ conn \in [Conns -> ConnType]
    /\ peers \in [Conns -> {"absent", "open", "joined"}]
    /\ calls \in [Threads -> Seq(CallType)]
    /\ tasks \in [IoThreads -> Seq(CallType)]
    /\ frames \in 0 .. MaxFrames
    /\ deleted \in BOOLEAN

Init ==
    /\ io \in [Conns -> IoThreads]
    /\ conn = [c \in Conns |-> Unopened]
    /\ peers = [c \in Conns |-> "absent"]
    /\ calls = [t \in Threads |-> <<>>]
    /\ tasks = [t \in IoThreads |-> <<>>]
    /\ frames = 0
    /\ deleted = FALSE

----------------------------------------------------------------------------
(* Writing, closing and destroying.                                        *)

\* Mutant of Ready: the io_context of c is run by more than one thread.
ReadyAlways(c) == conn[c].obj = "alive"

\* The io thread of c is free to run a callback of c.
Ready(c) == conn[c].obj = "alive" /\ calls[io[c]] = <<>>

\* do_write: one batch of buffers is under way at a time.
DoWrite(r) == IF r.sending THEN r ELSE [r EXCEPT !.sending = r.queued, !.queued = FALSE]
Enqueue(r) == DoWrite([r EXCEPT !.queued = TRUE])

\* The body of close.  It calls the close handler if the client's close frame
\* is here and the handler was not called; only ReadClose meets that.
CloseBody(r) == Enqueue([r EXCEPT !.sentClose = TRUE])

\* Mutant of After: an outstanding read does not keep the object.
AfterReading(r, op) ==
    IF op = "answer" THEN [CloseBody(r) EXCEPT !.closing = TRUE, !.socket = "closed"]
    ELSE IF r.sending THEN r ELSE Freed(r)

\* How a callback ends once the close handler is done: the answer to the
\* client's close frame, after which do_read closes the socket, or the
\* delete of check_destroy, unless a read or a write is still out.
After(r, op) ==
    IF op = "answer" THEN [CloseBody(r) EXCEPT !.closing = TRUE, !.socket = "closed"]
    ELSE IF r.sending \/ r.reading THEN r ELSE Freed(r)

\* Mutant of Departs: the entry is not looked up.
DepartsAlways(c) == TRUE

\* onWsClose: a joined peer that is still in the table is announced.
Departs(c) == peers[c] = "joined"

\* The handlers onclose and onerror, in a callback that ends with `op': the
\* entry goes and the room id is freed; the others are told of a joined peer.
Leave(c, r, op) ==
    /\ peers' = [peers EXCEPT ![c] = "absent"]
    /\ LET left == [r EXCEPT !.userdata = FALSE] IN
       \/ /\ Departs(c)
          /\ conn' = [conn EXCEPT ![c] = [left EXCEPT !.told = @ + 1]]
          /\ calls' = [calls EXCEPT ![io[c]] = <<Broadcast(c, TRUE), Call(op, c)>>]
       \/ /\ ~Departs(c)
          /\ conn' = [conn EXCEPT ![c] = After(left, op)]
          /\ UNCHANGED calls

----------------------------------------------------------------------------
(* Callbacks: the upgrade, completed reads and completed writes.           *)

\* onaccept takes the room id, start writes the 101 response, onopen enters
\* the peer table, and the first read begins.
Open(c) ==
    /\ conn[c].obj = "none" /\ calls[io[c]] = <<>>
    /\ conn' = [conn EXCEPT ![c] = [Enqueue(Unopened) EXCEPT !.obj = "alive", !.reading = TRUE]]
    /\ peers' = [peers EXCEPT ![c] = "open"]
    /\ UNCHANGED <<io, calls, tasks, frames, deleted>>

\* A read completes with a data frame; the next read begins when the handler
\* returns.
Reads(c, entry) ==
    /\ Ready(c) /\ conn[c].reading /\ conn[c].socket = "open" /\ frames < MaxFrames
    /\ peers[c] = entry
    /\ frames' = frames + 1
    /\ UNCHANGED <<io, deleted>>

PostTo(c, frame) == tasks' = [tasks EXCEPT ![io[c]] = Append(@, SendText(c, frame))]

\* The payload is too large, or there is no entry (a failed write removed
\* it): the connection is closed without a word.
Rejects(c) ==
    /\ Reads(c, peers[c])
    /\ conn' = [conn EXCEPT ![c] = CloseBody(@)]
    /\ UNCHANGED <<peers, calls, tasks>>

\* finalizeJoin: `joined' to the peer, peer_join to the others.
Join(c) ==
    /\ Reads(c, "open")
    /\ peers' = [peers EXCEPT ![c] = "joined"]
    /\ PostTo(c, "data")
    /\ calls' = [calls EXCEPT ![io[c]] = <<Broadcast(c, FALSE)>>]
    /\ UNCHANGED conn

\* sendErrAndClose: the error is posted, the close runs at once.
Refuse(c) ==
    /\ Reads(c, "open")
    /\ PostTo(c, "notice")
    /\ conn' = [conn EXCEPT ![c] = CloseBody(@)]
    /\ UNCHANGED <<peers, calls>>

\* A joined peer's frame is relayed: a message to all, presence to others.
Relayed(c) ==
    /\ Reads(c, "joined")
    /\ \E all \in BOOLEAN : calls' = [calls EXCEPT ![io[c]] = <<Broadcast(c, all)>>]
    /\ UNCHANGED <<conn, peers, tasks>>

\* A frame is answered: a challenge, a pong, sendErr.
Answered(c) ==
    /\ peers[c] # "absent" /\ Reads(c, peers[c])
    /\ PostTo(c, "data")
    /\ UNCHANGED <<conn, peers, calls>>

\* The handler throws (the type of the frame is no string): the exception
\* leaves the callback, the worker logs it and goes on, nothing reads again.
Throws(c) ==
    /\ peers[c] # "absent" /\ Reads(c, peers[c])
    /\ conn' = [conn EXCEPT ![c].reading = FALSE, ![c].stuck = TRUE]
    /\ UNCHANGED <<peers, calls, tasks>>

\* A read completes with the client's close frame (handle_fragment).
ReadClose(c) ==
    /\ Ready(c) /\ conn[c].reading /\ conn[c].socket = "open"
    /\ LET r == [conn[c] EXCEPT !.reading = FALSE, !.recvClose = TRUE] IN
       \/ ~r.sentClose /\ Leave(c, r, "answer")
       \/ r.sentClose /\ Leave(c, [r EXCEPT !.closing = TRUE, !.socket = "closed"], "destroy")
    /\ UNCHANGED <<io, tasks, frames, deleted>>

\* A read fails: the client is gone, or this side closed the socket.
ReadFails(c) ==
    /\ Ready(c) /\ conn[c].reading
    /\ Leave(c, [conn[c] EXCEPT !.reading = FALSE, !.closing = TRUE, !.socket = "closed"], "destroy")
    /\ UNCHANGED <<io, tasks, frames, deleted>>

\* A write completes and the connection goes on: the buffers that came
\* meanwhile are next; after a close frame the next completion is the last.
WriteDone(c) ==
    /\ Ready(c) /\ conn[c].sending /\ conn[c].socket = "open" /\ ~conn[c].closing
    /\ conn' = [conn EXCEPT ![c] =
          DoWrite([@ EXCEPT !.sending = FALSE, !.closing = conn[c].sentClose])]
    /\ UNCHANGED <<io, peers, calls, tasks, frames, deleted>>

\* Mutant of WriteLast: the close handler is not called.
WriteLastSilent(c) ==
    /\ Ready(c) /\ conn[c].sending
    /\ LET r == [conn[c] EXCEPT !.sending = FALSE, !.closing = TRUE] IN
       \/ r.socket = "open" /\ conn[c].closing /\ conn' = [conn EXCEPT ![c] = After(r, "destroy")]
       \/ r.socket = "closed" /\ conn' = [conn EXCEPT ![c] = After(r, "destroy")]
       \/ r.socket # "closed"
          /\ conn' = [conn EXCEPT ![c] = After([r EXCEPT !.socket = "broken"], "destroy")]
    /\ UNCHANGED <<io, peers, calls, tasks, frames, deleted>>

\* A write completes after the close frame, is aborted because the socket
\* was closed, or fails because the client is gone: check_destroy.
WriteLast(c) ==
    /\ Ready(c) /\ conn[c].sending
    /\ LET r == [conn[c] EXCEPT !.sending = FALSE, !.closing = TRUE] IN
       \/ r.socket = "open" /\ conn[c].closing /\ Leave(c, r, "destroy")
       \/ r.socket = "closed" /\ Leave(c, r, "destroy")
       \/ r.socket # "closed" /\ Leave(c, [r EXCEPT !.socket = "broken"], "destroy")
    /\ UNCHANGED <<io, tasks, frames, deleted>>

\* The io thread takes its next task; the anchor of a destroyed connection
\* cannot be locked.
RunTask(t) ==
    /\ calls[t] = <<>> /\ tasks[t] # <<>>
    /\ tasks' = [tasks EXCEPT ![t] = Tail(@)]
    /\ LET task == Head(tasks[t]) IN
       \/ conn[task.conn].obj # "alive" /\ UNCHANGED conn
       \/ /\ conn[task.conn].obj = "alive"
          /\ conn' = [conn EXCEPT ![task.conn] =
                IF task.op = "close" THEN CloseBody(@) ELSE Enqueue(@)]
    /\ UNCHANGED <<io, peers, calls, frames, deleted>>

----------------------------------------------------------------------------
(* What a callback has left to call.                                       *)

Runs(t, op) == calls[t] # <<>> /\ Head(calls[t]).op = op
Then(t, more) == calls' = [calls EXCEPT ![t] = more \o Tail(@)]

\* broadcast: under the mutex, the joined connections, less the exception;
\* then a send to each, in the order of a hash set.
RunCast(t) ==
    /\ Runs(t, "cast")
    /\ LET k == Head(calls[t]) IN
       \E order \in SetToSeqs({d \in Conns : peers[d] = "joined" /\ (k.all \/ d # k.conn)}) :
          Then(t, [i \in DOMAIN order |-> SendText(order[i], "data")])
    /\ UNCHANGED <<io, conn, peers, tasks, frames, deleted>>

\* Queue a task on the io thread of the connection that the call names.  On
\* a destroyed object the call is undefined, and no other peer sees it.
Queue(t) ==
    LET k == Head(calls[t]) IN
    tasks' = IF conn[k.conn].obj = "alive"
             THEN [tasks EXCEPT ![io[k.conn]] = Append(@, k)] ELSE tasks

\* connection::send_text: post.
RunSend(t) ==
    /\ Runs(t, "send")
    /\ Queue(t)
    /\ Then(t, <<>>)
    /\ UNCHANGED <<io, conn, peers, frames, deleted>>

\* Connection::close: dispatch, at once on the thread of the connection.
RunClose(t) ==
    /\ Runs(t, "close")
    /\ LET c == Head(calls[t]).conn IN
       \/ io[c] = t /\ conn' = [conn EXCEPT ![c] = CloseBody(@)] /\ UNCHANGED tasks
       \/ io[c] # t /\ Queue(t) /\ UNCHANGED conn
    /\ Then(t, <<>>)
    /\ UNCHANGED <<io, peers, frames, deleted>>

\* The rest of the callback that called the close handler.
RunEnd(t) ==
    /\ Runs(t, "answer") \/ Runs(t, "destroy")
    /\ conn' = [conn EXCEPT ![Head(calls[t]).conn] = After(@, Head(calls[t]).op)]
    /\ Then(t, <<>>)
    /\ UNCHANGED <<io, peers, tasks, frames, deleted>>

\* Two calls for each connection: `deleted' is sent to it, and it is closed.
NoticeAndClose(order) ==
    [i \in 1 .. 2 * Len(order) |->
        LET c == order[(i + 1) \div 2] IN
        IF i % 2 = 1 THEN SendText(c, "notice") ELSE Call("close", c)]

\* closeRoom, for a DELETE on an io thread or on the purge thread: under the
\* mutex, the connections of the room; then they are notified and closed.
CloseRoom(t) ==
    /\ ~deleted /\ calls[t] = <<>>
    /\ deleted' = TRUE
    /\ \E order \in SetToSeqs({c \in Conns : peers[c] # "absent"}) :
          calls' = [calls EXCEPT ![t] = NoticeAndClose(order)]
    /\ UNCHANGED <<io, conn, peers, tasks, frames>>

----------------------------------------------------------------------------

Callback(c) ==
    \/ Open(c) \/ Rejects(c) \/ Join(c) \/ Refuse(c) \/ Relayed(c) \/ Answered(c) \/ Throws(c)
    \/ ReadClose(c) \/ ReadFails(c) \/ WriteDone(c) \/ WriteLast(c)

Step(t) == RunCast(t) \/ RunSend(t) \/ RunClose(t) \/ RunEnd(t)

Next ==
    \/ \E c \in Conns : Callback(c)
    \/ \E t \in IoThreads : RunTask(t)
    \/ \E t \in Threads : Step(t) \/ CloseRoom(t)

Spec == Init /\ [][Next]_vars

----------------------------------------------------------------------------
(* Properties.                                                             *)

\* No completion comes for a connection that is gone: while a read or a
\* write of it is out, the object lives, whichever of the two failed first
\* and whoever asked for the close (check_destroy).
PendingKeepsAlive ==
    \A c \in Conns : conn[c].obj = "freed" => ~conn[c].reading /\ ~conn[c].sending

\* Whatever a thread has still to call on connections of its own is called
\* on live objects: a list taken under the lock cannot go stale by what the
\* same thread does (one thread runs an io_context, one callback at a time).
OwnCallsReachLive ==
    \A t \in IoThreads : \A k \in DOMAIN calls[t] :
        io[calls[t][k].conn] = t => conn[calls[t][k].conn].obj = "alive"

\* However often Crow calls onclose and onerror for a connection, its
\* departure is announced once (onWsClose).
LeavesOnce == \A c \in Conns : conn[c].told <= 1

\* A destroyed connection is in no table, so a later broadcast cannot find
\* it, and its room id is freed (check_destroy calls the handler).
FreedIsForgotten ==
    \A c \in Conns : conn[c].obj = "freed" => peers[c] = "absent" /\ ~conn[c].userdata

=============================================================================
