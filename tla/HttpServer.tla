----------------------------- MODULE HttpServer -----------------------------
(***************************************************************************)
(* The process around the handlers: main of src/src/main.cpp from start to *)
(* exit, the server of src/src/crowlib/crow/http_server.h with its worker  *)
(* threads, the HTTP connections of http_connection.h, and the deadlines   *)
(* that task_timer.h keeps for the connections of one worker.              *)
(*                                                                         *)
(* A request is what one completed read brings: the handlers of this       *)
(* program answer before they return, so a read, the parsing, the handler  *)
(* and the response are one callback.  The response is written with a      *)
(* blocking write, which holds the worker until the client has read enough *)
(* of it or is gone.  What a segment of bytes means is HttpParser's        *)
(* business; here it continues the connection, ends it or hands its socket *)
(* to a WebSocket connection (WsConnection).                               *)
(***************************************************************************)
EXTENDS Naturals, FiniteSets, FiniteSetsExt

CONSTANTS
    Conns,      \* TCP connections
    NWorkers,   \* concurrency - 1
    Timeout,    \* ticks a connection may be idle (5 in the program)
    MaxTime,    \* bound: ticks of the clock
    MaxId       \* bound: identifiers a timer hands out in a row

ASSUME HttpAssumption ==
    NWorkers \in Nat \ {0} /\ Timeout \in Nat /\ MaxTime \in Nat /\ MaxId \in Nat

Workers == 1 .. NWorkers

VARIABLES
    main,       \* where main is
    worker,     \* the worker threads
    purger,     \* the purge thread
    stopped,    \* io_contexts that stop has stopped; 0 is the acceptor's
    quit,       \* stopPurger
    asked,      \* history: a signal came once the pool was there
    conn,       \* HTTP connections
    tasks,      \* task_timer::tasks_ of each worker
    highest,    \* task_timer::highest_id_ of each worker
    queue,      \* task_queue_length_pool_
    pending,    \* the worker of the connection that is next accepted, 0 for none
    now         \* the clock

procVars == <<main, worker, purger, stopped, quit, asked>>
connVars == <<conn, tasks, highest, queue, pending, now>>
vars == <<procVars, connVars>>

MainAt == {"start", "installed", "built", "pooled", "serving", "returned", "exited",
           "killed", "hung"}

NoConn == [at |-> "none", open |-> FALSE, io |-> 0, id |-> 0, seen |-> 0]

Task == [id: Nat, conn: Conns, due: Nat]
Connection == [at: {"none", "queued", "reading", "writing", "gone"}, open: BOOLEAN, io: 0 .. NWorkers,
               id: Nat, seen: 0 .. MaxTime]

TypeOK ==
    /\ main \in MainAt
    /\ worker \in [Workers -> {"off", "on", "over"}]
    /\ purger \in {"off", "on", "over"}
    /\ stopped \subseteq Workers \cup {0}
    /\ quit \in BOOLEAN /\ asked \in BOOLEAN
    /\ conn \in [Conns -> Connection]
    /\ tasks \in [Workers -> SUBSET Task]
    /\ highest \in [Workers -> Nat]
    /\ queue \in [Workers -> Nat]
    /\ pending \in 0 .. NWorkers
    /\ now \in 0 .. MaxTime

Init ==
    /\ main = "start"
    /\ worker = [w \in Workers |-> "off"]
    /\ purger = "off"
    /\ stopped = {} /\ quit = FALSE /\ asked = FALSE
    /\ conn = [c \in Conns |-> NoConn]
    /\ tasks = [w \in Workers |-> {}]
    /\ highest = [w \in Workers |-> 0]
    /\ queue = [w \in Workers |-> 0]
    /\ pending = 0
    /\ now = 0

----------------------------------------------------------------------------
(* The process.                                                            *)

\* main: configuration and database are fine; the signal handlers and the
\* purge thread are there, api.run() is next.
Install ==
    /\ main = "start"
    /\ main' = "installed" /\ purger' = "on"
    /\ UNCHANGED <<worker, stopped, quit, asked, connVars>>

\* main: a configuration or a database that cannot be opened ends it.
InstallFails ==
    /\ main = "start"
    /\ main' = "exited" /\ purger' = "over"
    /\ worker' = [w \in Workers |-> "over"]
    /\ UNCHANGED <<stopped, quit, asked, connVars>>

\* Crow::run: the server is constructed.  A bind address that is no address
\* makes it return; a port in use throws, and nothing joins the purge thread.
Construct ==
    /\ main = "installed"
    /\ \/ main' = "built" /\ UNCHANGED worker
       \/ main' = "returned" /\ worker' = [w \in Workers |-> "over"]
       \/ main' = "killed" /\ UNCHANGED worker
    /\ UNCHANGED <<purger, stopped, quit, asked, connVars>>

\* Server::run: the io_contexts, the workers and their timers.
MakePool ==
    /\ main = "built"
    /\ main' = "pooled"
    /\ worker' = [w \in Workers |-> "on"]
    /\ UNCHANGED <<purger, stopped, quit, asked, connVars>>

\* The first worker with the shortest queue.
PickIoContextIdx(q) == Min({w \in Workers : \A v \in Workers : q[w] <= q[v]})

\* do_accept: the worker is chosen and its queue counted before a client is
\* there.  Nothing but a failed accept takes the count back.
DoAccept(q) ==
    IF 0 \in stopped THEN pending' = 0 /\ queue' = q
    ELSE LET w == PickIoContextIdx(q) IN pending' = w /\ queue' = [q EXCEPT ![w] = @ + 1]

Serve ==
    /\ main = "pooled"
    /\ main' = "serving"
    /\ DoAccept(queue)
    /\ UNCHANGED <<worker, purger, stopped, quit, asked, conn, tasks, highest, now>>

\* Mutant of StopServer: the workers' io_contexts are not stopped.
StopServerOnly(made) == stopped' = stopped \cup {0}

\* Server::stop: the io_contexts made so far, and the acceptor's.
StopServer(made) == stopped' = stopped \cup made \cup {0}

\* onSignal, on the thread of main: the kernel gives it the signals of the
\* process.  Before it is installed the default action ends the process, and
\* without a server there is nothing to stop.  App::stop closes what is in
\* websockets_ first; that is always empty, as nothing calls add_websocket.
\* What follows may interrupt Server::run while it makes the pool, and logs
\* and locks: where it finds main within an allocation, both hang.
Signal ==
    /\ \/ main = "start" /\ main' = "killed" /\ UNCHANGED <<stopped, asked>>
       \/ main = "installed" /\ UNCHANGED <<main, stopped, asked>>
       \/ /\ main = "built"
          /\ \E n \in 0 .. NWorkers : StopServer(1 .. n)
          /\ UNCHANGED <<main, asked>>
       \/ /\ main \in {"pooled", "serving", "returned"}
          /\ StopServer(Workers)
          /\ asked' = TRUE
          /\ UNCHANGED main
       \/ /\ main \in {"built", "pooled", "returned"}
          /\ main' = "hung"
          /\ UNCHANGED <<stopped, asked>>
    /\ UNCHANGED <<worker, purger, quit, connVars>>

\* A worker is within a write of one of its connections.
Busy(w) == \E c \in Conns : conn[c].at = "writing" /\ conn[c].io = w

\* The loop of a worker: run() returns 0 once the io_context is stopped and the
\* callback that runs is done; an exception of a callback is logged and the
\* loop goes on.
WorkerEnds(w) ==
    /\ worker[w] = "on" /\ w \in stopped /\ ~Busy(w)
    /\ worker' = [worker EXCEPT ![w] = "over"]
    /\ UNCHANGED <<main, purger, stopped, quit, asked, connVars>>

\* Mutant of RunReturns: the workers are not waited for.
RunReturnsEarly ==
    /\ main = "serving" /\ 0 \in stopped
    /\ main' = "returned"
    /\ UNCHANGED <<worker, purger, stopped, quit, asked, connVars>>

\* Server::run returns when the acceptor's io_context is stopped and the
\* futures of the workers are done.
RunReturns ==
    /\ main = "serving" /\ 0 \in stopped
    /\ \A w \in Workers : worker[w] = "over"
    /\ main' = "returned"
    /\ UNCHANGED <<worker, purger, stopped, quit, asked, connVars>>

\* main after api.run(): the purge thread is told to stop, and joined.
StopPurger ==
    /\ main = "returned" /\ ~quit
    /\ quit' = TRUE
    /\ UNCHANGED <<main, worker, purger, stopped, asked, connVars>>

PurgerEnds ==
    /\ purger = "on" /\ quit
    /\ purger' = "over"
    /\ UNCHANGED <<main, worker, stopped, quit, asked, connVars>>

Exit ==
    /\ main = "returned" /\ quit /\ purger = "over"
    /\ main' = "exited"
    /\ UNCHANGED <<worker, purger, stopped, quit, asked, connVars>>

----------------------------------------------------------------------------
(* Connections and their deadlines.                                        *)

\* A worker runs callbacks; a further read of c is within the bound.
Runs(w) == worker[w] = "on" /\ w \notin stopped /\ ~Busy(w)
MayRead(c) == highest[conn[c].io] < MaxId

\* task_timer::cancel erases whatever has the identifier.
Cancel(k, id) == {x \in k : x.id # id}

\* Mutant of StartDeadline: the old deadline is not cancelled.
StartDeadlineOnly(c) ==
    LET w == conn[c].io  id == highest[w] + 1 IN
    /\ tasks' = [tasks EXCEPT ![w] = @ \cup {[id |-> id, conn |-> c, due |-> now + Timeout]}]
    /\ highest' = [highest EXCEPT ![w] = id]
    /\ conn' = [conn EXCEPT ![c].id = id, ![c].at = "reading", ![c].seen = now]

\* start_deadline, then the next read.
StartDeadline(c) ==
    LET w == conn[c].io  id == highest[w] + 1 IN
    /\ tasks' = [tasks EXCEPT ![w] =
          Cancel(@, conn[c].id) \cup {[id |-> id, conn |-> c, due |-> now + Timeout]}]
    /\ highest' = [highest EXCEPT ![w] = id]
    /\ conn' = [conn EXCEPT ![c].id = id, ![c].at = "reading", ![c].seen = now]

\* Mutant of EndRead: the deadline keeps the connection.
EndReadOnly(c) ==
    /\ UNCHANGED tasks
    /\ conn' = [conn EXCEPT ![c].at = "gone", ![c].open = FALSE]

\* cancel_deadline_timer and no further read: with the last reference the
\* connection and its socket go.
EndRead(c) ==
    /\ tasks' = [tasks EXCEPT ![conn[c].io] = Cancel(@, conn[c].id)]
    /\ conn' = [conn EXCEPT ![c].at = "gone", ![c].open = FALSE]

\* async_accept completes: the connection is posted to its worker.
Accept(c) ==
    /\ main = "serving" /\ 0 \notin stopped /\ conn[c].at = "none"
    /\ conn' = [conn EXCEPT ![c] = [NoConn EXCEPT !.at = "queued", !.open = TRUE, !.io = pending]]
    /\ DoAccept(queue)
    /\ UNCHANGED <<procVars, tasks, highest, now>>

AcceptFails ==
    /\ main = "serving" /\ 0 \notin stopped
    /\ DoAccept([queue EXCEPT ![pending] = @ - 1])
    /\ UNCHANGED <<procVars, conn, tasks, highest, now>>

\* Connection::start.
Start(c) ==
    /\ conn[c].at = "queued" /\ Runs(conn[c].io) /\ MayRead(c)
    /\ StartDeadline(c)
    /\ UNCHANGED <<procVars, queue, pending, now>>

\* The read of an open socket completes, or what it brought is answered at last.
Reads(c) == conn[c].at = "reading" /\ conn[c].open /\ Runs(conn[c].io)
Proceeds(c) == Reads(c) \/ conn[c].at = "writing"

\* A read completes with a request (or `Expect: 100-continue') whose answer the
\* socket does not take at once: do_write_sync.  The worker's timer waits too,
\* so it is the same whether handle has cancelled the deadline by now.
WriteBlocks(c) ==
    /\ Reads(c)
    /\ conn' = [conn EXCEPT ![c].at = "writing"]
    /\ UNCHANGED <<procVars, tasks, highest, queue, pending, now>>

\* A read completes with a part of a request, or with a request whose answer,
\* once written, keeps the connection: handle cancels the deadline, do_read
\* sets it anew.
Continue(c) ==
    /\ Proceeds(c) /\ MayRead(c)
    /\ StartDeadline(c)
    /\ UNCHANGED <<procVars, queue, pending, now>>

\* A read completes with the last request (Connection: close, HTTP/1.0), no
\* request (a parse error), one without a route, which is answered and ends
\* the connection, an upgrade, which moves the socket away, or a write that
\* throws; or the client is gone.
Finish(c) ==
    /\ Proceeds(c)
    /\ EndRead(c)
    /\ UNCHANGED <<procVars, highest, queue, pending, now>>

\* The read of a socket that the deadline closed completes with an error.
Aborted(c) ==
    /\ conn[c].at = "reading" /\ ~conn[c].open /\ Runs(conn[c].io)
    /\ EndRead(c)
    /\ UNCHANGED <<procVars, highest, queue, pending, now>>

\* tick_handler: the deadlines that passed close their sockets; with no task
\* left the identifiers begin again at 1.
Tick(w) ==
    LET late == {k \in tasks[w] : k.due < now}
        left == tasks[w] \ late
        hit  == {k.conn : k \in late}
    IN
    /\ Runs(w)
    /\ late # {} \/ (tasks[w] = {} /\ highest[w] # 0)
    /\ conn' = [c \in Conns |-> IF c \in hit THEN [conn[c] EXCEPT !.open = FALSE] ELSE conn[c]]
    /\ tasks' = [tasks EXCEPT ![w] = left]
    /\ highest' = [highest EXCEPT ![w] = IF left = {} THEN 0 ELSE @]
    /\ UNCHANGED <<procVars, queue, pending, now>>

Clock ==
    /\ now < MaxTime
    /\ now' = now + 1
    /\ UNCHANGED <<procVars, conn, tasks, highest, queue, pending>>

----------------------------------------------------------------------------

Process ==
    \/ Install \/ InstallFails \/ Construct \/ MakePool \/ Serve
    \/ RunReturns \/ StopPurger \/ Exit

Next ==
    \/ Process \/ Signal \/ PurgerEnds \/ AcceptFails \/ Clock
    \/ \E w \in Workers : WorkerEnds(w) \/ Tick(w)
    \/ \E c \in Conns : \/ Accept(c) \/ Start(c) \/ Aborted(c)
                      \/ WriteBlocks(c) \/ Continue(c) \/ Finish(c)

\* The threads of the process run.  Signals, clients and time are not owed, and
\* neither is the end of a write.
Fairness ==
    /\ WF_vars(Process) /\ WF_vars(PurgerEnds)
    /\ \A w \in Workers : WF_vars(WorkerEnds(w))

Spec == Init /\ [][Next]_vars /\ Fairness

----------------------------------------------------------------------------
(* Properties.                                                             *)

\* A deadline closes no connection that was heard of since it was set: every
\* deadline scheduled is the last its connection asked for, whatever other
\* connections do with the identifiers that begin again.
DeadlinesAreCurrent ==
    \A w \in Workers : \A k \in tasks[w] :
        conn[k.conn].id = k.id /\ k.due = conn[k.conn].seen + Timeout

\* The timer keeps no connection alive that has ended: with the read its
\* deadline is gone too, and with it the last reference.
EndedIsReleased ==
    \A w \in Workers : \A k \in tasks[w] : conn[k.conn].at \in {"reading", "writing"}

\* The database, the peer table and the WebAPI object are locals of main: no
\* thread that uses them runs when main returns, whichever way it came there.
NothingOutlivesMain ==
    main = "exited" => purger # "on" /\ \A w \in Workers : worker[w] # "on"

\* If no client holds up a write for ever, a signal that finds the workers'
\* pool ends the process: callbacks are finished, run returns, the purge
\* thread is joined (onSignal, Server::stop, Server::run).  A further signal
\* may find main within an allocation.
SignalEnds ==
    (\A w \in Workers : []<>~Busy(w)) => (asked ~> main \in {"exited", "hung"})

=============================================================================
