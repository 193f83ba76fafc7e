-------------------------- MODULE HttpServerProofs --------------------------
(***************************************************************************)
(* Proofs about HttpServer for any number of connections and workers, any  *)
(* timeout and any bounds on the clock and on identifiers.                 *)
(***************************************************************************)
EXTENDS HttpServer, WellFoundedInduction, TLAPS

\* What main has passed decides which threads may still run.
ThreadInv ==
    /\ main \in {"returned", "exited"} => \A w \in Workers : worker[w] = "over"
    /\ main = "exited" => purger = "over"

\* While connections are accepted there is a worker for the next one, whose
\* place in its queue is taken already; a connection has the worker it got.
QueueInv ==
    /\ main = "serving" /\ 0 \notin stopped => pending # 0
    /\ pending # 0 => queue[pending] # 0
    /\ \A c \in Conns : conn[c].at # "none" => conn[c].io # 0

\* A deadline is in the timer of its connection's worker.
TimerInv ==
    /\ DeadlinesAreCurrent
    /\ EndedIsReleased
    /\ \A w \in Workers : \A k \in tasks[w] : conn[k.conn].io = w

----------------------------------------------------------------------------
(* The worker that is chosen for a connection.                             *)

LEMMA LeastNumber ==
    ASSUME NEW S \in SUBSET Nat, S # {}
    PROVE  \E x \in S : \A y \in S : x <= y
  <1>1. PICK x \in S : \A y \in S : ~ (<<y, x>> \in OpToRel(<, Nat))
    BY NatLessThanWellFounded, WFMin
  <1>2. x \in Nat /\ \A y \in S : y \in Nat /\ ~ (y < x)
    BY <1>1 DEF OpToRel
  <1>3. \A y \in S : x <= y
    BY <1>2
  <1> QED
    BY <1>3

LEMMA PickedIsAWorker ==
    ASSUME NEW q \in [Workers -> Nat]
    PROVE  PickIoContextIdx(q) \in Workers
  <1> DEFINE Best == {w \in Workers : \A v \in Workers : q[w] <= q[v]}
  <1>1. 1 \in Workers
    BY HttpAssumption DEF Workers
  <1>2. {q[w] : w \in Workers} \in SUBSET Nat /\ {q[w] : w \in Workers} # {}
    BY <1>1
  <1>3. PICK n \in {q[w] : w \in Workers} : \A m \in {q[w] : w \in Workers} : n <= m
    BY <1>2, LeastNumber
  <1>4. Best \in SUBSET Nat /\ Best # {}
    BY <1>3 DEF Workers
  <1>5. \E x \in Best : \A y \in Best : x <= y
    BY <1>4, LeastNumber
  <1>6. Min(Best) \in Best
    BY <1>5 DEF Min
  <1> QED
    BY <1>6 DEF PickIoContextIdx

----------------------------------------------------------------------------
(* Type correctness, and what an accepted connection finds.                *)

LEMMA InitTypes == Init => TypeOK /\ ThreadInv /\ QueueInv /\ TimerInv
  <1> SUFFICES ASSUME Init PROVE TypeOK /\ ThreadInv /\ QueueInv /\ TimerInv
    OBVIOUS
  <1>1. tasks \in [Workers -> SUBSET Task] /\ \A w \in Workers : tasks[w] = {}
    BY DEF Init
  <1>2. NoConn \in Connection
    BY HttpAssumption DEF NoConn, Connection
  <1>3. conn \in [Conns -> Connection] /\ 0 \in 0 .. NWorkers /\ 0 \in 0 .. MaxTime
    BY <1>2, HttpAssumption DEF Init
  <1>4. TypeOK
    BY <1>1, <1>3 DEF Init, TypeOK, MainAt
  <1> QED
    BY <1>1, <1>4
       DEF Init, NoConn, ThreadInv, QueueInv, TimerInv, DeadlinesAreCurrent, EndedIsReleased

\* The next connection's worker is counted before the connection is there.
LEMMA AcceptNext ==
    ASSUME TypeOK, NEW q \in [Workers -> Nat], DoAccept(q)
    PROVE  /\ pending' \in 0 .. NWorkers
           /\ queue' \in [Workers -> Nat]
           /\ pending' # 0 => queue'[pending'] # 0
           /\ 0 \notin stopped => pending' # 0
  <1>1. PickIoContextIdx(q) \in Workers
    BY PickedIsAWorker
  <1>2. CASE 0 \in stopped
    BY <1>2, HttpAssumption DEF DoAccept
  <1>3. CASE 0 \notin stopped
    BY <1>1, <1>3, HttpAssumption DEF DoAccept, Workers
  <1> QED
    BY <1>2, <1>3

\* A failed accept takes back the count it made.
LEMMA CountTakenBack ==
    ASSUME TypeOK, QueueInv, main = "serving", 0 \notin stopped
    PROVE  [queue EXCEPT ![pending] = @ - 1] \in [Workers -> Nat]
  <1>1. pending \in Workers /\ queue[pending] \in Nat /\ queue[pending] # 0
    <2>1. pending \in 0 .. NWorkers /\ pending # 0 /\ queue \in [Workers -> Nat]
      BY DEF TypeOK, QueueInv
    <2>2. queue[pending] # 0
      BY <2>1 DEF QueueInv
    <2> QED
      BY <2>1, <2>2, HttpAssumption DEF Workers
  <1>2. queue[pending] - 1 \in Nat /\ queue \in [Workers -> Nat]
    BY <1>1 DEF TypeOK
  <1> QED
    BY <1>1, <1>2

\* What a step writes into a connection keeps its type.
LEMMA ConnectionUpdates ==
    ASSUME TypeOK, NEW c \in Conns
    PROVE  /\ \A n \in Nat :
                  LET new == [conn EXCEPT ![c].id = n, ![c].at = "reading", ![c].seen = now]
                  IN  new \in [Conns -> Connection] /\ \A d \in Conns : new[d].io = conn[d].io
           /\ LET new == [conn EXCEPT ![c].at = "gone", ![c].open = FALSE]
              IN  new \in [Conns -> Connection] /\ \A d \in Conns : new[d].io = conn[d].io
           /\ \A w \in 0 .. NWorkers :
                  [conn EXCEPT ![c] = [NoConn EXCEPT !.at = "queued", !.open = TRUE, !.io = w]]
                      \in [Conns -> Connection]
  <1>1. conn \in [Conns -> Connection] /\ now \in 0 .. MaxTime
    BY DEF TypeOK
  <1>2. \A n \in Nat : [conn[c] EXCEPT !.id = n, !.at = "reading", !.seen = now] \in Connection
    BY <1>1 DEF Connection
  <1>3. [conn[c] EXCEPT !.at = "gone", !.open = FALSE] \in Connection
    BY <1>1 DEF Connection
  <1>4. \A w \in 0 .. NWorkers :
            [NoConn EXCEPT !.at = "queued", !.open = TRUE, !.io = w] \in Connection
    <2>1. 0 \in 0 .. MaxTime /\ 0 \in Nat
      BY HttpAssumption
    <2> QED
      BY <2>1 DEF Connection, NoConn
  <1>5. ASSUME NEW n \in Nat
        PROVE  LET new == [conn EXCEPT ![c].id = n, ![c].at = "reading", ![c].seen = now]
               IN  new \in [Conns -> Connection] /\ \A d \in Conns : new[d].io = conn[d].io
    <2> DEFINE one == [conn[c] EXCEPT !.id = n, !.at = "reading", !.seen = now]
    <2>1. one \in Connection /\ one.io = conn[c].io
      BY <1>1, <1>2 DEF Connection
    <2> HIDE DEF one
    <2>2. [conn EXCEPT ![c] = one] \in [Conns -> Connection]
      BY <1>1, <2>1
    <2>3. \A d \in Conns : [conn EXCEPT ![c] = one][d].io = conn[d].io
      BY <1>1, <2>1
    <2>4. [conn EXCEPT ![c].id = n, ![c].at = "reading", ![c].seen = now] = [conn EXCEPT ![c] = one]
      BY <1>1 DEF one, Connection
    <2> QED
      BY <2>2, <2>3, <2>4
  <1>6. LET new == [conn EXCEPT ![c].at = "gone", ![c].open = FALSE]
        IN  new \in [Conns -> Connection] /\ \A d \in Conns : new[d].io = conn[d].io
    <2> DEFINE one == [conn[c] EXCEPT !.at = "gone", !.open = FALSE]
    <2>1. one \in Connection /\ one.io = conn[c].io
      BY <1>1, <1>3 DEF Connection
    <2> HIDE DEF one
    <2>2. [conn EXCEPT ![c] = one] \in [Conns -> Connection]
      BY <1>1, <2>1
    <2>3. \A d \in Conns : [conn EXCEPT ![c] = one][d].io = conn[d].io
      BY <1>1, <2>1
    <2>4. [conn EXCEPT ![c].at = "gone", ![c].open = FALSE] = [conn EXCEPT ![c] = one]
      BY <1>1 DEF one, Connection
    <2> QED
      BY <2>2, <2>3, <2>4
  <1> QED
    BY <1>1, <1>4, <1>5, <1>6

\* A step that starts a deadline, or ends one, keeps the types of the timers.
LEMMA StartTypes ==
    ASSUME TypeOK, QueueInv, NEW c \in Conns, conn[c].at # "none", StartDeadline(c)
    PROVE  /\ tasks' \in [Workers -> SUBSET Task]
           /\ highest' \in [Workers -> Nat]
           /\ conn' = [conn EXCEPT ![c].id = highest'[conn[c].io], ![c].at = "reading",
                                   ![c].seen = now]
           /\ highest'[conn[c].io] \in Nat
  <1> DEFINE w == conn[c].io
             new == [id |-> highest[w] + 1, conn |-> c, due |-> now + Timeout]
  <1>1. w \in Workers /\ highest[w] + 1 \in Nat /\ now + Timeout \in Nat
    BY HttpAssumption DEF TypeOK, QueueInv, Workers, Connection
  <1>2. new \in Task
    BY <1>1 DEF Task
  <1>3. tasks[w] \in SUBSET Task
    BY <1>1 DEF TypeOK
  <1>4. Cancel(tasks[w], conn[c].id) \cup {new} \in SUBSET Task
    BY <1>2, <1>3 DEF Cancel
  <1>5. tasks' = [tasks EXCEPT ![w] = Cancel(tasks[w], conn[c].id) \cup {new}]
    BY DEF StartDeadline
  <1>6. tasks' \in [Workers -> SUBSET Task]
    BY <1>4, <1>5 DEF TypeOK
  <1>7. highest' = [highest EXCEPT ![w] = highest[w] + 1]
    BY DEF StartDeadline
  <1>8. highest' \in [Workers -> Nat] /\ highest'[w] = highest[w] + 1
    BY <1>1, <1>7 DEF TypeOK
  <1>9. conn' = [conn EXCEPT ![c].id = highest[w] + 1, ![c].at = "reading", ![c].seen = now]
    BY DEF StartDeadline
  <1> QED
    BY <1>1, <1>6, <1>8, <1>9

LEMMA EndTypes ==
    ASSUME TypeOK, QueueInv, NEW c \in Conns, conn[c].at # "none", EndRead(c)
    PROVE  tasks' \in [Workers -> SUBSET Task]
  <1> DEFINE w == conn[c].io
  <1>1. w \in Workers
    BY DEF TypeOK, QueueInv, Workers, Connection
  <1>2. Cancel(tasks[w], conn[c].id) \in SUBSET Task
    BY <1>1 DEF Cancel, TypeOK
  <1>3. tasks' = [tasks EXCEPT ![w] = Cancel(tasks[w], conn[c].id)]
    BY DEF EndRead
  <1> QED
    BY <1>2, <1>3 DEF TypeOK

\* No step leaves the types or forgets a worker.
LEMMA StepTypes ==
    ASSUME TypeOK, QueueInv, [Next]_vars
    PROVE  TypeOK' /\ QueueInv'
  <1> USE DEF TypeOK, QueueInv, procVars, connVars
  <1>1. CASE Install \/ InstallFails \/ Construct \/ MakePool \/ StopPurger \/ Exit
    BY <1>1 DEF Install, InstallFails, Construct, MakePool, StopPurger, Exit, MainAt
  <1>2. CASE Serve
    <2>1. queue \in [Workers -> Nat]
      OBVIOUS
    <2> QED
      BY <1>2, <2>1, AcceptNext DEF Serve, MainAt
  <1>3. CASE RunReturns \/ PurgerEnds
    BY <1>3 DEF RunReturns, PurgerEnds, MainAt
  <1>12. CASE Signal
    <2>1. stopped' \subseteq Workers \cup {0} /\ (0 \in stopped => 0 \in stopped')
      <3>1. \A n \in 0 .. NWorkers : 1 .. n \subseteq Workers
        BY HttpAssumption DEF Workers
      <3>2. \/ stopped' = stopped
            \/ \E n \in 0 .. NWorkers : StopServer(1 .. n)
            \/ StopServer(Workers)
        BY <1>12 DEF Signal
      <3> QED
        BY <3>1, <3>2 DEF StopServer
    <2>2. main' \in MainAt /\ asked' \in BOOLEAN /\ (main' = "serving" => main = "serving")
      BY <1>12 DEF Signal, MainAt
    <2>3. UNCHANGED <<worker, purger, quit, connVars>>
      BY <1>12 DEF Signal
    <2> QED
      BY <2>1, <2>2, <2>3
  <1>11. CASE Clock
    BY <1>11, HttpAssumption DEF Clock
  <1>4. CASE AcceptFails
    <2> DEFINE q == [queue EXCEPT ![pending] = queue[pending] - 1]
    <2>1. q \in [Workers -> Nat] /\ DoAccept(q) /\ main = "serving" /\ 0 \notin stopped
      BY <1>4, CountTakenBack DEF AcceptFails
    <2> HIDE DEF q
    <2>2. /\ pending' \in 0 .. NWorkers /\ queue' \in [Workers -> Nat]
          /\ pending' # 0 /\ queue'[pending'] # 0
      BY <2>1, AcceptNext
    <2>3. UNCHANGED <<procVars, conn, tasks, highest, now>>
      BY <1>4 DEF AcceptFails
    <2> QED
      BY <2>2, <2>3
  <1>5. ASSUME NEW w \in Workers, WorkerEnds(w) PROVE TypeOK' /\ QueueInv'
    BY <1>5 DEF WorkerEnds
  <1>6. ASSUME NEW w \in Workers, Tick(w) PROVE TypeOK' /\ QueueInv'
    <2> DEFINE left == tasks[w] \ {k \in tasks[w] : k.due < now}
    <2>1. left \in SUBSET Task
      OBVIOUS
    <2>2. tasks' = [tasks EXCEPT ![w] = left]
      BY <1>6 DEF Tick
    <2>3. tasks' \in [Workers -> SUBSET Task]
      BY <2>1, <2>2
    <2>4. highest' \in [Workers -> Nat]
      BY <1>6 DEF Tick
    <2>5. /\ conn' \in [Conns -> Connection]
          /\ \A c \in Conns : conn'[c].at = conn[c].at /\ conn'[c].io = conn[c].io
      <3>1. conn' = [c \in Conns |-> IF c \in {k.conn : k \in {x \in tasks[w] : x.due < now}}
                                    THEN [conn[c] EXCEPT !.open = FALSE] ELSE conn[c]]
        BY <1>6 DEF Tick
      <3>2. \A c \in Conns : /\ [conn[c] EXCEPT !.open = FALSE] \in Connection
                             /\ [conn[c] EXCEPT !.open = FALSE].at = conn[c].at
                             /\ [conn[c] EXCEPT !.open = FALSE].io = conn[c].io
        BY DEF Connection
      <3>3. \A c \in Conns : conn[c] \in Connection
        OBVIOUS
      <3> QED
        BY <3>1, <3>2, <3>3
    <2>6. UNCHANGED <<procVars, queue, pending, now>>
      BY <1>6 DEF Tick
    <2> QED
      BY <2>3, <2>4, <2>5, <2>6
  <1>7. ASSUME NEW c \in Conns, Accept(c) PROVE TypeOK' /\ QueueInv'
    <2>1. queue \in [Workers -> Nat] /\ pending # 0
      BY <1>7 DEF Accept
    <2>2. /\ pending' \in 0 .. NWorkers /\ queue' \in [Workers -> Nat]
          /\ pending' # 0 => queue'[pending'] # 0
          /\ 0 \notin stopped => pending' # 0
      BY <1>7, <2>1, AcceptNext DEF Accept
    <2>3. conn' \in [Conns -> Connection]
      BY <1>7, ConnectionUpdates DEF Accept
    <2>4. \A d \in Conns : conn'[d].at # "none" => conn'[d].io # 0
      BY <1>7, <2>1 DEF Accept, NoConn
    <2>5. UNCHANGED <<procVars, tasks, highest, now>>
      BY <1>7 DEF Accept
    <2> QED
      BY <2>2, <2>3, <2>4, <2>5
  <1>13. ASSUME NEW c \in Conns, WriteBlocks(c) PROVE TypeOK' /\ QueueInv'
    <2>1. /\ conn[c].at = "reading" /\ conn' = [conn EXCEPT ![c].at = "writing"]
          /\ UNCHANGED <<procVars, tasks, highest, queue, pending, now>>
      BY <1>13 DEF WriteBlocks, Reads
    <2>2. [conn[c] EXCEPT !.at = "writing"] \in Connection
      BY DEF Connection
    <2>3. conn' \in [Conns -> Connection]
      BY <2>1, <2>2
    <2>4. \A d \in Conns : conn'[d].at # "none" => conn[d].at # "none" /\ conn'[d].io = conn[d].io
      BY <2>1 DEF Connection
    <2> QED
      BY <2>1, <2>3, <2>4
  <1>8. ASSUME NEW c \in Conns, Start(c) \/ Continue(c) PROVE TypeOK' /\ QueueInv'
    <2>1. conn[c].at # "none" /\ StartDeadline(c) /\ UNCHANGED <<procVars, queue, pending, now>>
      BY <1>8 DEF Start, Continue, Proceeds, Reads
    <2>2. /\ tasks' \in [Workers -> SUBSET Task]
          /\ highest' \in [Workers -> Nat]
          /\ conn' = [conn EXCEPT ![c].id = highest'[conn[c].io], ![c].at = "reading",
                                  ![c].seen = now]
          /\ highest'[conn[c].io] \in Nat
      BY <2>1, StartTypes
    <2>3. conn' \in [Conns -> Connection] /\ \A d \in Conns : conn'[d].io = conn[d].io
      <3>1. PICK n \in Nat : conn' = [conn EXCEPT ![c].id = n, ![c].at = "reading", ![c].seen = now]
        BY <2>2
      <3> QED
        BY <3>1, ConnectionUpdates
    <2>4. \A d \in Conns : conn'[d].at # "none" => conn[d].at # "none"
      BY <2>1, <2>2
    <2> QED
      BY <2>1, <2>2, <2>3, <2>4
  <1>9. ASSUME NEW c \in Conns, Finish(c) \/ Aborted(c) PROVE TypeOK' /\ QueueInv'
    <2>1. /\ conn[c].at # "none" /\ EndRead(c)
          /\ UNCHANGED <<procVars, highest, queue, pending, now>>
      BY <1>9 DEF Finish, Aborted, Proceeds, Reads
    <2>2. tasks' \in [Workers -> SUBSET Task]
      BY <2>1, EndTypes
    <2>3. conn' = [conn EXCEPT ![c].at = "gone", ![c].open = FALSE]
      BY <2>1 DEF EndRead
    <2>4. conn' \in [Conns -> Connection] /\ \A d \in Conns : conn'[d].io = conn[d].io
      BY <2>3, ConnectionUpdates
    <2>5. \A d \in Conns : conn'[d].at # "none" => conn[d].at # "none"
      BY <2>1, <2>3
    <2> QED
      BY <2>1, <2>2, <2>4, <2>5
  <1>10. CASE UNCHANGED vars
    BY <1>10 DEF vars
  <1> QED
    BY <1>1, <1>2, <1>3, <1>4, <1>5, <1>6, <1>7, <1>8, <1>9, <1>10, <1>11,
       <1>12, <1>13
    DEF Next, Process

----------------------------------------------------------------------------
(* Threads and deadlines.                                                  *)

LEMMA StepThreads ==
    ASSUME TypeOK, ThreadInv, [Next]_vars
    PROVE  ThreadInv'
  <1> USE DEF ThreadInv, procVars
  <1>1. CASE \/ Install \/ InstallFails \/ Construct \/ MakePool \/ Serve
             \/ RunReturns \/ StopPurger \/ Exit
    BY <1>1 DEF Install, InstallFails, Construct, MakePool, Serve, RunReturns, StopPurger, Exit
  <1>2. CASE Signal \/ PurgerEnds \/ AcceptFails \/ Clock
    BY <1>2 DEF Signal, PurgerEnds, AcceptFails, Clock
  <1>3. ASSUME NEW w \in Workers, WorkerEnds(w) \/ Tick(w) PROVE ThreadInv'
    BY <1>3 DEF WorkerEnds, Tick, TypeOK
  <1>4. ASSUME NEW c \in Conns, \/ Accept(c) \/ Start(c) \/ Aborted(c)
                               \/ WriteBlocks(c) \/ Continue(c) \/ Finish(c)
        PROVE  ThreadInv'
    BY <1>4 DEF Accept, Start, Aborted, WriteBlocks, Continue, Finish
  <1>5. CASE UNCHANGED vars
    BY <1>5 DEF vars
  <1> QED
    BY <1>1, <1>2, <1>3, <1>4, <1>5 DEF Next, Process

\* A new deadline replaces the one its connection had.
LEMMA StartKeepsTimer ==
    ASSUME TypeOK, QueueInv, TimerInv, NEW c \in Conns, conn[c].at # "none", StartDeadline(c),
           UNCHANGED now
    PROVE  TimerInv'
  <1> DEFINE w == conn[c].io
             id == highest[w] + 1
             new == [id |-> id, conn |-> c, due |-> now + Timeout]
  <1>1. w \in Workers
    BY DEF TypeOK, QueueInv, Workers, Connection
  <1>2. /\ tasks' = [tasks EXCEPT ![w] = {x \in @ : x.id # conn[c].id} \cup {new}]
        /\ conn' = [conn EXCEPT ![c].id = id, ![c].at = "reading", ![c].seen = now]
    BY DEF StartDeadline, Cancel
  <1>3. /\ conn'[c].id = id /\ conn'[c].at = "reading" /\ conn'[c].seen = now /\ conn'[c].io = w
        /\ \A d \in Conns \ {c} : conn'[d] = conn[d]
    BY <1>2 DEF TypeOK
  <1>4. ASSUME NEW v \in Workers, NEW k \in tasks'[v], k # new
        PROVE  k \in tasks[v] /\ k.conn \in Conns \ {c}
    <2>1. k \in tasks[v] /\ (v = w => k.id # conn[c].id)
      BY <1>1, <1>2, <1>4 DEF TypeOK
    <2>2. k.conn \in Conns /\ conn[k.conn].id = k.id /\ conn[k.conn].io = v
      BY <2>1 DEF TypeOK, Task, TimerInv, DeadlinesAreCurrent
    <2> QED
      BY <2>1, <2>2
  <1>5. new \in tasks'[w] /\ \A v \in Workers \ {w} : new \notin tasks'[v]
    <2>1. \A v \in Workers \ {w} : new \notin tasks[v]
      BY DEF TimerInv
    <2> QED
      BY <1>1, <1>2, <2>1 DEF TypeOK
  <1>6. ASSUME NEW v \in Workers, NEW k \in tasks'[v]
        PROVE  /\ conn'[k.conn].id = k.id /\ k.due = conn'[k.conn].seen + Timeout
               /\ conn'[k.conn].at \in {"reading", "writing"} /\ conn'[k.conn].io = v
    <2>1. CASE k = new
      BY <1>3, <1>5, <1>6, <2>1
    <2>2. CASE k # new
      BY <1>3, <1>4, <1>6, <2>2 DEF TimerInv, DeadlinesAreCurrent, EndedIsReleased
    <2> QED
      BY <2>1, <2>2
  <1> QED
    BY <1>6 DEF TimerInv, DeadlinesAreCurrent, EndedIsReleased

\* With the read of a connection its deadline ends; others may lose theirs.
LEMMA EndKeepsTimer ==
    ASSUME TypeOK, QueueInv, TimerInv, NEW c \in Conns, conn[c].at # "none", EndRead(c)
    PROVE  TimerInv'
  <1> DEFINE w == conn[c].io
  <1>1. w \in Workers
    BY DEF TypeOK, QueueInv, Workers, Connection
  <1>2. /\ tasks' = [tasks EXCEPT ![w] = {x \in @ : x.id # conn[c].id}]
        /\ \A d \in Conns \ {c} : conn'[d] = conn[d]
    BY DEF EndRead, Cancel, TypeOK
  <1>3. ASSUME NEW v \in Workers, NEW k \in tasks'[v]
        PROVE  k \in tasks[v] /\ k.conn \in Conns \ {c}
    <2>1. k \in tasks[v] /\ (v = w => k.id # conn[c].id)
      BY <1>1, <1>2, <1>3 DEF TypeOK
    <2>2. k.conn \in Conns /\ conn[k.conn].id = k.id /\ conn[k.conn].io = v
      BY <2>1 DEF TypeOK, Task, TimerInv, DeadlinesAreCurrent
    <2> QED
      BY <2>1, <2>2
  <1> QED
    BY <1>2, <1>3 DEF TimerInv, DeadlinesAreCurrent, EndedIsReleased

LEMMA StepTimer ==
    ASSUME TypeOK, QueueInv, TimerInv, [Next]_vars
    PROVE  TimerInv'
  <1> USE DEF procVars, connVars
  <1>1. CASE UNCHANGED <<conn, tasks>>
    BY <1>1 DEF TimerInv, DeadlinesAreCurrent, EndedIsReleased
  <1>2. ASSUME NEW w \in Workers, Tick(w) PROVE TimerInv'
    <2>1. \A v \in Workers : tasks'[v] \subseteq tasks[v]
      BY <1>2 DEF Tick, TypeOK, Task
    <2>2. \A c \in Conns : /\ conn'[c].id = conn[c].id /\ conn'[c].at = conn[c].at
                           /\ conn'[c].io = conn[c].io /\ conn'[c].seen = conn[c].seen
      BY <1>2 DEF Tick, TypeOK, Task
    <2>3. \A v \in Workers : \A k \in tasks[v] : k.conn \in Conns
      BY DEF TypeOK, Task
    <2> QED
      BY <2>1, <2>2, <2>3 DEF TimerInv, DeadlinesAreCurrent, EndedIsReleased
  <1>3. ASSUME NEW c \in Conns, Accept(c) PROVE TimerInv'
    <2>1. /\ conn[c].at = "none" /\ UNCHANGED tasks
          /\ \A d \in Conns \ {c} : conn'[d] = conn[d]
      BY <1>3 DEF Accept, TypeOK
    <2>2. \A v \in Workers : \A k \in tasks[v] : k.conn \in Conns \ {c}
      BY <2>1 DEF TypeOK, Task, TimerInv, EndedIsReleased
    <2> QED
      BY <2>1, <2>2 DEF TimerInv, DeadlinesAreCurrent, EndedIsReleased
  <1>4. ASSUME NEW c \in Conns, Start(c) \/ Continue(c) PROVE TimerInv'
    BY <1>4, StartKeepsTimer DEF Start, Continue, Proceeds, Reads
  <1>8. ASSUME NEW c \in Conns, WriteBlocks(c) PROVE TimerInv'
    <2>1. tasks' = tasks /\ conn[c].at = "reading" /\ conn' = [conn EXCEPT ![c].at = "writing"]
      BY <1>8 DEF WriteBlocks, Reads
    <2>2. \A d \in Conns : /\ conn'[d].id = conn[d].id /\ conn'[d].seen = conn[d].seen
                           /\ conn'[d].io = conn[d].io
                           /\ conn[d].at \in {"reading", "writing"} => conn'[d].at \in {"reading", "writing"}
      BY <2>1 DEF TypeOK, Connection
    <2>3. \A v \in Workers : \A k \in tasks[v] : k.conn \in Conns
      BY DEF TypeOK, Task
    <2> QED
      BY <2>1, <2>2, <2>3 DEF TimerInv, DeadlinesAreCurrent, EndedIsReleased
  <1>5. ASSUME NEW c \in Conns, Finish(c) \/ Aborted(c) PROVE TimerInv'
    BY <1>5, EndKeepsTimer DEF Finish, Aborted, Proceeds, Reads
  <1>6. CASE Process \/ Signal \/ PurgerEnds \/ AcceptFails \/ Clock
    BY <1>1, <1>6
       DEF Process, Install, InstallFails, Construct, MakePool, Serve, RunReturns, StopPurger,
           Exit, Signal, PurgerEnds, AcceptFails, Clock
  <1>7. ASSUME NEW w \in Workers, WorkerEnds(w) PROVE TimerInv'
    BY <1>1, <1>7 DEF WorkerEnds
  <1> QED
    BY <1>1, <1>2, <1>3, <1>4, <1>5, <1>6, <1>7, <1>8 DEF Next, vars

----------------------------------------------------------------------------

LEMMA Invariance == Spec => [](TypeOK /\ ThreadInv /\ QueueInv /\ TimerInv)
  BY InitTypes, StepTypes, StepThreads, StepTimer, PTL DEF Spec

\* Every variable keeps its type, and the worker chosen for a connection is
\* one there is (http_server.h pick_io_context_idx, do_accept).
THEOREM ServerTypes == Spec => []TypeOK
  BY Invariance, PTL

\* However often identifiers begin again, and whichever deadlines are
\* cancelled with another's identifier, a deadline that is left is the last
\* its connection asked for (task_timer.h, http_connection.h start_deadline).
THEOREM DeadlinesStayCurrent == Spec => []DeadlinesAreCurrent
  <1>1. TimerInv => DeadlinesAreCurrent
    BY DEF TimerInv
  <1> QED
    BY <1>1, Invariance, PTL

\* A connection whose read ended has no deadline that would keep it alive
\* (http_connection.h cancel_deadline_timer).
THEOREM EndedStayReleased == Spec => []EndedIsReleased
  <1>1. TimerInv => EndedIsReleased
    BY DEF TimerInv
  <1> QED
    BY <1>1, Invariance, PTL

\* Whichever way main comes to its end, by a failed start, a bad address or a
\* signal, the purge thread and the workers are over (main.cpp, Server::run).
THEOREM NoThreadOutlivesMain == Spec => []NothingOutlivesMain
  <1>1. ThreadInv => NothingOutlivesMain
    BY DEF ThreadInv, NothingOutlivesMain
  <1> QED
    BY <1>1, Invariance, PTL

=============================================================================
