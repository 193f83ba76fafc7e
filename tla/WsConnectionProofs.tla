------------------------- MODULE WsConnectionProofs -------------------------
(***************************************************************************)
(* Proofs about WsConnection for any number of connections and io threads, *)
(* any assignment of one to the other and any number of frames.            *)
(***************************************************************************)
EXTENDS WsConnection, SequenceTheorems, FiniteSetTheorems, TLAPS

\* A connection passes through its states once: it enters the table when it
\* opens, its room id goes with its entry, and only then it can be destroyed.
LifeInv ==
    \A c \in Conns :
        /\ conn[c].obj = "none" => conn[c].told = 0 /\ conn[c].userdata /\ peers[c] = "absent"
        /\ conn[c].obj = "freed" => ~conn[c].reading /\ ~conn[c].sending /\ ~conn[c].userdata
        /\ ~conn[c].userdata => peers[c] = "absent"
        /\ conn[c].told # 0 => conn[c].told = 1 /\ ~conn[c].userdata

\* Of the calls a thread has left, those on its own connections find them
\* alive; the end of a callback is the last of them, after the close handler.
CallsOK(t) ==
    \A k \in 1 .. Len(calls[t]) :
        LET call == calls[t][k] IN
        /\ io[call.conn] = t => conn[call.conn].obj = "alive"
        /\ call.op \in {"cast", "answer", "destroy"} => io[call.conn] = t
        /\ call.op \in {"answer", "destroy"} => k = Len(calls[t]) /\ ~conn[call.conn].userdata

CallInv == \A t \in Threads : CallsOK(t)

----------------------------------------------------------------------------
(* The connection object.                                                  *)

\* What writing and closing leave as it is.
SameLife(r, s) ==
    /\ s.obj = r.obj /\ s.reading = r.reading
    /\ s.userdata = r.userdata /\ s.told = r.told

LEMMA Writes ==
    ASSUME NEW r \in ConnType
    PROVE  /\ DoWrite(r) \in ConnType /\ SameLife(r, DoWrite(r))
           /\ Enqueue(r) \in ConnType /\ SameLife(r, Enqueue(r))
           /\ CloseBody(r) \in ConnType /\ SameLife(r, CloseBody(r))
  <1>1. ASSUME NEW s \in ConnType
        PROVE  DoWrite(s) \in ConnType /\ SameLife(s, DoWrite(s))
    BY DEF DoWrite, ConnType, SameLife
  <1>2. ASSUME NEW s \in ConnType
        PROVE  [s EXCEPT !.queued = TRUE] \in ConnType /\ SameLife(s, [s EXCEPT !.queued = TRUE])
    BY DEF ConnType, SameLife
  <1>3. ASSUME NEW s \in ConnType
        PROVE  Enqueue(s) \in ConnType /\ SameLife(s, Enqueue(s))
    BY <1>1, <1>2 DEF Enqueue, SameLife
  <1>4. [r EXCEPT !.sentClose = TRUE] \in ConnType /\ SameLife(r, [r EXCEPT !.sentClose = TRUE])
    BY DEF ConnType, SameLife
  <1> QED
    BY <1>1, <1>3, <1>4 DEF CloseBody, SameLife

\* A callback that ends destroys the object or leaves it, and what it destroys
\* has no read and no write out.
LEMMA AfterEnds ==
    ASSUME NEW r \in ConnType, r.obj = "alive", NEW op
    PROVE  LET s == After(r, op) IN
           /\ s \in ConnType /\ s.userdata = r.userdata /\ s.told = r.told
           /\ s.obj = "alive" \/ (s.obj = "freed" /\ op # "answer" /\ ~s.reading /\ ~s.sending)
  <1>1. CASE op = "answer"
    <2>1. CloseBody(r) \in ConnType /\ SameLife(r, CloseBody(r))
      BY Writes
    <2>2. After(r, op) = [CloseBody(r) EXCEPT !.closing = TRUE, !.socket = "closed"]
      BY <1>1 DEF After
    <2>3. ASSUME NEW s \in ConnType
          PROVE  /\ [s EXCEPT !.closing = TRUE, !.socket = "closed"] \in ConnType
                 /\ SameLife(s, [s EXCEPT !.closing = TRUE, !.socket = "closed"])
      BY DEF ConnType, SameLife
    <2> QED
      BY <2>1, <2>2, <2>3 DEF SameLife
  <1>2. CASE op # "answer" /\ (r.sending \/ r.reading)
    BY <1>2 DEF After
  <1>3. CASE op # "answer" /\ ~r.sending /\ ~r.reading
    <2>1. After(r, op) = Freed(r)
      BY <1>3 DEF After
    <2>2. /\ Freed(r) \in ConnType /\ Freed(r).obj = "freed" /\ Freed(r).reading = r.reading
          /\ Freed(r).sending = r.sending /\ Freed(r).userdata = r.userdata
          /\ Freed(r).told = r.told
      BY DEF Freed, Unopened, ConnType
    <2> QED
      BY <1>3, <2>1, <2>2
  <1> QED
    BY <1>1, <1>2, <1>3

----------------------------------------------------------------------------
(* Lists of calls.                                                         *)

LEMMA CallTypes ==
    ASSUME NEW c \in Conns
    PROVE  /\ \A frame \in {"data", "notice"} : SendText(c, frame) \in CallType
           /\ \A all \in BOOLEAN : Broadcast(c, all) \in CallType
           /\ \A op \in {"close", "answer", "destroy"} : Call(op, c) \in CallType
  BY DEF SendText, Broadcast, Call, CallType

LEMMA CallFields ==
    ASSUME NEW c
    PROVE  /\ \A frame : SendText(c, frame).op = "send" /\ SendText(c, frame).conn = c
           /\ \A all : Broadcast(c, all).op = "cast" /\ Broadcast(c, all).conn = c
           /\ \A op : Call(op, c).op = op /\ Call(op, c).conn = c
  BY DEF SendText, Broadcast, Call

\* An order of some connections is a sequence of them.
LEMMA Orders ==
    ASSUME NEW S \in SUBSET Conns, NEW order \in SetToSeqs(S)
    PROVE  order \in Seq(S) /\ Len(order) \in Nat /\ DOMAIN order = 1 .. Len(order)
  <1>1. Cardinality(S) \in Nat
    BY WsAssumption, FS_Subset, FS_CardinalityType
  <1>2. order \in [1 .. Cardinality(S) -> S]
    BY DEF SetToSeqs
  <1>3. order \in Seq(S)
    BY <1>1, <1>2, SeqDef
  <1> QED
    BY <1>3, LenProperties

\* What is left after the first call of a list, with other calls before it.
LEMMA Continues ==
    ASSUME TypeOK, NEW t \in Threads, calls[t] # <<>>, NEW more \in Seq(CallType), Then(t, more)
    PROVE  /\ calls' \in [Threads -> Seq(CallType)]
           /\ \A u \in Threads \ {t} : calls'[u] = calls[u]
           /\ Len(calls'[t]) = Len(more) + Len(calls[t]) - 1
           /\ \A k \in 1 .. Len(calls'[t]) :
                 \/ k <= Len(more) /\ calls'[t][k] = more[k]
                 \/ \E j \in 2 .. Len(calls[t]) :
                       j = k - Len(more) + 1 /\ calls'[t][k] = calls[t][j]
  <1>1. calls[t] \in Seq(CallType)
    BY DEF TypeOK
  <1>2. /\ Tail(calls[t]) \in Seq(CallType) /\ Len(Tail(calls[t])) = Len(calls[t]) - 1
        /\ \A i \in 1 .. Len(Tail(calls[t])) : Tail(calls[t])[i] = calls[t][i + 1]
    BY <1>1, HeadTailProperties
  <1>3. Len(more) \in Nat /\ Len(calls[t]) \in Nat /\ Len(Tail(calls[t])) \in Nat
    BY <1>1, <1>2, LenProperties
  <1>4. LET s == more \o Tail(calls[t]) IN
        /\ s \in Seq(CallType) /\ Len(s) = Len(more) + Len(Tail(calls[t]))
        /\ \A i \in 1 .. Len(more) + Len(Tail(calls[t])) :
              s[i] = IF i <= Len(more) THEN more[i] ELSE Tail(calls[t])[i - Len(more)]
    BY <1>2, ConcatProperties
  <1>5. calls' = [calls EXCEPT ![t] = more \o Tail(calls[t])]
    BY DEF Then
  <1>6. calls'[t] = more \o Tail(calls[t]) /\ \A u \in Threads \ {t} : calls'[u] = calls[u]
    BY <1>5 DEF TypeOK
  <1>7. calls' \in [Threads -> Seq(CallType)]
    BY <1>4, <1>5 DEF TypeOK
  <1>8. ASSUME NEW k \in 1 .. Len(calls'[t]), k > Len(more)
        PROVE  \E j \in 2 .. Len(calls[t]) :
                  j = k - Len(more) + 1 /\ calls'[t][k] = calls[t][j]
    <2>1. k - Len(more) + 1 \in 2 .. Len(calls[t])
      BY <1>2, <1>3, <1>4, <1>6, <1>8
    <2>2. calls'[t][k] = calls[t][k - Len(more) + 1]
      BY <1>2, <1>3, <1>4, <1>6, <1>8
    <2> QED
      BY <2>1, <2>2
  <1>9. \A k \in 1 .. Len(calls'[t]) : k <= Len(more) => calls'[t][k] = more[k]
    BY <1>2, <1>3, <1>4, <1>6
  <1>10. Len(calls'[t]) = Len(more) + Len(calls[t]) - 1
    BY <1>2, <1>3, <1>4, <1>6
  <1>11. ASSUME NEW k \in 1 .. Len(calls'[t])
         PROVE  \/ k <= Len(more) /\ calls'[t][k] = more[k]
                \/ \E j \in 2 .. Len(calls[t]) :
                      j = k - Len(more) + 1 /\ calls'[t][k] = calls[t][j]
    <2>1. k <= Len(more) \/ k > Len(more)
      BY <1>3
    <2> QED
      BY <1>8, <1>9, <2>1
  <1> QED
    BY <1>6, <1>7, <1>10, <1>11

\* The calls of closeRoom.
LEMMA Notices ==
    ASSUME NEW S \in SUBSET Conns, NEW order \in SetToSeqs(S)
    PROVE  /\ NoticeAndClose(order) \in Seq(CallType)
           /\ \A k \in 1 .. Len(NoticeAndClose(order)) :
                 /\ NoticeAndClose(order)[k].conn \in S
                 /\ NoticeAndClose(order)[k].op \in {"send", "close"}
  <1> DEFINE n == 2 * Len(order)
             c(i) == order[(i + 1) \div 2]
             e(i) == IF i % 2 = 1 THEN SendText(c(i), "notice") ELSE Call("close", c(i))
  <1>1. order \in Seq(S) /\ Len(order) \in Nat
    BY Orders
  <1>2. n \in Nat /\ \A i \in 1 .. n : (i + 1) \div 2 \in 1 .. Len(order)
    BY <1>1
  <1>3. \A i \in 1 .. n : c(i) \in S
    BY <1>1, <1>2, ElementOfSeq
  <1>4. \A i \in 1 .. n : /\ e(i) \in CallType /\ e(i).conn \in S
                          /\ e(i).op \in {"send", "close"}
    <2>1. ASSUME NEW d \in S
          PROVE  /\ SendText(d, "notice") \in CallType /\ SendText(d, "notice").conn = d
                 /\ SendText(d, "notice").op = "send"
                 /\ Call("close", d) \in CallType /\ Call("close", d).conn = d
                 /\ Call("close", d).op = "close"
      BY CallTypes, CallFields
    <2> HIDE DEF c
    <2> QED
      BY <1>3, <2>1
  <1>5. NoticeAndClose(order) = [i \in 1 .. n |-> e(i)]
    BY DEF NoticeAndClose
  <1> HIDE DEF n, e
  <1>6. [i \in 1 .. n |-> e(i)] \in Seq(CallType)
    BY <1>2, <1>4, SeqDef
  <1>7. Len([i \in 1 .. n |-> e(i)]) = n
    BY <1>2, <1>6, LenProperties
  <1> QED
    BY <1>4, <1>5, <1>6, <1>7

----------------------------------------------------------------------------
(* What a step may change.                                                 *)

\* Records that keep what the invariants ask of.
LEMMA LifeSteady ==
    ASSUME LifeInv,
           \A d \in Conns :
              /\ conn'[d].obj = conn[d].obj /\ conn'[d].userdata = conn[d].userdata
              /\ conn'[d].told = conn[d].told
              /\ conn[d].obj = "freed" => /\ conn'[d].reading = conn[d].reading
                                          /\ conn'[d].sending = conn[d].sending
              /\ peers'[d] = peers[d] \/ peers[d] # "absent"
    PROVE  LifeInv'
  BY DEF LifeInv

LEMMA ListedCall ==
    ASSUME TypeOK, NEW t \in Threads, NEW k \in 1 .. Len(calls[t])
    PROVE  calls[t][k] \in CallType /\ calls[t][k].conn \in Conns
  <1>1. calls[t] \in Seq(CallType)
    BY DEF TypeOK
  <1>2. calls[t][k] \in CallType
    BY <1>1, ElementOfSeq
  <1> QED
    BY <1>2 DEF CallType

\* A thread's calls may change with what it does to its own connections.
LEMMA OneThread ==
    ASSUME CallInv, UNCHANGED io, NEW w \in Threads,
           \A u \in Threads \ {w} : calls'[u] = calls[u],
           \A d \in Conns : io[d] # w => /\ conn'[d].obj = conn[d].obj
                                         /\ conn'[d].userdata = conn[d].userdata,
           CallsOK(w)', TypeOK
    PROVE  CallInv'
  <1>1. ASSUME NEW u \in Threads, u # w PROVE CallsOK(u)'
    <2>1. calls'[u] = calls[u] /\ CallsOK(u)
      BY <1>1 DEF CallInv
    <2>2. \A k \in 1 .. Len(calls[u]) : calls[u][k].conn \in Conns
      BY ListedCall
    <2> QED
      BY <1>1, <2>1, <2>2 DEF CallsOK
  <1> QED
    BY <1>1 DEF CallInv

LEMMA CallsSteady ==
    ASSUME TypeOK, CallInv, UNCHANGED <<io, calls>>,
           \A d \in Conns : conn'[d].obj = conn[d].obj /\ conn'[d].userdata = conn[d].userdata
    PROVE  CallInv'
  <1>1. \A u \in Threads : \A k \in 1 .. Len(calls[u]) : calls[u][k].conn \in Conns
    BY ListedCall
  <1> QED
    BY <1>1 DEF CallInv, CallsOK

\* A list of one broadcast, or of one and the end of a callback.
LEMMA ListOfOne ==
    ASSUME TypeOK, NEW c \in Conns, NEW all \in BOOLEAN, conn'[c].obj = "alive", io' = io,
           calls' = [calls EXCEPT ![io[c]] = <<Broadcast(c, all)>>]
    PROVE  calls' \in [Threads -> Seq(CallType)] /\ CallsOK(io[c])'
  <1>1. io[c] \in Threads /\ io'[c] = io[c]
    BY DEF TypeOK, Threads
  <1>2. Broadcast(c, all) \in CallType
    BY CallTypes
  <1>3. calls'[io[c]] = <<Broadcast(c, all)>> /\ Len(<<Broadcast(c, all)>>) = 1
    BY <1>1 DEF TypeOK
  <1>4. calls' \in [Threads -> Seq(CallType)]
    <2>1. <<Broadcast(c, all)>> \in Seq(CallType)
      BY <1>2
    <2> HIDE DEF Broadcast
    <2> QED
      BY <2>1 DEF TypeOK
  <1>5. \A k \in 1 .. 1 : k = 1
    OBVIOUS
  <1>6. Broadcast(c, all).op = "cast" /\ Broadcast(c, all).conn = c
    BY CallFields
  <1> QED
    BY <1>1, <1>3, <1>4, <1>5, <1>6 DEF CallsOK

LEMMA ListOfTwo ==
    ASSUME TypeOK, NEW c \in Conns, NEW op \in {"answer", "destroy"}, io' = io,
           conn'[c].obj = "alive", ~conn'[c].userdata,
           calls' = [calls EXCEPT ![io[c]] = <<Broadcast(c, TRUE), Call(op, c)>>]
    PROVE  calls' \in [Threads -> Seq(CallType)] /\ CallsOK(io[c])'
  <1> DEFINE s == <<Broadcast(c, TRUE), Call(op, c)>>
  <1>1. io[c] \in Threads /\ io'[c] = io[c]
    BY DEF TypeOK, Threads
  <1>2. Broadcast(c, TRUE) \in CallType /\ Call(op, c) \in CallType
    BY CallTypes
  <1>3. calls'[io[c]] = s /\ Len(s) = 2 /\ s[1] = Broadcast(c, TRUE) /\ s[2] = Call(op, c)
    BY <1>1 DEF TypeOK
  <1>4. calls' \in [Threads -> Seq(CallType)]
    <2>1. \A a, b \in CallType : <<a, b>> \in Seq(CallType)
      OBVIOUS
    <2>2. s \in Seq(CallType)
      BY <1>2, <2>1, Zenon
    <2>3. calls' = [calls EXCEPT ![io[c]] = s]
      OBVIOUS
    <2> HIDE DEF s
    <2> QED
      BY <2>2, <2>3 DEF TypeOK
  <1>5. \A k \in 1 .. 2 : k = 1 \/ k = 2
    OBVIOUS
  <1>6. /\ Broadcast(c, TRUE).op = "cast" /\ Broadcast(c, TRUE).conn = c
        /\ Call(op, c).op = op /\ Call(op, c).conn = c
    BY DEF Broadcast, Call
  <1> HIDE DEF s
  <1> QED
    BY <1>1, <1>3, <1>4, <1>5, <1>6 DEF CallsOK

\* onclose and onerror: the entry, the room id and the object go in order.
LEMMA LeaveKeeps ==
    ASSUME TypeOK, LifeInv, CallInv, UNCHANGED io,
           NEW c \in Conns, conn[c].obj = "alive", calls[io[c]] = <<>>,
           NEW r \in ConnType, r.obj = "alive", r.userdata = conn[c].userdata,
           r.told = conn[c].told, NEW op \in {"answer", "destroy"}, Leave(c, r, op)
    PROVE  /\ conn' \in [Conns -> ConnType]
           /\ peers' \in [Conns -> {"absent", "open", "joined"}]
           /\ calls' \in [Threads -> Seq(CallType)]
           /\ LifeInv' /\ CallInv'
  <1> DEFINE left == [r EXCEPT !.userdata = FALSE]
  <1>1. /\ left \in ConnType /\ left.obj = "alive" /\ ~left.userdata /\ left.told = r.told
    BY DEF ConnType
  <1>2. io[c] \in Threads
    BY DEF TypeOK, Threads
  <1>3. peers' = [peers EXCEPT ![c] = "absent"]
    BY DEF Leave
  <1>4. /\ peers' \in [Conns -> {"absent", "open", "joined"}]
        /\ peers'[c] = "absent" /\ \A d \in Conns \ {c} : peers'[d] = peers[d]
    BY <1>3 DEF TypeOK
  <1>5. CASE /\ Departs(c)
             /\ conn' = [conn EXCEPT ![c] = [left EXCEPT !.told = @ + 1]]
             /\ calls' = [calls EXCEPT ![io[c]] = <<Broadcast(c, TRUE), Call(op, c)>>]
    <2>1. r.told = 0
      BY <1>5 DEF Departs, LifeInv
    <2> HIDE DEF left
    <2>8. ASSUME NEW x \in ConnType, x.told = 0
          PROVE  /\ [x EXCEPT !.told = @ + 1] \in ConnType
                 /\ [x EXCEPT !.told = @ + 1].obj = x.obj
                 /\ [x EXCEPT !.told = @ + 1].userdata = x.userdata
                 /\ [x EXCEPT !.told = @ + 1].told = 1
      BY <2>8 DEF ConnType
    <2>2. /\ [left EXCEPT !.told = @ + 1] \in ConnType
          /\ [left EXCEPT !.told = @ + 1].obj = "alive"
          /\ ~[left EXCEPT !.told = @ + 1].userdata
          /\ [left EXCEPT !.told = @ + 1].told = 1
      BY <1>1, <2>1, <2>8
    <2>3. /\ conn' \in [Conns -> ConnType]
          /\ conn'[c].obj = "alive" /\ ~conn'[c].userdata /\ conn'[c].told = 1
          /\ \A d \in Conns \ {c} : conn'[d] = conn[d]
      BY <1>5, <2>2 DEF TypeOK
    <2>4. LifeInv'
      BY <1>4, <2>3 DEF LifeInv
    <2>5. calls' \in [Threads -> Seq(CallType)] /\ CallsOK(io[c])'
      BY <1>5, <2>3, ListOfTwo
    <2>6. \A u \in Threads \ {io[c]} : calls'[u] = calls[u]
      BY <1>5 DEF TypeOK
    <2>7. \A w \in Threads : w = io[c] => CallInv'
      BY <2>3, <2>5, <2>6, OneThread
    <2> QED
      BY <1>2, <1>4, <2>3, <2>4, <2>5, <2>7
  <1>6. CASE conn' = [conn EXCEPT ![c] = After(left, op)] /\ UNCHANGED calls
    <2>1. LET s == After(left, op) IN
          /\ s \in ConnType /\ ~s.userdata /\ s.told = r.told
          /\ s.obj = "alive" \/ (s.obj = "freed" /\ ~s.reading /\ ~s.sending)
      BY <1>1, AfterEnds
    <2>2. /\ conn' \in [Conns -> ConnType]
          /\ ~conn'[c].userdata /\ conn'[c].told = conn[c].told
          /\ conn'[c].obj = "alive"
             \/ (conn'[c].obj = "freed" /\ ~conn'[c].reading /\ ~conn'[c].sending)
          /\ \A d \in Conns \ {c} : conn'[d] = conn[d]
      BY <1>6, <2>1 DEF TypeOK
    <2>3. LifeInv'
      BY <1>4, <2>2 DEF LifeInv
    <2>4. PICK w \in Threads : w = io[c]
      BY <1>2
    <2>5. calls'[w] = <<>> /\ Len(<<>>) = 0
      BY <1>6, <2>4
    <2>6. CallsOK(w)'
      BY <2>5 DEF CallsOK
    <2>7. CallInv'
      BY <1>6, <2>2, <2>4, <2>6, OneThread
    <2> QED
      BY <1>4, <1>6, <2>2, <2>3, <2>7 DEF TypeOK
  <1> QED
    BY <1>5, <1>6 DEF Leave

----------------------------------------------------------------------------
(* The steps.                                                              *)

WsInv == TypeOK /\ LifeInv /\ CallInv

LEMMA InitInv == Init => WsInv
  <1> SUFFICES ASSUME Init PROVE WsInv
    OBVIOUS
  <1>1. Unopened \in ConnType
    BY DEF Unopened, ConnType
  <1>2. <<>> \in Seq(CallType) /\ Len(<<>>) = 0
    BY EmptySeq
  <1>6. conn \in [Conns -> ConnType]
    BY <1>1 DEF Init
  <1>7. calls \in [Threads -> Seq(CallType)] /\ tasks \in [IoThreads -> Seq(CallType)]
    BY <1>2 DEF Init
  <1>8. frames \in 0 .. MaxFrames
    BY WsAssumption DEF Init
  <1>9. peers \in [Conns -> {"absent", "open", "joined"}]
    BY DEF Init
  <1>3. TypeOK
    BY <1>6, <1>7, <1>8, <1>9 DEF Init, TypeOK
  <1>4. LifeInv
    BY DEF Init, LifeInv, Unopened
  <1>5. CallInv
    BY <1>2 DEF Init, CallInv, CallsOK
  <1> QED
    BY <1>3, <1>4, <1>5 DEF WsInv

\* A task for a connection, on its io thread.
LEMMA TaskAdded ==
    ASSUME TypeOK, NEW c \in Conns, NEW k \in CallType,
           tasks' = [tasks EXCEPT ![io[c]] = Append(@, k)]
    PROVE  tasks' \in [IoThreads -> Seq(CallType)]
  <1>1. io[c] \in IoThreads /\ tasks[io[c]] \in Seq(CallType)
    BY DEF TypeOK
  <1>2. Append(tasks[io[c]], k) \in Seq(CallType)
    BY <1>1, AppendProperties
  <1> QED
    BY <1>2 DEF TypeOK

\* A callback that leaves the table and the calls alone, and of the record
\* what the invariants ask of.
LEMMA QuietStep ==
    ASSUME WsInv, NEW c \in Conns, conn[c].obj # "freed", NEW r \in ConnType,
           r.obj = conn[c].obj, r.userdata = conn[c].userdata, r.told = conn[c].told,
           conn' = [conn EXCEPT ![c] = r], UNCHANGED <<io, peers, calls>>
    PROVE  /\ conn' \in [Conns -> ConnType]
           /\ LifeInv' /\ CallInv'
  <1>1. /\ conn' \in [Conns -> ConnType]
        /\ conn'[c] = r /\ \A d \in Conns \ {c} : conn'[d] = conn[d]
    BY DEF WsInv, TypeOK
  <1>2. LifeInv'
    BY <1>1, LifeSteady DEF WsInv
  <1>3. CallInv'
    BY <1>1, CallsSteady DEF WsInv
  <1> QED
    BY <1>1, <1>2, <1>3

LEMMA OpenStep ==
    ASSUME WsInv, NEW c \in Conns, Open(c)
    PROVE  WsInv'
  <1> USE DEF WsInv
  <1> DEFINE r == [Enqueue(Unopened) EXCEPT !.obj = "alive", !.reading = TRUE]
  <1>1. r \in ConnType /\ r.obj = "alive" /\ r.userdata /\ r.told = 0
    <2>1. Unopened \in ConnType /\ Unopened.userdata /\ Unopened.told = 0
      BY DEF Unopened, ConnType
    <2>2. /\ Enqueue(Unopened) \in ConnType /\ Enqueue(Unopened).userdata
          /\ Enqueue(Unopened).told = 0
      BY <2>1, Writes DEF SameLife
    <2>3. ASSUME NEW s \in ConnType
          PROVE  LET q == [s EXCEPT !.obj = "alive", !.reading = TRUE] IN
                 /\ q \in ConnType /\ q.obj = "alive" /\ q.userdata = s.userdata
                 /\ q.told = s.told
      BY DEF ConnType
    <2> QED
      BY <2>2, <2>3
  <1>2. conn' = [conn EXCEPT ![c] = r] /\ peers' = [peers EXCEPT ![c] = "open"]
    BY DEF Open
  <1> HIDE DEF r
  <1>3. /\ conn' \in [Conns -> ConnType] /\ peers' \in [Conns -> {"absent", "open", "joined"}]
        /\ conn'[c] = r /\ peers'[c] = "open"
        /\ \A d \in Conns \ {c} : conn'[d] = conn[d] /\ peers'[d] = peers[d]
    BY <1>1, <1>2 DEF TypeOK
  <1>4. LifeInv'
    BY <1>1, <1>3 DEF LifeInv
  <1>5. UNCHANGED <<io, calls, tasks, frames, deleted>> /\ calls[io[c]] = <<>>
    BY DEF Open
  <1>6. PICK w \in Threads : w = io[c]
    BY DEF TypeOK, Threads
  <1>7. CallsOK(w)'
    BY <1>5, <1>6 DEF CallsOK
  <1>8. CallInv'
    BY <1>3, <1>5, <1>6, <1>7, OneThread
  <1> QED
    BY <1>3, <1>4, <1>5, <1>8 DEF TypeOK

\* A callback after a completed data frame.
LEMMA ReadStep ==
    ASSUME WsInv, NEW c \in Conns,
           Rejects(c) \/ Join(c) \/ Refuse(c) \/ Relayed(c) \/ Answered(c) \/ Throws(c)
    PROVE  WsInv'
  <1> USE DEF WsInv
  <1>1. /\ conn[c].obj = "alive" /\ calls[io[c]] = <<>>
        /\ UNCHANGED <<io, deleted>> /\ frames' \in 0 .. MaxFrames
    <2>1. Reads(c, peers[c]) \/ Reads(c, "open") \/ Reads(c, "joined")
      BY DEF Rejects, Join, Refuse, Relayed, Answered, Throws
    <2>2. frames \in Nat /\ frames < MaxFrames /\ frames' = frames + 1
      BY <2>1, WsAssumption DEF Reads, TypeOK
    <2>3. conn[c].obj = "alive" /\ calls[io[c]] = <<>> /\ UNCHANGED <<io, deleted>>
      BY <2>1 DEF Reads, Ready
    <2> QED
      BY <2>2, <2>3, WsAssumption
  <1>2. conn[c] \in ConnType
    BY DEF TypeOK
  <1>3. CloseBody(conn[c]) \in ConnType /\ SameLife(conn[c], CloseBody(conn[c]))
    BY <1>2, Writes
  <1>4. \A frame \in {"data", "notice"} : PostTo(c, frame) => tasks' \in [IoThreads -> Seq(CallType)]
    BY CallTypes, TaskAdded DEF PostTo
  <1>5. CASE conn' = [conn EXCEPT ![c] = CloseBody(@)] /\ UNCHANGED <<peers, calls>>
             /\ tasks' \in [IoThreads -> Seq(CallType)]
    BY <1>1, <1>3, <1>5, QuietStep DEF SameLife, TypeOK
  <1>6. CASE UNCHANGED <<conn, peers, calls>> /\ tasks' \in [IoThreads -> Seq(CallType)]
    <2>1. LifeInv' /\ CallInv'
      BY <1>1, <1>6, LifeSteady, CallsSteady
    <2> QED
      BY <1>1, <1>6, <2>1 DEF TypeOK
  <1>7. CASE conn' = [conn EXCEPT ![c].reading = FALSE, ![c].stuck = TRUE]
             /\ UNCHANGED <<peers, calls, tasks>>
    <2> DEFINE r == [conn[c] EXCEPT !.reading = FALSE, !.stuck = TRUE]
    <2>1. /\ r \in ConnType /\ r.obj = conn[c].obj /\ r.userdata = conn[c].userdata
          /\ r.told = conn[c].told
      BY <1>2 DEF ConnType
    <2>2. conn' = [conn EXCEPT ![c] = r]
      BY <1>2, <1>7 DEF TypeOK, ConnType
    <2> HIDE DEF r
    <2>3. conn' \in [Conns -> ConnType] /\ LifeInv' /\ CallInv'
      BY <1>1, <1>7, <2>1, <2>2, QuietStep
    <2> QED
      BY <1>1, <1>7, <2>3 DEF TypeOK
  <1>8. ASSUME NEW all \in BOOLEAN, calls' = [calls EXCEPT ![io[c]] = <<Broadcast(c, all)>>],
               UNCHANGED conn, \A d \in Conns : peers'[d] = peers[d] \/ peers[d] # "absent",
               peers' \in [Conns -> {"absent", "open", "joined"}],
               tasks' \in [IoThreads -> Seq(CallType)]
        PROVE  WsInv'
    <2>1. PICK w \in Threads : w = io[c]
      BY DEF TypeOK, Threads
    <2>2. calls' \in [Threads -> Seq(CallType)] /\ CallsOK(io[c])'
      BY <1>1, <1>8, ListOfOne
    <2>3. CallsOK(w)'
      BY <1>1, <2>1, <2>2
    <2>4. \A u \in Threads \ {w} : calls'[u] = calls[u]
      BY <1>8, <2>1 DEF TypeOK
    <2>5. CallInv'
      BY <1>1, <1>8, <2>3, <2>4, OneThread
    <2>6. LifeInv'
      BY <1>8, LifeSteady
    <2> QED
      BY <1>1, <1>8, <2>2, <2>5, <2>6 DEF TypeOK
  <1>9. CASE Join(c)
    <2>1. peers[c] = "open" /\ peers' = [peers EXCEPT ![c] = "joined"]
      BY <1>9 DEF Join, Reads
    <2>2. /\ peers' \in [Conns -> {"absent", "open", "joined"}]
          /\ \A d \in Conns : peers'[d] = peers[d] \/ peers[d] # "absent"
      BY <2>1 DEF TypeOK
    <2> QED
      BY <1>4, <1>8, <1>9, <2>2 DEF Join
  <1>10. CASE Relayed(c)
    BY <1>8, <1>10 DEF Relayed, TypeOK
  <1>11. CASE Rejects(c) \/ Refuse(c)
    BY <1>4, <1>5, <1>11 DEF Rejects, Refuse, TypeOK
  <1>12. CASE Answered(c)
    BY <1>4, <1>6, <1>12 DEF Answered
  <1> QED
    BY <1>7, <1>9, <1>10, <1>11, <1>12 DEF Throws

\* The last callbacks of a connection.
LEMMA EndStep ==
    ASSUME WsInv, NEW c \in Conns, ReadClose(c) \/ ReadFails(c) \/ WriteLast(c)
    PROVE  WsInv'
  <1> USE DEF WsInv
  <1>1. /\ conn[c].obj = "alive" /\ calls[io[c]] = <<>>
        /\ UNCHANGED <<io, tasks, frames, deleted>>
    BY DEF ReadClose, ReadFails, WriteLast, Ready
  <1>2. conn[c] \in ConnType
    BY DEF TypeOK
  <1>3. PICK r \in ConnType, op \in {"answer", "destroy"} :
            /\ r.obj = "alive" /\ r.userdata = conn[c].userdata /\ r.told = conn[c].told
            /\ Leave(c, r, op)
    <2>1. CASE ReadClose(c)
      <3> DEFINE r == [conn[c] EXCEPT !.reading = FALSE, !.recvClose = TRUE]
                 q == [r EXCEPT !.closing = TRUE, !.socket = "closed"]
      <3>1. /\ r \in ConnType /\ r.obj = conn[c].obj /\ r.userdata = conn[c].userdata
            /\ r.told = conn[c].told
        BY <1>2 DEF ConnType
      <3>2. ASSUME NEW s \in ConnType
            PROVE  LET x == [s EXCEPT !.closing = TRUE, !.socket = "closed"] IN
                   /\ x \in ConnType /\ x.obj = s.obj /\ x.userdata = s.userdata
                   /\ x.told = s.told
        BY DEF ConnType
      <3>3. Leave(c, r, "answer") \/ Leave(c, q, "destroy")
        BY <2>1 DEF ReadClose
      <3> HIDE DEF r
      <3> QED
        BY <1>1, <3>1, <3>2, <3>3
    <2>2. CASE ReadFails(c)
      <3> DEFINE r == [conn[c] EXCEPT !.reading = FALSE, !.closing = TRUE, !.socket = "closed"]
      <3>1. /\ r \in ConnType /\ r.obj = conn[c].obj /\ r.userdata = conn[c].userdata
            /\ r.told = conn[c].told
        BY <1>2 DEF ConnType
      <3>2. Leave(c, r, "destroy")
        BY <2>2 DEF ReadFails
      <3> HIDE DEF r
      <3> QED
        BY <1>1, <3>1, <3>2
    <2>3. CASE WriteLast(c)
      <3> DEFINE r == [conn[c] EXCEPT !.sending = FALSE, !.closing = TRUE]
                 q == [r EXCEPT !.socket = "broken"]
      <3>1. /\ r \in ConnType /\ r.obj = conn[c].obj /\ r.userdata = conn[c].userdata
            /\ r.told = conn[c].told
        BY <1>2 DEF ConnType
      <3>2. ASSUME NEW s \in ConnType
            PROVE  LET x == [s EXCEPT !.socket = "broken"] IN
                   /\ x \in ConnType /\ x.obj = s.obj /\ x.userdata = s.userdata
                   /\ x.told = s.told
        BY DEF ConnType
      <3>3. Leave(c, r, "destroy") \/ Leave(c, q, "destroy")
        BY <2>3 DEF WriteLast
      <3> HIDE DEF r
      <3> QED
        BY <1>1, <3>1, <3>2, <3>3
    <2> QED
      BY <2>1, <2>2, <2>3
  <1>4. /\ conn' \in [Conns -> ConnType]
        /\ peers' \in [Conns -> {"absent", "open", "joined"}]
        /\ calls' \in [Threads -> Seq(CallType)]
        /\ LifeInv' /\ CallInv'
    BY <1>1, <1>3, LeaveKeeps
  <1> QED
    BY <1>1, <1>4 DEF TypeOK

LEMMA WriteStep ==
    ASSUME WsInv, NEW c \in Conns, WriteDone(c)
    PROVE  WsInv'
  <1> USE DEF WsInv
  <1> DEFINE q == [conn[c] EXCEPT !.sending = FALSE, !.closing = conn[c].sentClose]
  <1>1. /\ conn[c].obj = "alive" /\ conn' = [conn EXCEPT ![c] = DoWrite(q)]
        /\ UNCHANGED <<io, peers, calls, tasks, frames, deleted>>
    BY DEF WriteDone, Ready
  <1>2. conn[c] \in ConnType
    BY DEF TypeOK
  <1>3. /\ q \in ConnType /\ q.obj = conn[c].obj /\ q.userdata = conn[c].userdata
        /\ q.told = conn[c].told
    BY <1>2 DEF ConnType
  <1> HIDE DEF q
  <1>4. DoWrite(q) \in ConnType /\ SameLife(q, DoWrite(q))
    BY <1>3, Writes
  <1>5. conn' \in [Conns -> ConnType] /\ LifeInv' /\ CallInv'
    BY <1>1, <1>3, <1>4, QuietStep DEF SameLife
  <1> QED
    BY <1>1, <1>5 DEF TypeOK

LEMMA TaskStep ==
    ASSUME WsInv, NEW t \in IoThreads, RunTask(t)
    PROVE  WsInv'
  <1> USE DEF WsInv
  <1>1. /\ tasks[t] \in Seq(CallType) /\ tasks[t] # <<>>
        /\ tasks' = [tasks EXCEPT ![t] = Tail(@)]
        /\ UNCHANGED <<io, peers, calls, frames, deleted>>
    BY DEF RunTask, TypeOK
  <1>2. Head(tasks[t]) \in CallType /\ Tail(tasks[t]) \in Seq(CallType)
    BY <1>1, HeadTailProperties
  <1>3. tasks' \in [IoThreads -> Seq(CallType)]
    BY <1>1, <1>2 DEF TypeOK
  <1>4. PICK c \in Conns : c = Head(tasks[t]).conn
    BY <1>2 DEF CallType
  <1>5. CASE UNCHANGED conn
    <2>1. LifeInv' /\ CallInv'
      BY <1>1, <1>5, LifeSteady, CallsSteady
    <2> QED
      BY <1>1, <1>3, <1>5, <2>1 DEF TypeOK
  <1>6. CASE conn[c].obj = "alive" /\ \E r \in {CloseBody(conn[c]), Enqueue(conn[c])} :
                                          conn' = [conn EXCEPT ![c] = r]
    <2>1. conn[c] \in ConnType
      BY DEF TypeOK
    <2>2. PICK r \in ConnType : SameLife(conn[c], r) /\ conn' = [conn EXCEPT ![c] = r]
      BY <1>6, <2>1, Writes
    <2>3. conn' \in [Conns -> ConnType] /\ LifeInv' /\ CallInv'
      BY <1>1, <1>6, <2>2, QuietStep DEF SameLife
    <2> QED
      BY <1>1, <1>3, <2>3 DEF TypeOK
  <1> QED
    BY <1>4, <1>5, <1>6 DEF RunTask

----------------------------------------------------------------------------
(* The steps of a thread through its calls.                                *)

\* The place of a call that stays in a list of n calls when the first is
\* replaced by m others.
LEMMA Places ==
    ASSUME NEW m \in Nat, NEW n \in Nat, NEW j \in 2 .. n, NEW k \in Int, j = k - m + 1
    PROVE  /\ j \in 1 .. n /\ 1 \in 1 .. n /\ n # 1
           /\ j = n => k = m + n - 1
  OBVIOUS

\* A thread that makes its next call, whose own connections live on unless
\* the call was the end of a callback.
LEMMA CallMade ==
    ASSUME WsInv, UNCHANGED io, NEW t \in Threads, calls[t] # <<>>,
           NEW more \in Seq(CallType), Then(t, more),
           \A k \in 1 .. Len(more) :
              /\ more[k].op \in {"send", "close"}
              /\ io[more[k].conn] = t => conn'[more[k].conn].obj = "alive",
           \A d \in Conns :
              /\ conn'[d].userdata = conn[d].userdata
              /\ conn'[d].obj = conn[d].obj
                 \/ (io[d] = t /\ calls[t][1].op \in {"answer", "destroy"})
    PROVE  calls' \in [Threads -> Seq(CallType)] /\ CallInv'
  <1> USE DEF WsInv
  <1>1. /\ calls' \in [Threads -> Seq(CallType)]
        /\ \A u \in Threads \ {t} : calls'[u] = calls[u]
        /\ Len(calls'[t]) = Len(more) + Len(calls[t]) - 1
        /\ \A k \in 1 .. Len(calls'[t]) :
              \/ k <= Len(more) /\ calls'[t][k] = more[k]
              \/ \E j \in 2 .. Len(calls[t]) :
                    j = k - Len(more) + 1 /\ calls'[t][k] = calls[t][j]
    BY Continues
  <1>2. Len(more) \in Nat /\ Len(calls[t]) \in Nat /\ Len(calls[t]) # 0
    BY LenProperties, EmptySeq DEF TypeOK
  <1>3. CallsOK(t)
    BY DEF CallInv
  <1>4. ASSUME NEW k \in 1 .. Len(calls'[t])
        PROVE  LET call == calls'[t][k] IN
               /\ io[call.conn] = t => conn'[call.conn].obj = "alive"
               /\ call.op \in {"cast", "answer", "destroy"} => io[call.conn] = t
               /\ call.op \in {"answer", "destroy"} =>
                     k = Len(calls'[t]) /\ ~conn'[call.conn].userdata
    <2>1. CASE k <= Len(more) /\ calls'[t][k] = more[k]
      <3>1. k \in 1 .. Len(more)
        BY <1>2, <2>1
      <3> QED
        BY <2>1, <3>1
    <2>2. ASSUME NEW j \in 2 .. Len(calls[t]),
                 j = k - Len(more) + 1, calls'[t][k] = calls[t][j]
          PROVE  LET call == calls'[t][k] IN
                 /\ io[call.conn] = t => conn'[call.conn].obj = "alive"
                 /\ call.op \in {"cast", "answer", "destroy"} => io[call.conn] = t
                 /\ call.op \in {"answer", "destroy"} =>
                       k = Len(calls'[t]) /\ ~conn'[call.conn].userdata
      <3>6. k \in Int
        BY <1>1, <1>2
      <3>1. /\ j \in 1 .. Len(calls[t]) /\ 1 \in 1 .. Len(calls[t]) /\ Len(calls[t]) # 1
            /\ j = Len(calls[t]) => k = Len(more) + Len(calls[t]) - 1
        BY <1>2, <2>2, <3>6, Places
      <3>2. calls[t][j].conn \in Conns
        BY <3>1, ListedCall
      <3>3. calls[t][1].op \notin {"answer", "destroy"}
        BY <1>3, <3>1 DEF CallsOK
      <3>4. /\ conn'[calls[t][j].conn].obj = conn[calls[t][j].conn].obj
            /\ conn'[calls[t][j].conn].userdata = conn[calls[t][j].conn].userdata
        BY <3>2, <3>3
      <3>5. j = Len(calls[t]) => k = Len(calls'[t])
        BY <1>1, <3>1
      <3> QED
        BY <1>3, <2>2, <3>1, <3>4, <3>5 DEF CallsOK
    <2> QED
      BY <1>1, <2>1, <2>2
  <1>5. CallsOK(t)'
    BY <1>4 DEF CallsOK
  <1>6. CallInv'
    BY <1>1, <1>5, OneThread
  <1> QED
    BY <1>1, <1>6

\* The same for a call that leaves no further ones.
LEMMA CallEnds ==
    ASSUME WsInv, UNCHANGED io, NEW t \in Threads, calls[t] # <<>>, Then(t, <<>>),
           \A d \in Conns :
              /\ conn'[d].userdata = conn[d].userdata
              /\ conn'[d].obj = conn[d].obj
                 \/ (io[d] = t /\ calls[t][1].op \in {"answer", "destroy"})
    PROVE  calls' \in [Threads -> Seq(CallType)] /\ CallInv'
  <1>1. PICK more \in Seq(CallType) : more = <<>> /\ Then(t, more)
    BY EmptySeq
  <1>2. Len(more) = 0
    BY <1>1, EmptySeq
  <1>3. ASSUME NEW k \in 1 .. Len(more) PROVE FALSE
    BY <1>2, <1>3
  <1> QED
    BY <1>1, <1>3, CallMade

\* The first call of a list, and what is known of it.
LEMMA FirstCall ==
    ASSUME WsInv, NEW t \in Threads, calls[t] # <<>>
    PROVE  /\ Head(calls[t]) = calls[t][1] /\ Head(calls[t]) \in CallType
           /\ Head(calls[t]).conn \in Conns
           /\ io[Head(calls[t]).conn] = t => conn[Head(calls[t]).conn].obj = "alive"
           /\ Head(calls[t]).op \in {"cast", "answer", "destroy"} => io[Head(calls[t]).conn] = t
           /\ Head(calls[t]).op \in {"answer", "destroy"} =>
                 Len(calls[t]) = 1 /\ ~conn[Head(calls[t]).conn].userdata
  <1>1. calls[t] \in Seq(CallType) /\ CallsOK(t)
    BY DEF WsInv, TypeOK, CallInv
  <1>2. Head(calls[t]) = calls[t][1] /\ 1 \in 1 .. Len(calls[t])
    BY <1>1, LenProperties, EmptySeq
  <1>3. calls[t][1] \in CallType /\ calls[t][1].conn \in Conns
    BY <1>2, ListedCall DEF WsInv
  <1> QED
    BY <1>1, <1>2, <1>3 DEF CallsOK

LEMMA CastStep ==
    ASSUME WsInv, NEW t \in Threads, RunCast(t)
    PROVE  WsInv'
  <1> DEFINE k == Head(calls[t])
             S == {d \in Conns : peers[d] = "joined" /\ (k.all \/ d # k.conn)}
  <1>1. calls[t] # <<>> /\ UNCHANGED <<io, conn, peers, tasks, frames, deleted>>
    BY DEF RunCast, Runs
  <1>2. PICK order \in SetToSeqs(S) : Then(t, [i \in DOMAIN order |-> SendText(order[i], "data")])
    BY DEF RunCast
  <1>3. S \in SUBSET Conns
    OBVIOUS
  <1>4. order \in Seq(S) /\ Len(order) \in Nat /\ DOMAIN order = 1 .. Len(order)
    BY <1>3, Orders
  <1> DEFINE more == [i \in 1 .. Len(order) |-> SendText(order[i], "data")]
  <1>5. \A i \in 1 .. Len(order) : order[i] \in S
    BY <1>4, ElementOfSeq
  <1>6. \A i \in 1 .. Len(order) : /\ SendText(order[i], "data") \in CallType
                                   /\ SendText(order[i], "data").op = "send"
                                   /\ SendText(order[i], "data").conn \in S
    <2>1. \A d \in S : /\ SendText(d, "data") \in CallType
                       /\ SendText(d, "data").op = "send" /\ SendText(d, "data").conn = d
      BY <1>3, CallTypes, CallFields
    <2> QED
      BY <1>5, <2>1
  <1>7. /\ more \in Seq(CallType) /\ Len(more) = Len(order)
        /\ \A i \in 1 .. Len(more) : more[i].op = "send" /\ more[i].conn \in S
    <2> HIDE DEF S
    <2>1. more \in Seq(CallType)
      BY <1>4, <1>6, SeqDef
    <2>2. Len(more) = Len(order)
      BY <1>4, <2>1, LenProperties
    <2> QED
      BY <1>6, <2>1, <2>2
  <1>8. \A d \in S : d \in Conns /\ conn[d].obj = "alive"
    BY DEF WsInv, TypeOK, ConnType, LifeInv
  <1>9. Then(t, more)
    BY <1>2, <1>4
  <1> HIDE DEF more, S
  <1>10. calls' \in [Threads -> Seq(CallType)] /\ CallInv'
    BY <1>1, <1>7, <1>8, <1>9, CallMade
  <1>11. LifeInv'
    BY <1>1, LifeSteady DEF WsInv
  <1> QED
    BY <1>1, <1>10, <1>11 DEF WsInv, TypeOK

\* A queued call is a task of the io thread of its connection.
LEMMA QueueTypes ==
    ASSUME WsInv, NEW t \in Threads, calls[t] # <<>>, Queue(t)
    PROVE  tasks' \in [IoThreads -> Seq(CallType)]
  <1>1. Head(calls[t]) \in CallType /\ Head(calls[t]).conn \in Conns
    BY FirstCall
  <1>2. CASE UNCHANGED tasks
    BY <1>2 DEF WsInv, TypeOK
  <1>3. CASE tasks' = [tasks EXCEPT ![io[Head(calls[t]).conn]] = Append(@, Head(calls[t]))]
    BY <1>1, <1>3, TaskAdded DEF WsInv
  <1> QED
    BY <1>2, <1>3 DEF Queue

LEMMA SendStep ==
    ASSUME WsInv, NEW t \in Threads, RunSend(t)
    PROVE  WsInv'
  <1>1. /\ calls[t] # <<>> /\ Queue(t) /\ Then(t, <<>>)
        /\ UNCHANGED <<io, conn, peers, frames, deleted>>
    BY DEF RunSend, Runs
  <1>2. <<>> \in Seq(CallType) /\ Len(<<>>) = 0
    BY EmptySeq
  <1>3. calls' \in [Threads -> Seq(CallType)] /\ CallInv'
    BY <1>1, CallEnds
  <1>4. LifeInv'
    BY <1>1, LifeSteady DEF WsInv
  <1>5. tasks' \in [IoThreads -> Seq(CallType)]
    BY <1>1, QueueTypes
  <1> QED
    BY <1>1, <1>3, <1>4, <1>5 DEF WsInv, TypeOK

LEMMA CloseStep ==
    ASSUME WsInv, NEW t \in Threads, RunClose(t)
    PROVE  WsInv'
  <1>1. /\ calls[t] # <<>> /\ Then(t, <<>>) /\ UNCHANGED <<io, peers, frames, deleted>>
    BY DEF RunClose, Runs
  <1>2. <<>> \in Seq(CallType) /\ Len(<<>>) = 0
    BY EmptySeq
  <1>3. PICK c \in Conns : c = Head(calls[t]).conn
    BY <1>1, FirstCall
  <1>4. CASE io[c] # t /\ Queue(t) /\ UNCHANGED conn
    <2>1. calls' \in [Threads -> Seq(CallType)] /\ CallInv'
      BY <1>1, <1>4, CallEnds
    <2>2. LifeInv'
      BY <1>1, <1>4, LifeSteady DEF WsInv
    <2>3. tasks' \in [IoThreads -> Seq(CallType)]
      BY <1>1, <1>4, QueueTypes
    <2> QED
      BY <1>1, <1>4, <2>1, <2>2, <2>3 DEF WsInv, TypeOK
  <1>5. CASE io[c] = t /\ conn' = [conn EXCEPT ![c] = CloseBody(@)] /\ UNCHANGED tasks
    <2>1. conn[c].obj = "alive" /\ conn[c] \in ConnType
      BY <1>1, <1>3, <1>5, FirstCall DEF WsInv, TypeOK
    <2>2. CloseBody(conn[c]) \in ConnType /\ SameLife(conn[c], CloseBody(conn[c]))
      BY <2>1, Writes
    <2>3. /\ conn' \in [Conns -> ConnType] /\ SameLife(conn[c], conn'[c])
          /\ \A d \in Conns \ {c} : conn'[d] = conn[d]
      BY <1>5, <2>2 DEF WsInv, TypeOK
    <2>4. calls' \in [Threads -> Seq(CallType)] /\ CallInv'
      BY <1>1, <2>3, CallEnds DEF SameLife
    <2>5. LifeInv'
      BY <1>1, <2>1, <2>3, LifeSteady DEF WsInv, SameLife
    <2> QED
      BY <1>1, <1>5, <2>3, <2>4, <2>5 DEF WsInv, TypeOK
  <1> QED
    BY <1>3, <1>4, <1>5 DEF RunClose

LEMMA RestStep ==
    ASSUME WsInv, NEW t \in Threads, RunEnd(t)
    PROVE  WsInv'
  <1>1. /\ calls[t] # <<>> /\ Then(t, <<>>) /\ Head(calls[t]).op \in {"answer", "destroy"}
        /\ conn' = [conn EXCEPT ![Head(calls[t]).conn] = After(@, Head(calls[t]).op)]
        /\ UNCHANGED <<io, peers, tasks, frames, deleted>>
    BY DEF RunEnd, Runs
  <1>2. <<>> \in Seq(CallType) /\ Len(<<>>) = 0
    BY EmptySeq
  <1>3. PICK c \in Conns : c = Head(calls[t]).conn
    BY <1>1, FirstCall
  <1>4. /\ io[c] = t /\ conn[c].obj = "alive" /\ ~conn[c].userdata
        /\ calls[t][1].op \in {"answer", "destroy"} /\ conn[c] \in ConnType
    BY <1>1, <1>3, FirstCall DEF WsInv, TypeOK
  <1>5. LET s == After(conn[c], Head(calls[t]).op) IN
        /\ s \in ConnType /\ s.userdata = conn[c].userdata /\ s.told = conn[c].told
        /\ s.obj = "alive" \/ (s.obj = "freed" /\ ~s.reading /\ ~s.sending)
    BY <1>4, AfterEnds
  <1>6. /\ conn' \in [Conns -> ConnType]
        /\ conn'[c].userdata = conn[c].userdata /\ conn'[c].told = conn[c].told
        /\ conn'[c].obj = "alive"
           \/ (conn'[c].obj = "freed" /\ ~conn'[c].reading /\ ~conn'[c].sending)
        /\ \A d \in Conns \ {c} : conn'[d] = conn[d]
    BY <1>1, <1>3, <1>5 DEF WsInv, TypeOK
  <1>7. calls' \in [Threads -> Seq(CallType)] /\ CallInv'
    BY <1>1, <1>4, <1>6, CallEnds
  <1>8. LifeInv'
    BY <1>1, <1>4, <1>6 DEF WsInv, LifeInv
  <1> QED
    BY <1>1, <1>6, <1>7, <1>8 DEF WsInv, TypeOK

LEMMA RoomStep ==
    ASSUME WsInv, NEW t \in Threads, CloseRoom(t)
    PROVE  WsInv'
  <1> DEFINE S == {c \in Conns : peers[c] # "absent"}
  <1>1. calls[t] = <<>> /\ deleted' = TRUE /\ UNCHANGED <<io, conn, peers, tasks, frames>>
    BY DEF CloseRoom
  <1>2. PICK order \in SetToSeqs(S) : calls' = [calls EXCEPT ![t] = NoticeAndClose(order)]
    BY DEF CloseRoom
  <1> DEFINE more == NoticeAndClose(order)
  <1>3. /\ more \in Seq(CallType)
        /\ \A k \in 1 .. Len(more) : more[k].conn \in S /\ more[k].op \in {"send", "close"}
    BY Notices
  <1>4. \A d \in S : d \in Conns /\ conn[d].obj = "alive"
    BY DEF WsInv, TypeOK, ConnType, LifeInv
  <1> HIDE DEF S, more
  <1>5. /\ calls' \in [Threads -> Seq(CallType)] /\ calls'[t] = more
        /\ \A u \in Threads \ {t} : calls'[u] = calls[u]
    BY <1>2, <1>3 DEF WsInv, TypeOK, more
  <1>6. CallsOK(t)'
    BY <1>1, <1>3, <1>4, <1>5 DEF CallsOK
  <1>7. CallInv'
    BY <1>1, <1>5, <1>6, OneThread DEF WsInv
  <1>8. LifeInv'
    BY <1>1, LifeSteady DEF WsInv
  <1> QED
    BY <1>1, <1>5, <1>7, <1>8 DEF WsInv, TypeOK

LEMMA StepInv == WsInv /\ [Next]_vars => WsInv'
  <1> SUFFICES ASSUME WsInv, [Next]_vars PROVE WsInv'
    OBVIOUS
  <1>1. ASSUME NEW c \in Conns, Callback(c) PROVE WsInv'
    BY <1>1, OpenStep, ReadStep, EndStep, WriteStep DEF Callback
  <1>2. ASSUME NEW t \in IoThreads, RunTask(t) PROVE WsInv'
    BY <1>2, TaskStep
  <1>3. ASSUME NEW t \in Threads, Step(t) \/ CloseRoom(t) PROVE WsInv'
    BY <1>3, CastStep, SendStep, CloseStep, RestStep, RoomStep DEF Step
  <1>4. CASE UNCHANGED vars
    BY <1>4 DEF vars, WsInv, TypeOK, LifeInv, CallInv, CallsOK
  <1> QED
    BY <1>1, <1>2, <1>3, <1>4 DEF Next

LEMMA WsInvHolds == Spec => []WsInv
  BY InitInv, StepInv, PTL DEF Spec

----------------------------------------------------------------------------
(* The theorems.                                                           *)

\* Every record, list and task keeps its type (websocket.h, room.cpp).
THEOREM ConnectionTypes == Spec => []TypeOK
  <1>1. WsInv => TypeOK
    BY DEF WsInv
  <1> QED
    BY <1>1, WsInvHolds, PTL

\* No read or write is out on a destroyed connection, in whatever order reads
\* and writes fail, closes are asked for and frames arrive (check_destroy).
THEOREM PendingIsAlive == Spec => []PendingKeepsAlive
  <1>1. WsInv => PendingKeepsAlive
    BY DEF WsInv, LifeInv, PendingKeepsAlive
  <1> QED
    BY <1>1, WsInvHolds, PTL

\* What a thread has left to call on its own connections is called on live
\* objects, for any number of threads and connections on each (broadcast,
\* closeRoom, check_destroy).
THEOREM OwnCallsAreSafe == Spec => []OwnCallsReachLive
  <1>1. WsInv => OwnCallsReachLive
    <2> SUFFICES ASSUME WsInv, NEW t \in IoThreads, NEW k \in DOMAIN calls[t],
                        io[calls[t][k].conn] = t
                 PROVE  conn[calls[t][k].conn].obj = "alive"
      BY DEF OwnCallsReachLive
    <2>1. t \in Threads /\ calls[t] \in Seq(CallType)
      BY DEF WsInv, TypeOK, Threads
    <2>2. k \in 1 .. Len(calls[t])
      BY <2>1, LenProperties
    <2> QED
      BY <2>1, <2>2 DEF WsInv, CallInv, CallsOK
  <1> QED
    BY <1>1, WsInvHolds, PTL

\* A departure is announced once, however many of its callbacks fail
\* (onWsClose, onclose, onerror).
THEOREM DeparturesAreToldOnce == Spec => []LeavesOnce
  <1>1. WsInv => LeavesOnce
    <2> SUFFICES ASSUME WsInv, NEW c \in Conns PROVE conn[c].told <= 1
      BY DEF LeavesOnce
    <2>1. conn[c].told = 0 \/ conn[c].told = 1
      BY DEF WsInv, LifeInv
    <2> QED
      BY <2>1
  <1> QED
    BY <1>1, WsInvHolds, PTL

\* A destroyed connection left the peer table and freed its room id before
\* (check_destroy, onclose).
THEOREM FreedAreForgotten == Spec => []FreedIsForgotten
  <1>1. WsInv => FreedIsForgotten
    BY DEF WsInv, LifeInv, FreedIsForgotten
  <1> QED
    BY <1>1, WsInvHolds, PTL

=============================================================================
