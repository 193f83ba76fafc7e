----------------------------- MODULE RelayProofs -----------------------------
(***************************************************************************)
(* Proofs about Relay for any number of connections, messages and presence *)
(* frames and any size of the cache.                                       *)
(***************************************************************************)
EXTENDS Relay, SequenceTheorems, TLAPS

\* What the frames posted to c are, their order aside.
Frames(c) == {log[c][k] : k \in DOMAIN log[c]}

\* Where a handler is.
Joining(c) == run[c].at \in {"history", "members", "joined"}
Casting(c) == run[c].at \in {"cast", "send"}

\* The handler of d will still post its frame, of this type, to c.
Pending(d, c, type) ==
    /\ run[d].frame.type = type
    /\ run[d].at = "cast" \/ (run[d].at = "send" /\ c \in run[d].targets)

\* A handler speaks for its own connection, of a departure once the entry is
\* gone and of anything else while it is there.
RunOK(c) ==
    /\ run[c].at = "idle" => run[c] = Quiet
    /\ Joining(c) => member[c] = "joined"
    /\ run[c].at \in {"members", "joined"} => run[c].frame.type = "joined" /\ run[c].frame.from = c
    /\ Casting(c) =>
          /\ run[c].frame.from = c
          /\ run[c].frame.type \in {"peer_join", "peer_leave", "msg", "presence"}
          /\ member[c] = IF run[c].frame.type = "peer_leave" THEN "left" ELSE "joined"
          /\ run[c].frame.type = "msg" => run[c].frame.msg <= sent
          /\ run[c].except = IF run[c].frame.type \in {"msg", "peer_leave"} THEN Nobody ELSE c

\* A welcome is posted when finalizeJoin is nearly done, a message after it
\* entered the cache, a departure after the entry went.
LogOK(c) ==
    \A f \in Frames(c) :
        /\ f.type = "joined" => member[c] = "joined" /\ ~Joining(c)
        /\ f.type = "msg" => f.msg <= sent
        /\ f.type = "peer_leave" => f.from \in Conns /\ member[f.from] = "left"

\* A message that is still to be posted to c is newer than those of its
\* sender that were.
OrderOK(c) ==
    \A d \in Conns : Pending(d, c, "msg") =>
        \A f \in Frames(c) : f.type = "msg" /\ f.from = d => f.msg < run[d].frame.msg

RunInv == \A c \in Conns : RunOK(c)
LogInv == \A c \in Conns : LogOK(c)
OrderInv == \A c \in Conns : OrderOK(c)

----------------------------------------------------------------------------
(* Frames and handlers.                                                    *)

LEMMA FrameMade ==
    ASSUME NEW type \in {"none", "joined", "peer_join", "peer_leave", "msg", "presence", "deleted"},
           NEW from \in Conns \cup {Nobody}, NEW msg \in 0 .. MaxMsgs,
           NEW history \in Seq(1 .. MaxMsgs), NEW members \in SUBSET Conns
    PROVE  LET f == Frame(type, from, msg, history, members) IN
           /\ f \in FrameType /\ f.type = type /\ f.from = from /\ f.msg = msg
           /\ f.history = history /\ f.members = members
  BY DEF Frame, FrameType

\* The frames without a history.
LEMMA PlainFrame ==
    ASSUME NEW type \in {"none", "joined", "peer_join", "peer_leave", "msg", "presence", "deleted"},
           NEW from \in Conns \cup {Nobody}, NEW msg \in 0 .. MaxMsgs
    PROVE  LET f == Frame(type, from, msg, <<>>, {}) IN
           f \in FrameType /\ f.type = type /\ f.from = from /\ f.msg = msg
  <1>1. PICK history \in Seq(1 .. MaxMsgs), members \in SUBSET Conns : history = <<>> /\ members = {}
    BY EmptySeq
  <1> QED
    BY <1>1 DEF Frame, FrameType

LEMMA HandlerMade ==
    ASSUME NEW at \in {"idle", "history", "members", "joined", "cast", "send"},
           NEW frame \in FrameType, NEW except \in Conns \cup {Nobody},
           NEW targets \in SUBSET Conns
    PROVE  LET h == Handler(at, frame, except, targets) IN
           /\ h \in HandlerType /\ h.at = at /\ h.frame = frame
           /\ h.except = except /\ h.targets = targets
  BY DEF Handler, HandlerType

LEMMA QuietType == Quiet \in HandlerType /\ Quiet.at = "idle"
  <1>1. NoFrame \in FrameType
    BY PlainFrame, RelayAssumption DEF NoFrame
  <1> QED
    BY <1>1, HandlerMade DEF Quiet

\* A handler moves on.
LEMMA HandlerMoves ==
    ASSUME NEW h \in HandlerType
    PROVE  /\ \A at \in {"idle", "history", "members", "joined", "cast", "send"} :
                 LET g == [h EXCEPT !.at = at] IN
                 /\ g \in HandlerType /\ g.at = at /\ g.frame = h.frame
                 /\ g.except = h.except /\ g.targets = h.targets
           /\ \A targets \in SUBSET Conns :
                 LET g == [h EXCEPT !.targets = targets] IN
                 /\ g \in HandlerType /\ g.at = h.at /\ g.frame = h.frame
                 /\ g.except = h.except /\ g.targets = targets
           /\ h.frame \in FrameType /\ h.targets \in SUBSET Conns
           /\ h.at \in {"idle", "history", "members", "joined", "cast", "send"}
  BY DEF HandlerType

LEMMA RunSet ==
    ASSUME TypeOK, NEW c \in Conns, NEW h \in HandlerType, run' = [run EXCEPT ![c] = h]
    PROVE  /\ run' \in [Conns -> HandlerType] /\ run'[c] = h
           /\ \A e \in Conns \ {c} : run'[e] = run[e]
  BY DEF TypeOK

LEMMA FrameFields ==
    ASSUME NEW f \in FrameType
    PROVE  /\ f.from \in Conns \cup {Nobody} /\ f.msg \in 0 .. MaxMsgs
           /\ f.history \in Seq(1 .. MaxMsgs) /\ f.members \in SUBSET Conns
           /\ f.type \in {"none", "joined", "peer_join", "peer_leave", "msg", "presence", "deleted"}
  BY DEF FrameType

LEMMA FramesTyped ==
    ASSUME TypeOK, NEW c \in Conns
    PROVE  Frames(c) \subseteq FrameType
  <1>1. log[c] \in Seq(FrameType)
    BY DEF TypeOK
  <1> QED
    BY <1>1, LenProperties, ElementOfSeq DEF Frames

----------------------------------------------------------------------------
(* The logs.                                                               *)

\* What a frame posted to d changes.
Posts(d, f) ==
    /\ log' \in [Conns -> Seq(FrameType)]
    /\ \A e \in Conns \ {d} : log'[e] = log[e] /\ Frames(e)' = Frames(e)
    /\ \/ d \in Connected /\ log'[d] = Append(log[d], f) /\ Frames(d)' = Frames(d) \cup {f}
       \/ d \notin Connected /\ log'[d] = log[d] /\ Frames(d)' = Frames(d)

LEMMA PostPosts ==
    ASSUME TypeOK, NEW d \in Conns, NEW f \in FrameType, Post(d, f)
    PROVE  Posts(d, f)
  <1>1. log[d] \in Seq(FrameType)
    BY DEF TypeOK
  <1>2. CASE d \in Connected
    <2>1. log' = [log EXCEPT ![d] = Append(@, f)]
      BY <1>2 DEF Post
    <2>2. /\ Append(log[d], f) \in Seq(FrameType) /\ Len(Append(log[d], f)) = Len(log[d]) + 1
          /\ \A i \in 1 .. Len(log[d]) : Append(log[d], f)[i] = log[d][i]
          /\ Append(log[d], f)[Len(log[d]) + 1] = f
      BY <1>1, AppendProperties
    <2>3. /\ log' \in [Conns -> Seq(FrameType)] /\ log'[d] = Append(log[d], f)
          /\ \A e \in Conns \ {d} : log'[e] = log[e]
      BY <2>1, <2>2 DEF TypeOK
    <2>4. /\ DOMAIN log[d] = 1 .. Len(log[d]) /\ Len(log[d]) \in Nat
          /\ DOMAIN Append(log[d], f) = 1 .. Len(log[d]) + 1
      BY <1>1, <2>2, LenProperties
    <2>5. {Append(log[d], f)[k] : k \in 1 .. Len(log[d]) + 1}
             = {log[d][k] : k \in 1 .. Len(log[d])} \cup {f}
      BY <2>2, <2>4
    <2>6. Frames(d)' = Frames(d) \cup {f}
      BY <2>3, <2>4, <2>5 DEF Frames
    <2>7. \A e \in Conns \ {d} : Frames(e)' = Frames(e)
      BY <2>3 DEF Frames
    <2> QED
      BY <1>2, <2>3, <2>6, <2>7 DEF Posts
  <1>3. CASE d \notin Connected
    <2>1. log' = log
      BY <1>3 DEF Post
    <2> QED
      BY <1>3, <2>1 DEF Posts, TypeOK, Frames
  <1> QED
    BY <1>2, <1>3

LEMMA RunFrame ==
    ASSUME TypeOK, NEW c \in Conns
    PROVE  run[c].frame \in FrameType /\ run[c].targets \in SUBSET Conns
  <1>1. run[c] \in HandlerType
    BY DEF TypeOK
  <1> QED
    BY <1>1, HandlerMoves

\* Sequences of messages, when more were sent.
LEMMA MoreMessages ==
    ASSUME NEW m \in Nat, NEW n \in Nat, m <= n, NEW s \in Seq(1 .. m)
    PROVE  s \in Seq(1 .. n)
  <1>1. 1 .. m \subseteq 1 .. n
    OBVIOUS
  <1> QED
    BY <1>1, SeqMonotonic

----------------------------------------------------------------------------
(* What an action changes of the handlers and the logs.                    *)

LEMMA OpenEffect ==
    ASSUME TypeOK, NEW c \in Conns, Open(c)
    PROVE  /\ member[c] = "absent" /\ member' = [member EXCEPT ![c] = "open"]
           /\ UNCHANGED <<cache, sent, sender, run, log, closer, deleted, since, presence>>
           /\ TypeOK'
  BY DEF Open, TypeOK

LEMMA MarkEffect ==
    ASSUME TypeOK, NEW c \in Conns, MarkPeerJoined(c)
    PROVE  /\ member[c] = "open" /\ member' = [member EXCEPT ![c] = "joined"]
           /\ run[c] = Quiet /\ run'[c].at = "history"
           /\ \A e \in Conns \ {c} : run'[e] = run[e]
           /\ UNCHANGED <<cache, sent, sender, log, closer, deleted, since, presence>>
           /\ TypeOK'
  <1>1. run[c] \in HandlerType
    BY DEF TypeOK
  <1>2. PICK h \in HandlerType : h = [run[c] EXCEPT !.at = "history"] /\ h.at = "history"
    BY <1>1, HandlerMoves
  <1>3. run' = [run EXCEPT ![c] = h]
    BY <1>2 DEF MarkPeerJoined
  <1>4. run' \in [Conns -> HandlerType] /\ run'[c] = h /\ \A e \in Conns \ {c} : run'[e] = run[e]
    BY <1>3, RunSet
  <1>5. /\ member[c] = "open" /\ member' = [member EXCEPT ![c] = "joined"] /\ run[c] = Quiet
        /\ UNCHANGED <<cache, sent, sender, log, closer, deleted, since, presence>>
    BY DEF MarkPeerJoined
  <1> QED
    BY <1>2, <1>4, <1>5 DEF TypeOK

LEMMA HistoryEffect ==
    ASSUME TypeOK, NEW c \in Conns, RecentMessages(c)
    PROVE  /\ run[c].at = "history" /\ run'[c].at = "members"
           /\ run'[c].frame.type = "joined" /\ run'[c].frame.from = c
           /\ run'[c].frame.history = cache
           /\ \A e \in Conns \ {c} : run'[e] = run[e]
           /\ since' = [since EXCEPT ![c] = sent]
           /\ UNCHANGED <<member, cache, sent, sender, log, closer, deleted, presence>>
           /\ TypeOK'
  <1>1. cache \in Seq(1 .. MaxMsgs)
    <2>1. sent \in Nat /\ sent <= MaxMsgs /\ cache \in Seq(1 .. sent)
      BY RelayAssumption DEF TypeOK
    <2> QED
      BY <2>1, RelayAssumption, MoreMessages
  <1>2. 0 \in 0 .. MaxMsgs
    BY RelayAssumption
  <1>3. PICK f \in FrameType : /\ f = Frame("joined", c, 0, cache, {}) /\ f.type = "joined"
                               /\ f.from = c /\ f.history = cache
    <2>1. PICK members \in SUBSET Conns : members = {}
      OBVIOUS
    <2> QED
      BY <1>1, <1>2, <2>1, FrameMade
  <1>4. PICK h \in HandlerType : /\ h = Handler("members", f, c, {})
                                 /\ h.at = "members" /\ h.frame = f
    <2>1. PICK targets \in SUBSET Conns : targets = {}
      OBVIOUS
    <2> QED
      BY <2>1, HandlerMade
  <1>5. run' = [run EXCEPT ![c] = h]
    BY <1>3, <1>4 DEF RecentMessages
  <1>6. run' \in [Conns -> HandlerType] /\ run'[c] = h /\ \A e \in Conns \ {c} : run'[e] = run[e]
    BY <1>5, RunSet
  <1>7. /\ run[c].at = "history" /\ since' = [since EXCEPT ![c] = sent]
        /\ UNCHANGED <<member, cache, sent, sender, log, closer, deleted, presence>>
    BY DEF RecentMessages
  <1> QED
    BY <1>3, <1>4, <1>6, <1>7 DEF TypeOK

LEMMA MembersEffect ==
    ASSUME TypeOK, NEW c \in Conns, JoinedPeerIds(c)
    PROVE  /\ run[c].at = "members" /\ run'[c].at = "joined"
           /\ run'[c].frame.type = run[c].frame.type /\ run'[c].frame.from = run[c].frame.from
           /\ run'[c].frame.history = run[c].frame.history
           /\ run'[c].frame.members = Joined
           /\ \A e \in Conns \ {c} : run'[e] = run[e]
           /\ UNCHANGED <<member, cache, sent, sender, log, closer, deleted, since, presence>>
           /\ TypeOK'
  <1>1. PICK list \in SUBSET Conns : list = Joined
    BY DEF Joined
  <1>2. run[c] \in HandlerType
    BY DEF TypeOK
  <1>3. PICK h \in HandlerType :
           /\ h = [run[c] EXCEPT !.at = "joined", !.frame.members = list]
           /\ h.at = "joined" /\ h.frame.type = run[c].frame.type
           /\ h.frame.from = run[c].frame.from /\ h.frame.history = run[c].frame.history
           /\ h.frame.members = list
    <2>1. ASSUME NEW r \in HandlerType
          PROVE  LET h == [r EXCEPT !.at = "joined", !.frame.members = list] IN
                 /\ h \in HandlerType
                 /\ h.at = "joined" /\ h.frame.type = r.frame.type
                 /\ h.frame.from = r.frame.from /\ h.frame.history = r.frame.history
                 /\ h.frame.members = list
      BY DEF HandlerType, FrameType
    <2> QED
      BY <1>2, <2>1
  <1>4. run' = [run EXCEPT ![c] = h]
    BY <1>1, <1>3 DEF JoinedPeerIds
  <1>5. run' \in [Conns -> HandlerType] /\ run'[c] = h /\ \A e \in Conns \ {c} : run'[e] = run[e]
    BY <1>4, RunSet
  <1>6. /\ run[c].at = "members"
        /\ UNCHANGED <<member, cache, sent, sender, log, closer, deleted, since, presence>>
    BY DEF JoinedPeerIds
  <1> QED
    BY <1>1, <1>3, <1>5, <1>6 DEF TypeOK

\* The handler of c starts to broadcast.
Announces(c, type, msg, except) ==
    /\ run' \in [Conns -> HandlerType]
    /\ run'[c].at = "cast" /\ run'[c].except = except /\ run'[c].frame.type = type
    /\ run'[c].frame.from = c /\ run'[c].frame.msg = msg
    /\ \A e \in Conns \ {c} : run'[e] = run[e]

LEMMA AnnounceEffect ==
    ASSUME TypeOK, NEW c \in Conns, NEW except \in Conns \cup {Nobody},
           NEW type \in {"peer_join", "peer_leave", "msg", "presence"},
           NEW msg \in 0 .. MaxMsgs, Announce(c, Frame(type, c, msg, <<>>, {}), except)
    PROVE  Announces(c, type, msg, except)
  <1>1. PICK f \in FrameType : /\ f = Frame(type, c, msg, <<>>, {})
                               /\ f.type = type /\ f.from = c /\ f.msg = msg
    BY PlainFrame
  <1>2. PICK targets \in SUBSET Conns : targets = {}
    OBVIOUS
  <1>3. PICK h \in HandlerType : /\ h = Handler("cast", f, except, targets)
                                 /\ h.at = "cast" /\ h.frame = f /\ h.except = except
    BY HandlerMade
  <1>4. run' = [run EXCEPT ![c] = h]
    BY <1>1, <1>2, <1>3 DEF Announce
  <1>5. run' \in [Conns -> HandlerType] /\ run'[c] = h /\ \A e \in Conns \ {c} : run'[e] = run[e]
    BY <1>4, RunSet
  <1> QED
    BY <1>1, <1>3, <1>5 DEF Announces

LEMMA WelcomeEffect ==
    ASSUME TypeOK, NEW c \in Conns, SendJoined(c)
    PROVE  /\ run[c].at = "joined" /\ Posts(c, run[c].frame) /\ Announces(c, "peer_join", 0, c)
           /\ UNCHANGED <<member, cache, sent, sender, closer, deleted, since, presence>>
           /\ TypeOK'
  <1>1. /\ run[c].at = "joined" /\ Post(c, run[c].frame)
        /\ Announce(c, Frame("peer_join", c, 0, <<>>, {}), c)
        /\ UNCHANGED <<member, cache, sent, sender, closer, deleted, since, presence>>
    BY DEF SendJoined
  <1>2. 0 \in 0 .. MaxMsgs
    BY RelayAssumption
  <1>3. PICK f \in FrameType : f = run[c].frame
    BY HandlerMoves DEF TypeOK
  <1>4. Posts(c, f)
    BY <1>1, <1>3, PostPosts
  <1>5. Announces(c, "peer_join", 0, c)
    BY <1>1, <1>2, AnnounceEffect
  <1> QED
    BY <1>1, <1>3, <1>4, <1>5 DEF TypeOK, Announces, Posts

LEMMA CastEffect ==
    ASSUME TypeOK, NEW c \in Conns, Cast(c)
    PROVE  /\ run[c].at = "cast"
           /\ \/ Joined \ {run[c].except} = {} /\ run'[c] = Quiet
              \/ /\ run'[c].at = "send" /\ run'[c].frame = run[c].frame
                 /\ run'[c].except = run[c].except
                 /\ run'[c].targets = Joined \ {run[c].except}
           /\ \A e \in Conns \ {c} : run'[e] = run[e]
           /\ UNCHANGED <<member, cache, sent, sender, log, closer, deleted, since, presence>>
           /\ TypeOK'
  <1>1. PICK rest \in SUBSET Conns : rest = Joined \ {run[c].except}
    BY DEF Joined
  <1>2. PICK h \in HandlerType :
           /\ h = IF rest = {} THEN Quiet ELSE [run[c] EXCEPT !.at = "send", !.targets = rest]
           /\ \/ rest = {} /\ h = Quiet
              \/ /\ h.at = "send" /\ h.frame = run[c].frame /\ h.except = run[c].except
                 /\ h.targets = rest
    <2>1. ASSUME NEW r \in HandlerType
          PROVE  LET h == [r EXCEPT !.at = "send", !.targets = rest] IN
                 /\ h \in HandlerType /\ h.at = "send" /\ h.frame = r.frame
                 /\ h.except = r.except /\ h.targets = rest
      BY DEF HandlerType
    <2>2. run[c] \in HandlerType
      BY DEF TypeOK
    <2> QED
      BY <2>1, <2>2, QuietType
  <1>3. run' = [run EXCEPT ![c] = h]
    BY <1>1, <1>2 DEF Cast
  <1>4. run' \in [Conns -> HandlerType] /\ run'[c] = h /\ \A e \in Conns \ {c} : run'[e] = run[e]
    BY <1>3, RunSet
  <1>5. /\ run[c].at = "cast"
        /\ UNCHANGED <<member, cache, sent, sender, log, closer, deleted, since, presence>>
    BY DEF Cast
  <1> QED
    BY <1>1, <1>2, <1>4, <1>5 DEF TypeOK

LEMMA SendEffect ==
    ASSUME TypeOK, NEW c \in Conns, NEW d \in Conns, Send(c, d)
    PROVE  /\ run[c].at = "send" /\ d \in run[c].targets /\ Posts(d, run[c].frame)
           /\ \/ run[c].targets \ {d} = {} /\ run'[c] = Quiet
              \/ /\ run'[c].at = "send" /\ run'[c].frame = run[c].frame
                 /\ run'[c].except = run[c].except
                 /\ run'[c].targets = run[c].targets \ {d}
           /\ \A e \in Conns \ {c} : run'[e] = run[e]
           /\ UNCHANGED <<member, cache, sent, sender, closer, deleted, since, presence>>
           /\ TypeOK'
  <1>1. run[c] \in HandlerType /\ run[c].frame \in FrameType /\ run[c].targets \in SUBSET Conns
    BY HandlerMoves DEF TypeOK
  <1>2. PICK rest \in SUBSET Conns : rest = run[c].targets \ {d}
    BY <1>1
  <1>3. PICK h \in HandlerType :
           /\ h = IF rest = {} THEN Quiet ELSE [run[c] EXCEPT !.targets = rest]
           /\ \/ rest = {} /\ h = Quiet
              \/ /\ h.at = run[c].at /\ h.frame = run[c].frame /\ h.except = run[c].except
                 /\ h.targets = rest
    <2>1. CASE rest = {}
      BY <2>1, QuietType
    <2>2. CASE rest # {}
      <3>1. PICK g \in HandlerType :
               /\ g = [run[c] EXCEPT !.targets = rest]
               /\ g.at = run[c].at /\ g.frame = run[c].frame /\ g.except = run[c].except
               /\ g.targets = rest
        <4>1. ASSUME NEW r \in HandlerType
              PROVE  LET g == [r EXCEPT !.targets = rest] IN
                     /\ g \in HandlerType /\ g.at = r.at /\ g.frame = r.frame
                     /\ g.except = r.except /\ g.targets = rest
          BY DEF HandlerType
        <4> QED
          BY <1>1, <4>1
      <3> QED
        BY <2>2, <3>1
    <2> QED
      BY <2>1, <2>2
  <1>4. run' = [run EXCEPT ![c] = h]
    BY <1>2, <1>3 DEF Send
  <1>5. run' \in [Conns -> HandlerType] /\ run'[c] = h /\ \A e \in Conns \ {c} : run'[e] = run[e]
    BY <1>4, RunSet
  <1>6. /\ run[c].at = "send" /\ d \in run[c].targets /\ Post(d, run[c].frame)
        /\ UNCHANGED <<member, cache, sent, sender, closer, deleted, since, presence>>
    BY DEF Send
  <1>7. Posts(d, run[c].frame)
    BY <1>1, <1>6, PostPosts
  <1> QED
    BY <1>2, <1>3, <1>5, <1>6, <1>7 DEF TypeOK, Posts

\* The ring buffer after an append, while it fills and once it is full.
LEMMA TrimAppend ==
    ASSUME CacheSize # 0, NEW n \in Nat, NEW s \in Seq(1 .. n), Len(s) <= CacheSize
    PROVE  LET q == Trim(Append(s, n + 1)) IN
           /\ q \in Seq(1 .. n + 1)
           /\ Len(q) = IF Len(s) < CacheSize THEN Len(s) + 1 ELSE CacheSize
           /\ \A i \in 1 .. Len(q) :
                 q[i] = IF Len(s) < CacheSize THEN (IF i <= Len(s) THEN s[i] ELSE n + 1)
                        ELSE IF i < CacheSize THEN s[i + 1] ELSE n + 1
  <1> DEFINE a == Append(s, n + 1)
  <1>1. s \in Seq(1 .. n + 1) /\ Len(s) \in Nat /\ n + 1 \in 1 .. n + 1
    BY MoreMessages, LenProperties
  <1>2. /\ a \in Seq(1 .. n + 1) /\ Len(a) = Len(s) + 1
        /\ \A i \in 1 .. Len(s) : a[i] = s[i]
        /\ a[Len(s) + 1] = n + 1
    BY <1>1, AppendProperties
  <1> HIDE DEF a
  <1>3. CASE Len(s) < CacheSize
    <2>1. Trim(a) = a
      BY <1>1, <1>2, <1>3, RelayAssumption DEF Trim
    <2>2. \A i \in 1 .. Len(a) : a[i] = IF i <= Len(s) THEN s[i] ELSE n + 1
      <3> TAKE i \in 1 .. Len(a)
      <3>1. i <= Len(s) \/ i = Len(s) + 1
        BY <1>1, <1>2
      <3> QED
        BY <1>1, <1>2, <3>1
    <2> QED
      BY <1>2, <1>3, <2>1, <2>2 DEF a
  <1>4. CASE ~(Len(s) < CacheSize)
    <2>1. Len(s) = CacheSize /\ CacheSize \in Nat /\ CacheSize >= 1
      BY <1>1, <1>4, RelayAssumption
    <2>2. Trim(a) = SubSeq(a, 2, Len(s) + 1)
      BY <1>1, <1>2, <2>1 DEF Trim
    <2>3. \A i \in 2 .. Len(s) + 1 : a[i] \in 1 .. n + 1
      BY <1>1, <1>2, ElementOfSeq
    <2>4. /\ SubSeq(a, 2, Len(s) + 1) \in Seq(1 .. n + 1)
          /\ Len(SubSeq(a, 2, Len(s) + 1)) = Len(s)
          /\ \A i \in 1 .. Len(s) : SubSeq(a, 2, Len(s) + 1)[i] = a[i + 1]
      <3>1. /\ 2 \in Int /\ Len(s) + 1 \in Int /\ (Len(s) + 1) - 2 + 1 = Len(s)
            /\ 2 <= Len(s) + 1 /\ \A i \in 1 .. Len(s) : 2 + i - 1 = i + 1
        BY <1>1, <2>1
      <3> QED
        BY <2>3, <3>1, SubSeqProperties
    <2>5. \A i \in 1 .. Len(s) : a[i + 1] = IF i < CacheSize THEN s[i + 1] ELSE n + 1
      <3> TAKE i \in 1 .. Len(s)
      <3>1. CASE i < CacheSize
        <4>1. i + 1 \in 1 .. Len(s)
          BY <1>1, <2>1, <3>1
        <4> QED
          BY <1>2, <3>1, <4>1
      <3>2. CASE ~(i < CacheSize)
        <4>1. i = Len(s)
          BY <1>1, <2>1, <3>2
        <4> QED
          BY <1>2, <3>2, <4>1
      <3> QED
        BY <3>1, <3>2
    <2> QED
      BY <1>1, <1>4, <2>1, <2>2, <2>4, <2>5 DEF a
  <1> QED
    BY <1>3, <1>4

LEMMA MsgEffect ==
    ASSUME TypeOK, NEW c \in Conns, SendMsg(c)
    PROVE  /\ member[c] = "joined" /\ run[c].at = "idle" /\ sent' = sent + 1
           /\ Announces(c, "msg", sent + 1, Nobody)
           /\ cache' = IF CacheSize = 0 THEN cache ELSE Trim(Append(cache, sent + 1))
           /\ UNCHANGED <<member, log, closer, deleted, since, presence>>
           /\ TypeOK'
  <1>1. /\ member[c] = "joined" /\ run[c].at = "idle" /\ sent' = sent + 1 /\ sent < MaxMsgs
        /\ sender' = [sender EXCEPT ![sent + 1] = c]
        /\ cache' = IF CacheSize = 0 THEN cache ELSE Trim(Append(cache, sent + 1))
        /\ Announce(c, Frame("msg", c, sent + 1, <<>>, {}), Nobody)
        /\ UNCHANGED <<member, log, closer, deleted, since, presence>>
    BY DEF SendMsg
  <1>2. sent \in Nat /\ sent + 1 \in 0 .. MaxMsgs /\ cache \in Seq(1 .. sent) /\ Len(cache) <= CacheSize
    BY <1>1, RelayAssumption DEF TypeOK
  <1>3. Announces(c, "msg", sent + 1, Nobody)
    BY <1>1, <1>2, AnnounceEffect
  <1>4. cache' \in Seq(1 .. sent + 1) /\ Len(cache') <= CacheSize
    <2>1. CASE CacheSize = 0
      BY <1>1, <1>2, <2>1, MoreMessages
    <2>2. CASE CacheSize # 0
      <3>1. Len(cache) \in Nat /\ CacheSize \in Nat
        BY <1>2, LenProperties, RelayAssumption
      <3>2. /\ cache' \in Seq(1 .. sent + 1)
            /\ Len(cache') = IF Len(cache) < CacheSize THEN Len(cache) + 1 ELSE CacheSize
        BY <1>1, <1>2, <2>2, TrimAppend
      <3> QED
        BY <3>1, <3>2
    <2> QED
      BY <2>1, <2>2
  <1>5. sender' \in [1 .. MaxMsgs -> Conns \cup {Nobody}]
    BY <1>1 DEF TypeOK
  <1> QED
    BY <1>1, <1>2, <1>3, <1>4, <1>5 DEF TypeOK, Announces

LEMMA PresenceEffect ==
    ASSUME TypeOK, NEW c \in Conns, SendPresence(c)
    PROVE  /\ member[c] = "joined" /\ run[c].at = "idle" /\ Announces(c, "presence", 0, c)
           /\ UNCHANGED <<member, cache, sent, sender, log, closer, deleted, since>>
           /\ TypeOK'
  <1>1. /\ member[c] = "joined" /\ run[c].at = "idle" /\ presence < MaxPresence
        /\ presence' = presence + 1 /\ Announce(c, Frame("presence", c, 0, <<>>, {}), c)
        /\ UNCHANGED <<member, cache, sent, sender, log, closer, deleted, since>>
    BY DEF SendPresence
  <1>2. 0 \in 0 .. MaxMsgs /\ presence' \in 0 .. MaxPresence
    BY <1>1, RelayAssumption DEF TypeOK
  <1>3. Announces(c, "presence", 0, c)
    BY <1>1, <1>2, AnnounceEffect
  <1> QED
    BY <1>1, <1>2, <1>3 DEF TypeOK, Announces

LEMMA LeaveEffect ==
    ASSUME TypeOK, NEW c \in Conns, OnWsClose(c)
    PROVE  /\ c \in Connected /\ run[c] = Quiet /\ member' = [member EXCEPT ![c] = "left"]
           /\ \/ member[c] = "joined" /\ Announces(c, "peer_leave", 0, Nobody)
              \/ member[c] = "open" /\ run' = run
           /\ Frames(c)' = {} /\ log'[c] = <<>>
           /\ \A e \in Conns \ {c} : log'[e] = log[e] /\ Frames(e)' = Frames(e)
           /\ since' = [since EXCEPT ![c] = 0]
           /\ UNCHANGED <<cache, sent, sender, closer, deleted, presence>>
           /\ TypeOK'
  <1>1. /\ c \in Connected /\ run[c] = Quiet /\ member' = [member EXCEPT ![c] = "left"]
        /\ \/ member[c] = "joined" /\ Announce(c, Frame("peer_leave", c, 0, <<>>, {}), Nobody)
           \/ member[c] = "open" /\ run' = run
        /\ log' = [log EXCEPT ![c] = <<>>] /\ since' = [since EXCEPT ![c] = 0]
        /\ UNCHANGED <<cache, sent, sender, closer, deleted, presence>>
    BY DEF OnWsClose
  <1>2. 0 \in 0 .. MaxMsgs /\ <<>> \in Seq(FrameType) /\ Len(<<>>) = 0
    BY RelayAssumption, EmptySeq
  <1>3. \/ member[c] = "joined" /\ Announces(c, "peer_leave", 0, Nobody)
        \/ member[c] = "open" /\ run' = run
    BY <1>1, <1>2, AnnounceEffect
  <1>4. PICK s \in Seq(FrameType) : s = <<>>
    BY <1>2
  <1>5. /\ log' \in [Conns -> Seq(FrameType)] /\ log'[c] = s
        /\ \A e \in Conns \ {c} : log'[e] = log[e]
    BY <1>1, <1>4 DEF TypeOK
  <1>6. Frames(c)' = {} /\ \A e \in Conns \ {c} : Frames(e)' = Frames(e)
    <2>1. DOMAIN s = {}
      BY <1>4
    <2> QED
      BY <1>5, <2>1 DEF Frames
  <1>7. run' \in [Conns -> HandlerType]
    BY <1>3 DEF Announces, TypeOK
  <1>8. /\ member' \in [Conns -> {"absent", "open", "joined", "left"}]
        /\ since' \in [Conns -> 0 .. MaxMsgs]
    BY <1>1, <1>2 DEF TypeOK
  <1>9. TypeOK'
    BY <1>1, <1>5, <1>7, <1>8 DEF TypeOK
  <1> QED
    BY <1>1, <1>3, <1>4, <1>5, <1>6, <1>9

LEMMA CloseRoomEffect ==
    ASSUME TypeOK, CloseRoom
    PROVE  /\ deleted' = TRUE /\ UNCHANGED <<member, sent, sender, run, log, since, presence>>
           /\ TypeOK'
  <1>1. /\ deleted' = TRUE /\ closer' = Connected /\ cache' = <<>>
        /\ UNCHANGED <<member, sent, sender, run, log, since, presence>>
    BY DEF CloseRoom
  <1>2. cache' \in Seq(1 .. sent) /\ Len(cache') <= CacheSize
    BY <1>1, EmptySeq, RelayAssumption
  <1>3. closer' \subseteq Conns
    BY <1>1 DEF Connected
  <1> QED
    BY <1>1, <1>2, <1>3 DEF TypeOK

LEMMA NoticeEffect ==
    ASSUME TypeOK, NEW d \in Conns, CloseRoomSend(d)
    PROVE  /\ \E f \in FrameType : f.type = "deleted" /\ Posts(d, f)
           /\ UNCHANGED <<member, cache, sent, sender, run, deleted, since, presence>>
           /\ TypeOK'
  <1>1. /\ closer' = closer \ {d} /\ Post(d, Frame("deleted", Nobody, 0, <<>>, {}))
        /\ UNCHANGED <<member, cache, sent, sender, run, deleted, since, presence>>
    BY DEF CloseRoomSend
  <1>2. PICK f \in FrameType : f = Frame("deleted", Nobody, 0, <<>>, {}) /\ f.type = "deleted"
    BY PlainFrame, RelayAssumption
  <1>3. Posts(d, f)
    BY <1>1, <1>2, PostPosts
  <1> QED
    BY <1>1, <1>2, <1>3 DEF TypeOK, Posts

----------------------------------------------------------------------------
(* Handlers speak for their connection.                                    *)

LEMMA RunSteady ==
    ASSUME TypeOK, NEW e \in Conns, RunOK(e), run'[e] = run[e], member'[e] = member[e],
           sent' = sent \/ sent' = sent + 1
    PROVE  RunOK(e)'
  <1>1. run[e].frame.msg \in Nat /\ sent \in Nat
    <2>1. run[e] \in HandlerType /\ sent \in Nat
      BY RelayAssumption DEF TypeOK
    <2>2. run[e].frame \in FrameType
      BY <2>1, HandlerMoves
    <2> QED
      BY <2>1, <2>2, FrameFields
  <1>2. run[e].frame.msg <= sent => run[e].frame.msg <= sent'
    BY <1>1
  <1> QED
    BY <1>2 DEF RunOK, Joining, Casting

LEMMA RunQuiet ==
    ASSUME NEW e \in Conns, run'[e] = Quiet
    PROVE  RunOK(e)'
  BY QuietType DEF RunOK, Joining, Casting

LEMMA RunAnnounces ==
    ASSUME NEW c \in Conns, NEW type \in {"peer_join", "peer_leave", "msg", "presence"}, NEW msg,
           Announces(c, type, msg, IF type \in {"msg", "peer_leave"} THEN Nobody ELSE c),
           type = "msg" => msg <= sent',
           member'[c] = IF type = "peer_leave" THEN "left" ELSE "joined"
    PROVE  RunOK(c)'
  BY DEF RunOK, Joining, Casting, Announces

LEMMA RunStep ==
    ASSUME TypeOK, RunInv, [Next]_vars
    PROVE  RunInv'
  <1> SUFFICES ASSUME NEW e \in Conns PROVE RunOK(e)'
    BY DEF RunInv
  <1>e. RunOK(e)
    BY DEF RunInv
  <1>1. ASSUME NEW c \in Conns, Open(c) PROVE RunOK(e)'
    <2>1. member[c] = "absent" /\ member' = [member EXCEPT ![c] = "open"] /\ UNCHANGED <<run, sent>>
      BY <1>1, OpenEffect
    <2>2. CASE e = c
      BY <1>e, <2>1, <2>2, RunQuiet, HandlerMoves DEF RunOK, Joining, Casting, TypeOK
    <2>3. CASE e # c
      BY <1>e, <2>1, <2>3, RunSteady DEF TypeOK
    <2> QED
      BY <2>2, <2>3
  <1>2. ASSUME NEW c \in Conns, MarkPeerJoined(c) PROVE RunOK(e)'
    <2>1. /\ member' = [member EXCEPT ![c] = "joined"] /\ run'[c].at = "history"
          /\ \A d \in Conns \ {c} : run'[d] = run[d]
          /\ sent' = sent
      BY <1>2, MarkEffect
    <2>2. CASE e = c
      BY <2>1, <2>2 DEF RunOK, Joining, Casting, TypeOK
    <2>3. CASE e # c
      BY <1>e, <2>1, <2>3, RunSteady DEF TypeOK
    <2> QED
      BY <2>2, <2>3
  <1>3. ASSUME NEW c \in Conns, RecentMessages(c) PROVE RunOK(e)'
    <2>1. /\ run[c].at = "history" /\ run'[c].at = "members" /\ run'[c].frame.type = "joined"
          /\ run'[c].frame.from = c
          /\ \A d \in Conns \ {c} : run'[d] = run[d]
          /\ UNCHANGED <<member, sent>>
      BY <1>3, HistoryEffect
    <2>2. CASE e = c
      BY <1>e, <2>1, <2>2 DEF RunOK, Joining, Casting
    <2>3. CASE e # c
      BY <1>e, <2>1, <2>3, RunSteady
    <2> QED
      BY <2>2, <2>3
  <1>4. ASSUME NEW c \in Conns, JoinedPeerIds(c) PROVE RunOK(e)'
    <2>1. /\ run[c].at = "members" /\ run'[c].at = "joined"
          /\ run'[c].frame.type = run[c].frame.type /\ run'[c].frame.from = run[c].frame.from
          /\ \A d \in Conns \ {c} : run'[d] = run[d]
          /\ UNCHANGED <<member, sent>>
      BY <1>4, MembersEffect
    <2>2. CASE e = c
      BY <1>e, <2>1, <2>2 DEF RunOK, Joining, Casting
    <2>3. CASE e # c
      BY <1>e, <2>1, <2>3, RunSteady
    <2> QED
      BY <2>2, <2>3
  <1>5. ASSUME NEW c \in Conns, SendJoined(c) PROVE RunOK(e)'
    <2>1. /\ run[c].at = "joined" /\ Announces(c, "peer_join", 0, c) /\ UNCHANGED <<member, sent>>
      BY <1>5, WelcomeEffect
    <2>2. CASE e = c
      BY <1>e, <2>1, <2>2, RunAnnounces DEF RunOK, Joining
    <2>3. CASE e # c
      BY <1>e, <2>1, <2>3, RunSteady DEF Announces
    <2> QED
      BY <2>2, <2>3
  <1>6. ASSUME NEW c \in Conns, SendMsg(c) PROVE RunOK(e)'
    <2>1. /\ member[c] = "joined" /\ sent' = sent + 1 /\ Announces(c, "msg", sent + 1, Nobody)
          /\ UNCHANGED member
      BY <1>6, MsgEffect
    <2>2. CASE e = c
      <3>1. sent + 1 <= sent'
        BY <2>1, RelayAssumption DEF TypeOK
      <3> QED
        BY <2>1, <2>2, <3>1, RunAnnounces
    <2>3. CASE e # c
      BY <1>e, <2>1, <2>3, RunSteady DEF Announces
    <2> QED
      BY <2>2, <2>3
  <1>7. ASSUME NEW c \in Conns, SendPresence(c) PROVE RunOK(e)'
    <2>1. member[c] = "joined" /\ Announces(c, "presence", 0, c) /\ UNCHANGED <<member, sent>>
      BY <1>7, PresenceEffect
    <2>2. CASE e = c
      BY <2>1, <2>2, RunAnnounces
    <2>3. CASE e # c
      BY <1>e, <2>1, <2>3, RunSteady DEF Announces
    <2> QED
      BY <2>2, <2>3
  <1>8. ASSUME NEW c \in Conns, OnWsClose(c) PROVE RunOK(e)'
    <2>1. /\ run[c] = Quiet /\ member' = [member EXCEPT ![c] = "left"] /\ sent' = sent
          /\ Announces(c, "peer_leave", 0, Nobody) \/ run' = run
      BY <1>8, LeaveEffect
    <2>2. CASE e = c
      <3>1. member'[c] = "left"
        BY <2>1 DEF TypeOK
      <3> QED
        BY <2>1, <2>2, <3>1, RunAnnounces, RunQuiet
    <2>3. CASE e # c
      BY <1>e, <2>1, <2>3, RunSteady DEF Announces, TypeOK
    <2> QED
      BY <2>2, <2>3
  <1>9. ASSUME NEW c \in Conns, Cast(c) PROVE RunOK(e)'
    <2>1. /\ run[c].at = "cast" /\ UNCHANGED <<member, sent>>
          /\ \/ run'[c] = Quiet
             \/ /\ run'[c].at = "send" /\ run'[c].frame = run[c].frame
                /\ run'[c].except = run[c].except
          /\ \A d \in Conns \ {c} : run'[d] = run[d]
      BY <1>9, CastEffect
    <2>2. CASE e = c
      BY <1>e, <2>1, <2>2, RunQuiet DEF RunOK, Joining, Casting
    <2>3. CASE e # c
      BY <1>e, <2>1, <2>3, RunSteady
    <2> QED
      BY <2>2, <2>3
  <1>10. ASSUME NEW c \in Conns, NEW d \in Conns, Send(c, d) PROVE RunOK(e)'
    <2>1. /\ run[c].at = "send" /\ UNCHANGED <<member, sent>>
          /\ \/ run'[c] = Quiet
             \/ /\ run'[c].at = "send" /\ run'[c].frame = run[c].frame
                /\ run'[c].except = run[c].except
          /\ \A x \in Conns \ {c} : run'[x] = run[x]
      BY <1>10, SendEffect
    <2>2. CASE e = c
      BY <1>e, <2>1, <2>2, RunQuiet DEF RunOK, Joining, Casting
    <2>3. CASE e # c
      BY <1>e, <2>1, <2>3, RunSteady
    <2> QED
      BY <2>2, <2>3
  <1>11. ASSUME CloseRoom \/ \E d \in Conns : CloseRoomSend(d) PROVE RunOK(e)'
    BY <1>e, <1>11, CloseRoomEffect, NoticeEffect, RunSteady
  <1>12. CASE UNCHANGED vars
    BY <1>e, <1>12, RunSteady DEF vars
  <1> QED
    BY <1>1, <1>2, <1>3, <1>4, <1>5, <1>6, <1>7, <1>8, <1>9, <1>10, <1>11, <1>12 DEF Next

----------------------------------------------------------------------------
(* What the logs tell is so.                                               *)

\* A log that gains no frame, of a connection that does not start to join.
LEMMA LogSteady ==
    ASSUME TypeOK, NEW e \in Conns, LogOK(e), Frames(e)' = Frames(e),
           sent' = sent \/ sent' = sent + 1,
           \A d \in Conns : member[d] = "left" => member'[d] = "left",
           member[e] = "joined" /\ ~Joining(e) => member'[e] = "joined" /\ ~Joining(e)'
    PROVE  LogOK(e)'
  <1> SUFFICES ASSUME NEW f \in Frames(e)
               PROVE  /\ f.type = "joined" => member'[e] = "joined" /\ ~Joining(e)'
                      /\ f.type = "msg" => f.msg <= sent'
                      /\ f.type = "peer_leave" => f.from \in Conns /\ member'[f.from] = "left"
    BY DEF LogOK
  <1>1. sent \in Nat /\ f.msg \in Nat
    <2>1. f \in FrameType /\ sent \in Nat
      BY FramesTyped, RelayAssumption DEF TypeOK
    <2> QED
      BY <2>1, FrameFields
  <1>2. f.msg <= sent => f.msg <= sent'
    BY <1>1
  <1> QED
    BY <1>2 DEF LogOK

\* The same for a log that gains the frame f, by a post to d.
LEMMA LogGrows ==
    ASSUME TypeOK, NEW d \in Conns, NEW f \in FrameType, Posts(d, f), NEW e \in Conns,
           LogOK(e), UNCHANGED <<member, sent>>,
           ~Joining(e) => ~Joining(e)',
           d = e /\ f.type = "joined" => member[e] = "joined" /\ ~Joining(e)',
           f.type = "msg" => f.msg <= sent,
           f.type = "peer_leave" => f.from \in Conns /\ member[f.from] = "left"
    PROVE  LogOK(e)'
  <1> SUFFICES ASSUME NEW g \in Frames(e)'
               PROVE  /\ g.type = "joined" => member[e] = "joined" /\ ~Joining(e)'
                      /\ g.type = "msg" => g.msg <= sent
                      /\ g.type = "peer_leave" => g.from \in Conns /\ member[g.from] = "left"
    BY DEF LogOK
  <1>1. g \in Frames(e) \/ (d = e /\ g = f)
    BY DEF Posts
  <1> QED
    BY <1>1 DEF LogOK

\* A handler that broadcasts or is at rest is not joining.
LEMMA Announcing ==
    ASSUME NEW c \in Conns, NEW type, NEW msg, NEW except, Announces(c, type, msg, except)
    PROVE  ~Joining(c)' /\ \A e \in Conns \ {c} : run'[e] = run[e]
  BY DEF Announces, Joining

LEMMA LogStep ==
    ASSUME TypeOK, RunInv, LogInv, [Next]_vars
    PROVE  LogInv'
  <1> SUFFICES ASSUME NEW e \in Conns PROVE LogOK(e)'
    BY DEF LogInv
  <1>e. LogOK(e) /\ \A c \in Conns : RunOK(c)
    BY DEF LogInv, RunInv
  <1>1. ASSUME NEW c \in Conns, Open(c) PROVE LogOK(e)'
    <2>1. /\ member[c] = "absent" /\ member' = [member EXCEPT ![c] = "open"]
          /\ UNCHANGED <<sent, run, log>>
      BY <1>1, OpenEffect
    <2>2. Frames(e)' = Frames(e)
      BY <2>1 DEF Frames
    <2>3. member'[c] = "open" /\ \A d \in Conns \ {c} : member'[d] = member[d]
      BY <2>1 DEF TypeOK
    <2> QED
      BY <1>e, <2>1, <2>2, <2>3, LogSteady DEF Joining
  <1>2. ASSUME NEW c \in Conns, MarkPeerJoined(c) PROVE LogOK(e)'
    <2>1. /\ member[c] = "open" /\ member' = [member EXCEPT ![c] = "joined"]
          /\ \A d \in Conns \ {c} : run'[d] = run[d]
          /\ UNCHANGED <<sent, log>>
      BY <1>2, MarkEffect
    <2>2. Frames(e)' = Frames(e)
      BY <2>1 DEF Frames
    <2>3. \A d \in Conns \ {c} : member'[d] = member[d]
      BY <2>1 DEF TypeOK
    <2> QED
      BY <1>e, <2>1, <2>2, <2>3, LogSteady DEF Joining
  <1>3. ASSUME NEW c \in Conns, RecentMessages(c) \/ JoinedPeerIds(c) PROVE LogOK(e)'
    <2>1. /\ Joining(c) /\ Joining(c)'
          /\ \A d \in Conns \ {c} : run'[d] = run[d]
          /\ UNCHANGED <<member, sent, log>>
      BY <1>3, HistoryEffect, MembersEffect DEF Joining
    <2>2. Frames(e)' = Frames(e)
      BY <2>1 DEF Frames
    <2> QED
      BY <1>e, <2>1, <2>2, LogSteady DEF Joining
  <1>4. ASSUME NEW c \in Conns, SendJoined(c) PROVE LogOK(e)'
    <2>1. /\ run[c].at = "joined" /\ Posts(c, run[c].frame) /\ ~Joining(c)'
          /\ \A d \in Conns \ {c} : run'[d] = run[d]
          /\ UNCHANGED <<member, sent>>
      BY <1>4, WelcomeEffect, Announcing
    <2>2. PICK f \in FrameType : f = run[c].frame
      BY HandlerMoves DEF TypeOK
    <2>3. f.type = "joined" /\ member[c] = "joined"
      BY <1>e, <2>1, <2>2 DEF RunOK, Joining
    <2>4. ~Joining(e) => ~Joining(e)'
      BY <2>1 DEF Joining
    <2> QED
      BY <1>e, <2>1, <2>2, <2>3, <2>4, LogGrows
  <1>5. ASSUME NEW c \in Conns, SendMsg(c) \/ SendPresence(c) PROVE LogOK(e)'
    <2>1. /\ ~Joining(c)' /\ \A d \in Conns \ {c} : run'[d] = run[d]
          /\ UNCHANGED <<member, log>>
          /\ sent' = sent \/ sent' = sent + 1
      BY <1>5, MsgEffect, PresenceEffect, Announcing
    <2>2. Frames(e)' = Frames(e)
      BY <2>1 DEF Frames
    <2> QED
      BY <1>e, <2>1, <2>2, LogSteady DEF Joining
  <1>6. ASSUME NEW c \in Conns, OnWsClose(c) PROVE LogOK(e)'
    <2>1. /\ c \in Connected /\ member' = [member EXCEPT ![c] = "left"] /\ sent' = sent
          /\ Frames(c)' = {} /\ \A d \in Conns \ {c} : Frames(d)' = Frames(d)
          /\ \A d \in Conns \ {c} : run'[d] = run[d]
      BY <1>6, LeaveEffect DEF Announces
    <2>2. CASE e = c
      BY <2>1, <2>2 DEF LogOK
    <2>3. CASE e # c
      <3>1. /\ Frames(e)' = Frames(e) /\ run'[e] = run[e] /\ member'[e] = member[e]
            /\ \A d \in Conns : member[d] = "left" => member'[d] = "left"
        BY <2>1, <2>3 DEF TypeOK
      <3> QED
        BY <1>e, <2>1, <3>1, LogSteady DEF Joining
    <2> QED
      BY <2>2, <2>3
  <1>7. ASSUME NEW c \in Conns, Cast(c) PROVE LogOK(e)'
    <2>1. /\ ~Joining(c)' /\ \A d \in Conns \ {c} : run'[d] = run[d]
          /\ UNCHANGED <<member, log, sent>>
      BY <1>7, CastEffect, QuietType DEF Joining
    <2>2. Frames(e)' = Frames(e)
      BY <2>1 DEF Frames
    <2> QED
      BY <1>e, <2>1, <2>2, LogSteady DEF Joining
  <1>8. ASSUME NEW c \in Conns, NEW d \in Conns, Send(c, d) PROVE LogOK(e)'
    <2>1. /\ run[c].at = "send" /\ Posts(d, run[c].frame) /\ ~Joining(c)'
          /\ \A x \in Conns \ {c} : run'[x] = run[x]
          /\ UNCHANGED <<member, sent>>
      BY <1>8, SendEffect, QuietType DEF Joining
    <2>2. PICK f \in FrameType : f = run[c].frame
      BY HandlerMoves DEF TypeOK
    <2>3. /\ f.from = c /\ f.type # "joined"
          /\ f.type = "msg" => f.msg <= sent
          /\ f.type = "peer_leave" => member[c] = "left"
      BY <1>e, <2>1, <2>2 DEF RunOK, Casting
    <2>4. ~Joining(e) => ~Joining(e)'
      BY <2>1 DEF Joining
    <2> QED
      BY <1>e, <2>1, <2>2, <2>3, <2>4, LogGrows
  <1>9. CASE CloseRoom
    BY <1>e, <1>9, CloseRoomEffect, LogSteady DEF Joining, Frames
  <1>10. ASSUME NEW d \in Conns, CloseRoomSend(d) PROVE LogOK(e)'
    <2>1. PICK f \in FrameType : f.type = "deleted" /\ Posts(d, f)
      BY <1>10, NoticeEffect
    <2>2. UNCHANGED <<member, sent, run>>
      BY <1>10, NoticeEffect
    <2> QED
      BY <1>e, <2>1, <2>2, LogGrows DEF Joining
  <1>11. CASE UNCHANGED vars
    BY <1>e, <1>11, LogSteady DEF vars, Joining, Frames
  <1> QED
    BY <1>1, <1>2, <1>3, <1>4, <1>5, <1>6, <1>7, <1>8, <1>9, <1>10, <1>11 DEF Next

----------------------------------------------------------------------------
(* The order of the messages of one sender.                                *)

\* A handler whose pending frames were pending before.
LEMMA OrderSteady ==
    ASSUME NEW e \in Conns, OrderOK(e), Frames(e)' \subseteq Frames(e),
           \A d \in Conns : Pending(d, e, "msg")' =>
              Pending(d, e, "msg") /\ run'[d].frame = run[d].frame
    PROVE  OrderOK(e)'
  BY DEF OrderOK

\* A handler that moves without a new frame.
Moves(c) ==
    /\ \/ run'[c].at \notin {"cast", "send"}
       \/ run[c].at = "cast" /\ run'[c].frame = run[c].frame
       \/ /\ run[c].at = "send" /\ run'[c].at = "send" /\ run'[c].frame = run[c].frame
          /\ run'[c].targets \subseteq run[c].targets
       \/ Casting(c)' /\ run'[c].frame.type # "msg"
    /\ \A e \in Conns \ {c} : run'[e] = run[e]

LEMMA MovesPend ==
    ASSUME NEW c \in Conns, Moves(c)
    PROVE  \A d, e \in Conns : Pending(d, e, "msg")' =>
              Pending(d, e, "msg") /\ run'[d].frame = run[d].frame
  BY DEF Moves, Pending, Casting

LEMMA OrderStep ==
    ASSUME TypeOK, RunInv, LogInv, OrderInv, [Next]_vars
    PROVE  OrderInv'
  <1> SUFFICES ASSUME NEW e \in Conns PROVE OrderOK(e)'
    BY DEF OrderInv
  <1>e. OrderOK(e) /\ LogOK(e) /\ \A c \in Conns : RunOK(c)
    BY DEF OrderInv, LogInv, RunInv
  <1>1. ASSUME NEW c \in Conns, Moves(c), Frames(e)' = Frames(e) PROVE OrderOK(e)'
    BY <1>e, <1>1, MovesPend, OrderSteady
  <1>2. ASSUME UNCHANGED run, Frames(e)' = Frames(e) PROVE OrderOK(e)'
    BY <1>e, <1>2, OrderSteady DEF Pending
  <1>3. ASSUME NEW c \in Conns, Open(c) PROVE OrderOK(e)'
    BY <1>2, <1>3, OpenEffect DEF Frames
  <1>4. ASSUME NEW c \in Conns,
               \/ MarkPeerJoined(c) \/ RecentMessages(c) \/ JoinedPeerIds(c)
               \/ SendPresence(c) \/ Cast(c)
        PROVE  OrderOK(e)'
    <2>1. log' = log
      BY <1>4, MarkEffect, HistoryEffect, MembersEffect, PresenceEffect, CastEffect
    <2>2. CASE MarkPeerJoined(c) \/ RecentMessages(c) \/ JoinedPeerIds(c)
      BY <2>2, MarkEffect, HistoryEffect, MembersEffect, <1>1, <2>1 DEF Moves, Frames
    <2>3. CASE SendPresence(c)
      BY <2>3, PresenceEffect, <1>1, <2>1 DEF Moves, Announces, Casting, Frames
    <2>4. CASE Cast(c)
      <3>1. Moves(c)
        BY <2>4, CastEffect, QuietType DEF Moves
      <3> QED
        BY <1>1, <2>1, <3>1 DEF Frames
    <2> QED
      BY <1>4, <2>2, <2>3, <2>4
  <1>5. ASSUME NEW c \in Conns, SendMsg(c) PROVE OrderOK(e)'
    <2>1. /\ run[c].at = "idle" /\ run'[c].frame.msg = sent + 1
          /\ \A d \in Conns \ {c} : run'[d] = run[d]
          /\ log' = log
      BY <1>5, MsgEffect DEF Announces
    <2>2. ASSUME NEW d \in Conns, Pending(d, e, "msg")',
                 NEW f \in Frames(e), f.type = "msg", f.from = d
          PROVE  f.msg < run'[d].frame.msg
      <3>1. CASE d = c
        <4>1. f \in FrameType /\ sent \in Nat
          BY FramesTyped, RelayAssumption DEF TypeOK
        <4>2. f.msg \in Nat /\ f.msg <= sent
          BY <1>e, <2>2, <4>1, FrameFields DEF LogOK
        <4> QED
          BY <2>1, <3>1, <4>1, <4>2
      <3>2. CASE d # c
        BY <1>e, <2>1, <2>2, <3>2 DEF OrderOK, Pending
      <3> QED
        BY <3>1, <3>2
    <2>3. Frames(e)' = Frames(e)
      BY <2>1 DEF Frames
    <2> QED
      BY <2>2, <2>3 DEF OrderOK
  <1>6. ASSUME NEW c \in Conns, SendJoined(c) PROVE OrderOK(e)'
    <2>1. /\ run[c].at = "joined" /\ Posts(c, run[c].frame) /\ Announces(c, "peer_join", 0, c)
      BY <1>6, WelcomeEffect
    <2>2. Moves(c)
      BY <2>1 DEF Moves, Announces, Casting
    <2>3. run[c].frame.type = "joined"
      BY <1>e, <2>1 DEF RunOK
    <2>4. \A f \in Frames(e)' : f \in Frames(e) \/ f.type = "joined"
      BY <2>1, <2>3 DEF Posts
    <2> QED
      BY <1>e, <2>2, <2>4, MovesPend DEF OrderOK
  <1>7. ASSUME NEW c \in Conns, OnWsClose(c) PROVE OrderOK(e)'
    <2>1. Moves(c) /\ Frames(e)' \subseteq Frames(e)
      BY <1>7, LeaveEffect, QuietType DEF Moves, Announces, Casting
    <2> QED
      BY <1>e, <2>1, MovesPend, OrderSteady
  <1>8. ASSUME NEW c \in Conns, NEW d \in Conns, Send(c, d) PROVE OrderOK(e)'
    <2>1. /\ run[c].at = "send" /\ d \in run[c].targets /\ Posts(d, run[c].frame)
          /\ \/ run'[c] = Quiet
             \/ /\ run'[c].at = "send" /\ run'[c].frame = run[c].frame
                /\ run'[c].targets = run[c].targets \ {d}
          /\ \A x \in Conns \ {c} : run'[x] = run[x]
      BY <1>8, SendEffect
    <2>2. Moves(c)
      BY <2>1, QuietType DEF Moves
    <2>3. run[c].frame.from = c
      BY <1>e, <2>1 DEF RunOK, Casting
    <2>4. CASE e = d
      <3>1. ~Pending(c, e, "msg")'
        BY <2>1, <2>4, QuietType DEF Pending
      <3>2. \A f \in Frames(e)' : f \in Frames(e) \/ f.from = c
        BY <2>1, <2>3 DEF Posts
      <3> QED
        BY <1>e, <2>2, <3>1, <3>2, MovesPend DEF OrderOK
    <2>5. CASE e # d
      BY <1>1, <2>1, <2>2, <2>5 DEF Posts
    <2> QED
      BY <2>4, <2>5
  <1>9. CASE CloseRoom
    BY <1>2, <1>9, CloseRoomEffect DEF Frames
  <1>10. ASSUME NEW d \in Conns, CloseRoomSend(d) PROVE OrderOK(e)'
    <2>1. PICK f \in FrameType : f.type = "deleted" /\ Posts(d, f)
      BY <1>10, NoticeEffect
    <2>2. run' = run /\ \A g \in Frames(e)' : g \in Frames(e) \/ g.type = "deleted"
      BY <1>10, <2>1, NoticeEffect DEF Posts
    <2> QED
      BY <1>e, <2>2 DEF OrderOK, Pending
  <1>11. CASE UNCHANGED vars
    BY <1>2, <1>11 DEF vars, Frames
  <1> QED
    BY <1>3, <1>4, <1>5, <1>6, <1>7, <1>8, <1>9, <1>10, <1>11 DEF Next

----------------------------------------------------------------------------
(* What a step does to a log.                                              *)

\* A connection is posted nothing, or the frame of a broadcast it is a target
\* of, or its welcome or the notice of closeRoom, or its log goes.
LEMMA LogKinds ==
    ASSUME TypeOK, RunInv, [Next]_vars, NEW e \in Conns
    PROVE  \/ log'[e] = log[e] \/ log'[e] = <<>>
           \/ \E c \in Conns : /\ run[c].at = "send" /\ e \in run[c].targets
                               /\ log'[e] = Append(log[e], run[c].frame)
           \/ \E f \in FrameType : /\ f.type \in {"joined", "deleted"}
                                   /\ log'[e] = Append(log[e], f)
  <1>1. ASSUME NEW c \in Conns, NEW d \in Conns, Send(c, d)
        PROVE  \/ log'[e] = log[e]
               \/ /\ run[c].at = "send" /\ e \in run[c].targets
                  /\ log'[e] = Append(log[e], run[c].frame)
    BY <1>1, SendEffect DEF Posts
  <1>2. ASSUME NEW c \in Conns, SendJoined(c)
        PROVE  \/ log'[e] = log[e]
               \/ \E f \in FrameType : /\ f.type \in {"joined", "deleted"}
                                       /\ log'[e] = Append(log[e], f)
    <2>1. run[c].at = "joined" /\ Posts(c, run[c].frame)
      BY <1>2, WelcomeEffect
    <2>2. run[c].frame \in FrameType /\ run[c].frame.type = "joined"
      BY <2>1, RunFrame DEF RunInv, RunOK
    <2> QED
      BY <2>1, <2>2 DEF Posts
  <1>3. ASSUME NEW d \in Conns, CloseRoomSend(d)
        PROVE  \/ log'[e] = log[e]
               \/ \E f \in FrameType : /\ f.type \in {"joined", "deleted"}
                                       /\ log'[e] = Append(log[e], f)
    BY <1>3, NoticeEffect DEF Posts
  <1>4. ASSUME NEW c \in Conns, OnWsClose(c) PROVE log'[e] = log[e] \/ log'[e] = <<>>
    BY <1>4, LeaveEffect
  <1>5. ASSUME NEW c \in Conns,
               \/ Open(c) \/ MarkPeerJoined(c) \/ RecentMessages(c) \/ JoinedPeerIds(c)
               \/ SendMsg(c) \/ SendPresence(c) \/ Cast(c)
        PROVE  log' = log
    BY <1>5, OpenEffect, MarkEffect, HistoryEffect, MembersEffect, MsgEffect, PresenceEffect,
       CastEffect
  <1>6. CASE CloseRoom
    BY <1>6, CloseRoomEffect
  <1>7. CASE UNCHANGED vars
    BY <1>7 DEF vars
  <1> QED
    BY <1>1, <1>2, <1>3, <1>4, <1>5, <1>6, <1>7 DEF Next

LEMMA Appended ==
    ASSUME TypeOK, NEW e \in Conns, NEW f \in FrameType, log'[e] = Append(log[e], f)
    PROVE  /\ Len(log[e]) \in Nat /\ DOMAIN log[e] = 1 .. Len(log[e])
           /\ DOMAIN (log'[e]) = 1 .. Len(log[e]) + 1
           /\ \A i \in 1 .. Len(log[e]) : log'[e][i] = log[e][i] /\ log[e][i] \in Frames(e)
           /\ log'[e][Len(log[e]) + 1] = f
  <1>1. log[e] \in Seq(FrameType)
    BY DEF TypeOK
  <1>2. Len(log[e]) \in Nat /\ DOMAIN log[e] = 1 .. Len(log[e])
    BY <1>1, LenProperties
  <1>3. /\ Append(log[e], f) \in Seq(FrameType) /\ Len(Append(log[e], f)) = Len(log[e]) + 1
        /\ \A i \in 1 .. Len(log[e]) : Append(log[e], f)[i] = log[e][i]
        /\ Append(log[e], f)[Len(log[e]) + 1] = f
    BY <1>1, AppendProperties
  <1>4. DOMAIN Append(log[e], f) = 1 .. Len(log[e]) + 1
    BY <1>3, LenProperties
  <1>5. \A i \in 1 .. Len(log[e]) : log[e][i] \in Frames(e)
    BY <1>2 DEF Frames
  <1> QED
    BY <1>2, <1>3, <1>4, <1>5

Sorted(e) ==
    \A j, k \in DOMAIN log[e] :
        /\ log[e][j].type = "msg" /\ log[e][k].type = "msg"
        /\ j < k /\ log[e][j].from = log[e][k].from
        => log[e][j].msg < log[e][k].msg

LeavesLast(e) ==
    \A j, k \in DOMAIN log[e] :
        /\ log[e][k].type = "peer_leave"
        /\ log[e][j].type \in {"peer_join", "msg", "presence"}
        /\ log[e][j].from = log[e][k].from
        => j < k

LEMMA SortedStep ==
    ASSUME TypeOK, RunInv, OrderInv, [Next]_vars, NEW e \in Conns, Sorted(e)
    PROVE  Sorted(e)'
  <1>1. CASE log'[e] = log[e]
    BY <1>1 DEF Sorted
  <1>2. CASE log'[e] = <<>>
    BY <1>2 DEF Sorted
  <1>3. ASSUME NEW f \in FrameType, log'[e] = Append(log[e], f),
               f.type = "msg" =>
                  \A g \in Frames(e) : g.type = "msg" /\ g.from = f.from => g.msg < f.msg
        PROVE  Sorted(e)'
    <2> DEFINE n == Len(log[e])
    <2>1. /\ n \in Nat /\ DOMAIN log[e] = 1 .. n /\ DOMAIN (log'[e]) = 1 .. n + 1
          /\ \A i \in 1 .. n : log'[e][i] = log[e][i] /\ log[e][i] \in Frames(e)
          /\ log'[e][n + 1] = f
      BY <1>3, Appended
    <2> SUFFICES ASSUME NEW j \in 1 .. n + 1, NEW k \in 1 .. n + 1,
                        log'[e][j].type = "msg", log'[e][k].type = "msg",
                        j < k, log'[e][j].from = log'[e][k].from
                 PROVE  log'[e][j].msg < log'[e][k].msg
      BY <2>1 DEF Sorted
    <2> HIDE DEF n
    <2>2. j \in 1 .. n
      BY <2>1
    <2>3. CASE k \in 1 .. n
      BY <2>1, <2>2, <2>3 DEF Sorted
    <2>4. CASE k = n + 1
      BY <1>3, <2>1, <2>2, <2>4
    <2> QED
      BY <2>1, <2>3, <2>4
  <1>4. ASSUME NEW c \in Conns, run[c].at = "send", e \in run[c].targets,
               log'[e] = Append(log[e], run[c].frame)
        PROVE  Sorted(e)'
    <2>1. run[c].frame \in FrameType
      BY RunFrame
    <2>2. run[c].frame.from = c
      BY <1>4 DEF RunInv, RunOK, Casting
    <2>3. run[c].frame.type = "msg" => Pending(c, e, "msg")
      BY <1>4 DEF Pending
    <2>4. run[c].frame.type = "msg" =>
             \A g \in Frames(e) : g.type = "msg" /\ g.from = c => g.msg < run[c].frame.msg
      BY <2>3 DEF OrderInv, OrderOK
    <2> QED
      BY <1>3, <1>4, <2>1, <2>2, <2>4
  <1> QED
    BY <1>1, <1>2, <1>3, <1>4, LogKinds

LEMMA LeavesLastStep ==
    ASSUME TypeOK, RunInv, LogInv, [Next]_vars, NEW e \in Conns, LeavesLast(e)
    PROVE  LeavesLast(e)'
  <1>1. CASE log'[e] = log[e]
    BY <1>1 DEF LeavesLast
  <1>2. CASE log'[e] = <<>>
    BY <1>2 DEF LeavesLast
  <1>3. ASSUME NEW f \in FrameType, log'[e] = Append(log[e], f),
               f.type \in {"peer_join", "msg", "presence"} =>
                  \A g \in Frames(e) : g.type = "peer_leave" => g.from # f.from
        PROVE  LeavesLast(e)'
    <2> DEFINE n == Len(log[e])
    <2>1. /\ n \in Nat /\ DOMAIN log[e] = 1 .. n /\ DOMAIN (log'[e]) = 1 .. n + 1
          /\ \A i \in 1 .. n : log'[e][i] = log[e][i] /\ log[e][i] \in Frames(e)
          /\ log'[e][n + 1] = f
      BY <1>3, Appended
    <2> SUFFICES ASSUME NEW j \in 1 .. n + 1, NEW k \in 1 .. n + 1,
                        log'[e][k].type = "peer_leave",
                        log'[e][j].type \in {"peer_join", "msg", "presence"},
                        log'[e][j].from = log'[e][k].from
                 PROVE  j < k
      BY <2>1 DEF LeavesLast
    <2> HIDE DEF n
    <2>2. CASE j \in 1 .. n /\ k \in 1 .. n
      BY <2>1, <2>2 DEF LeavesLast
    <2>3. CASE k = n + 1
      <3>1. j # k
        OBVIOUS
      <3> QED
        BY <2>1, <2>3, <3>1
    <2>4. CASE j = n + 1 /\ k \in 1 .. n
      BY <1>3, <2>1, <2>4
    <2> QED
      BY <2>1, <2>2, <2>3, <2>4
  <1>4. ASSUME NEW c \in Conns, run[c].at = "send", e \in run[c].targets,
               log'[e] = Append(log[e], run[c].frame)
        PROVE  LeavesLast(e)'
    <2>1. run[c].frame \in FrameType
      BY RunFrame
    <2>2. /\ run[c].frame.from = c
          /\ run[c].frame.type # "peer_leave" => member[c] = "joined"
      BY <1>4 DEF RunInv, RunOK, Casting
    <2>3. \A g \in Frames(e) : g.type = "peer_leave" => member[g.from] = "left"
      BY DEF LogInv, LogOK
    <2> QED
      BY <1>3, <1>4, <2>1, <2>2, <2>3
  <1> QED
    BY <1>1, <1>2, <1>3, <1>4, LogKinds

----------------------------------------------------------------------------
(* The history.                                                            *)

Recent(h, n) == {h[k] : k \in DOMAIN h} = {m \in 1 .. n : m + CacheSize > n}

\* Until the room is closed the cache holds the newest messages in order.
CacheOK ==
    ~deleted =>
        /\ Len(cache) = IF sent < CacheSize THEN sent ELSE CacheSize
        /\ \A i \in 1 .. Len(cache) : cache[i] = sent - Len(cache) + i

\* A history, sent or about to be, is what the cache held when `since' was
\* noted.
HistoryOK(c) ==
    ~deleted =>
        /\ run[c].at \in {"members", "joined"} => Recent(run[c].frame.history, since[c])
        /\ \A f \in Frames(c) : f.type = "joined" => Recent(f.history, since[c])

HistoryInv == CacheOK /\ \A c \in Conns : HistoryOK(c)

LEMMA CacheRecent ==
    ASSUME TypeOK, CacheOK, ~deleted
    PROVE  Recent(cache, sent)
  <1> DEFINE n == Len(cache)
  <1>1. sent \in Nat /\ CacheSize \in Nat /\ n \in Nat /\ DOMAIN cache = 1 .. n
    BY LenProperties, RelayAssumption DEF TypeOK
  <1>2. n = IF sent < CacheSize THEN sent ELSE CacheSize
    BY DEF CacheOK
  <1>3. \A i \in 1 .. n : cache[i] = sent - n + i
    BY DEF CacheOK
  <1> HIDE DEF n
  <1>4. ASSUME NEW k \in 1 .. n
        PROVE  cache[k] \in 1 .. sent /\ cache[k] + CacheSize > sent
    BY <1>1, <1>2, <1>3
  <1>5. ASSUME NEW m \in 1 .. sent, m + CacheSize > sent
        PROVE  \E k \in 1 .. n : cache[k] = m
    <2>1. m - sent + n \in 1 .. n /\ sent - n + (m - sent + n) = m
      BY <1>1, <1>2, <1>5
    <2> QED
      BY <1>3, <2>1
  <1>6. {cache[k] : k \in 1 .. n} = {m \in 1 .. sent : m + CacheSize > sent}
    BY <1>4, <1>5
  <1> QED
    BY <1>1, <1>6 DEF Recent

LEMMA CacheStep ==
    ASSUME TypeOK, CacheOK, [Next]_vars
    PROVE  CacheOK'
  <1>1. ASSUME NEW c \in Conns, SendMsg(c) PROVE CacheOK'
    <2>0. sent' = sent + 1 /\ deleted' = deleted
      BY <1>1, MsgEffect
    <2>1. cache' = IF CacheSize = 0 THEN cache ELSE Trim(Append(cache, sent + 1))
      BY <1>1, MsgEffect
    <2>2. sent \in Nat /\ CacheSize \in Nat /\ Len(cache) \in Nat /\ cache \in Seq(1 .. sent)
      BY LenProperties, RelayAssumption DEF TypeOK
    <2> SUFFICES ASSUME ~deleted
                 PROVE  /\ Len(cache') = IF sent + 1 < CacheSize THEN sent + 1 ELSE CacheSize
                        /\ \A i \in 1 .. Len(cache') : cache'[i] = sent + 1 - Len(cache') + i
      BY <2>0, <2>2 DEF CacheOK
    <2>3. /\ Len(cache) = IF sent < CacheSize THEN sent ELSE CacheSize
          /\ \A i \in 1 .. Len(cache) : cache[i] = sent - Len(cache) + i
      BY DEF CacheOK
    <2>4. CASE CacheSize = 0
      BY <2>1, <2>2, <2>3, <2>4
    <2>5. CASE CacheSize # 0
      <3>1. /\ Len(cache') = IF Len(cache) < CacheSize THEN Len(cache) + 1 ELSE CacheSize
            /\ \A i \in 1 .. Len(cache') :
                  cache'[i] = IF Len(cache) < CacheSize
                              THEN (IF i <= Len(cache) THEN cache[i] ELSE sent + 1)
                              ELSE IF i < CacheSize THEN cache[i + 1] ELSE sent + 1
        BY <2>1, <2>2, <2>5, TrimAppend DEF TypeOK
      <3>2. CASE Len(cache) < CacheSize
        BY <2>2, <2>3, <3>1, <3>2
      <3>3. CASE ~(Len(cache) < CacheSize)
        <4>1. Len(cache) = CacheSize /\ Len(cache') = CacheSize /\ CacheSize <= sent
          BY <2>2, <2>3, <3>1, <3>3
        <4>2. ASSUME NEW i \in 1 .. CacheSize PROVE cache'[i] = sent + 1 - CacheSize + i
          <5>1. CASE i < CacheSize
            <6>1. i + 1 \in 1 .. Len(cache)
              BY <2>2, <4>1, <5>1
            <6>2. cache'[i] = cache[i + 1]
              BY <3>1, <3>3, <4>1, <5>1
            <6> QED
              BY <2>2, <2>3, <4>1, <6>1, <6>2
          <5>2. CASE ~(i < CacheSize)
            BY <2>2, <3>1, <3>3, <4>1, <5>2
          <5> QED
            BY <5>1, <5>2
        <4> QED
          BY <2>2, <4>1, <4>2
      <3> QED
        BY <3>2, <3>3
    <2> QED
      BY <2>4, <2>5
  <1>2. ASSUME UNCHANGED <<cache, sent, deleted>> PROVE CacheOK'
    BY <1>2 DEF CacheOK
  <1>3. ASSUME NEW c \in Conns,
               \/ Open(c) \/ MarkPeerJoined(c) \/ RecentMessages(c) \/ JoinedPeerIds(c)
               \/ SendJoined(c) \/ SendPresence(c) \/ OnWsClose(c) \/ Cast(c) \/ CloseRoomSend(c)
               \/ \E d \in Conns : Send(c, d)
        PROVE  CacheOK'
    BY <1>2, <1>3, OpenEffect, MarkEffect, HistoryEffect, MembersEffect, WelcomeEffect,
       PresenceEffect, LeaveEffect, CastEffect, SendEffect, NoticeEffect
  <1>4. CASE CloseRoom
    BY <1>4, CloseRoomEffect DEF CacheOK
  <1>5. CASE UNCHANGED vars
    BY <1>2, <1>5 DEF vars
  <1> QED
    BY <1>1, <1>3, <1>4, <1>5 DEF Next

\* A connection that goes on with the history it has, if any.
LEMMA HistorySteady ==
    ASSUME NEW e \in Conns, HistoryOK(e), deleted => deleted', since'[e] = since[e],
           run'[e].at \in {"members", "joined"} =>
              /\ run[e].at \in {"members", "joined"}
              /\ run'[e].frame.history = run[e].frame.history,
           \A f \in Frames(e)' : f \in Frames(e) \/ f.type # "joined"
    PROVE  HistoryOK(e)'
  BY DEF HistoryOK, Recent

LEMMA HistoryStep ==
    ASSUME TypeOK, RunInv, LogInv, HistoryInv, [Next]_vars
    PROVE  HistoryInv'
  <1>1. CacheOK'
    BY CacheStep DEF HistoryInv
  <1> SUFFICES ASSUME NEW e \in Conns PROVE HistoryOK(e)'
    BY <1>1 DEF HistoryInv
  <1>e. HistoryOK(e) /\ LogOK(e) /\ \A c \in Conns : RunOK(c)
    BY DEF HistoryInv, LogInv, RunInv
  <1>2. ASSUME NEW c \in Conns, Open(c) PROVE HistoryOK(e)'
    BY <1>e, <1>2, OpenEffect, HistorySteady DEF Frames
  <1>3. ASSUME NEW c \in Conns, MarkPeerJoined(c) PROVE HistoryOK(e)'
    BY <1>e, <1>3, MarkEffect, HistorySteady DEF Frames
  <1>4. ASSUME NEW c \in Conns, RecentMessages(c) PROVE HistoryOK(e)'
    <2>1. /\ run[c].at = "history" /\ run'[c].frame.history = cache /\ since'[c] = sent
          /\ \A d \in Conns \ {c} : run'[d] = run[d] /\ since'[d] = since[d]
          /\ log' = log /\ deleted' = deleted
      BY <1>4, HistoryEffect DEF TypeOK
    <2>2. Frames(e)' = Frames(e)
      BY <2>1 DEF Frames
    <2>3. CASE e = c
      <3>1. \A f \in Frames(e) : f.type # "joined"
        BY <1>e, <2>1, <2>3 DEF LogOK, Joining
      <3>2. ~deleted => Recent(cache, sent)
        BY CacheRecent DEF HistoryInv
      <3> QED
        BY <2>1, <2>2, <2>3, <3>1, <3>2 DEF HistoryOK, Recent
    <2>4. CASE e # c
      BY <1>e, <2>1, <2>2, <2>4, HistorySteady
    <2> QED
      BY <2>3, <2>4
  <1>5. ASSUME NEW c \in Conns, JoinedPeerIds(c) PROVE HistoryOK(e)'
    BY <1>e, <1>5, MembersEffect, HistorySteady DEF Frames
  <1>6. ASSUME NEW c \in Conns, SendJoined(c) PROVE HistoryOK(e)'
    <2>1. /\ run[c].at = "joined" /\ Posts(c, run[c].frame) /\ run'[c].at = "cast"
          /\ \A d \in Conns \ {c} : run'[d] = run[d]
          /\ UNCHANGED <<deleted, since>>
      BY <1>6, WelcomeEffect DEF Announces
    <2>2. CASE e = c
      <3>1. \A f \in Frames(e)' : f \in Frames(e) \/ f = run[c].frame
        BY <2>1, <2>2 DEF Posts
      <3> QED
        BY <1>e, <2>1, <2>2, <3>1 DEF HistoryOK, Recent
    <2>3. CASE e # c
      BY <1>e, <2>1, <2>3, HistorySteady DEF Posts
    <2> QED
      BY <2>2, <2>3
  <1>7. ASSUME NEW c \in Conns, SendMsg(c) \/ SendPresence(c) PROVE HistoryOK(e)'
    BY <1>e, <1>7, MsgEffect, PresenceEffect, HistorySteady DEF Frames, Announces
  <1>8. ASSUME NEW c \in Conns, OnWsClose(c) PROVE HistoryOK(e)'
    <2>4. run'[c].at \notin {"members", "joined"} /\ \A d \in Conns \ {c} : run'[d] = run[d]
      BY <1>8, LeaveEffect, QuietType DEF Announces
    <2>5. /\ since' = [since EXCEPT ![c] = 0] /\ deleted' = deleted
          /\ Frames(c)' = {} /\ \A d \in Conns \ {c} : Frames(d)' = Frames(d)
      BY <1>8, LeaveEffect
    <2>1. /\ run'[c].at \notin {"members", "joined"} /\ Frames(c)' = {}
          /\ \A d \in Conns \ {c} : /\ run'[d] = run[d] /\ since'[d] = since[d]
                                    /\ Frames(d)' = Frames(d)
          /\ deleted' = deleted
      BY <2>4, <2>5 DEF TypeOK
    <2>2. CASE e = c
      BY <2>1, <2>2 DEF HistoryOK
    <2>3. CASE e # c
      BY <1>e, <2>1, <2>3, HistorySteady
    <2> QED
      BY <2>2, <2>3
  <1>9. ASSUME NEW c \in Conns, Cast(c) PROVE HistoryOK(e)'
    BY <1>e, <1>9, CastEffect, QuietType, HistorySteady DEF Frames
  <1>10. ASSUME NEW c \in Conns, NEW d \in Conns, Send(c, d) PROVE HistoryOK(e)'
    <2>1. /\ run[c].at = "send" /\ Posts(d, run[c].frame) /\ run'[c].at \in {"idle", "send"}
          /\ \A x \in Conns \ {c} : run'[x] = run[x]
          /\ UNCHANGED <<deleted, since>>
      BY <1>10, SendEffect, QuietType
    <2>2. run[c].frame.type # "joined"
      BY <1>e, <2>1 DEF RunOK, Casting
    <2>3. \A f \in Frames(e)' : f \in Frames(e) \/ f.type # "joined"
      BY <2>1, <2>2 DEF Posts
    <2> QED
      BY <1>e, <2>1, <2>3, HistorySteady
  <1>11. CASE CloseRoom
    BY <1>11, CloseRoomEffect DEF HistoryOK
  <1>12. ASSUME NEW d \in Conns, CloseRoomSend(d) PROVE HistoryOK(e)'
    <2>1. PICK f \in FrameType : f.type = "deleted" /\ Posts(d, f)
      BY <1>12, NoticeEffect
    <2>2. \A g \in Frames(e)' : g \in Frames(e) \/ g.type # "joined"
      BY <2>1 DEF Posts
    <2> QED
      BY <1>e, <1>12, <2>2, NoticeEffect, HistorySteady
  <1>13. CASE UNCHANGED vars
    BY <1>e, <1>13, HistorySteady DEF vars, Frames
  <1> QED
    BY <1>2, <1>3, <1>4, <1>5, <1>6, <1>7, <1>8, <1>9, <1>10, <1>11, <1>12, <1>13 DEF Next

----------------------------------------------------------------------------
(* Pending frames arrive.                                                  *)

\* A frame that is still to be posted to a joined peer stays so or is posted.
LEMMA PendKept ==
    ASSUME TypeOK, RunInv, NEW c \in Conns, NEW e \in Joined, NEW type, Pending(c, e, type),
           e # run[c].except, Cast(c) \/ \E d \in Conns : Send(c, d)
    PROVE  \/ Pending(c, e, type)' /\ run'[c].frame = run[c].frame
           \/ run[c].frame \in Frames(e)'
  <1>1. CASE Cast(c)
    <2>1. e \in Joined \ {run[c].except}
      OBVIOUS
    <2> QED
      BY <1>1, <2>1, CastEffect DEF Pending
  <1>2. ASSUME NEW d \in Conns, Send(c, d)
        PROVE  \/ Pending(c, e, type)' /\ run'[c].frame = run[c].frame
               \/ run[c].frame \in Frames(e)'
    <2>1. /\ run[c].at = "send" /\ Posts(d, run[c].frame)
          /\ \/ run[c].targets \ {d} = {}
             \/ /\ run'[c].at = "send" /\ run'[c].frame = run[c].frame
                /\ run'[c].targets = run[c].targets \ {d}
      BY <1>2, SendEffect
    <2>2. e \in run[c].targets /\ e \in Connected /\ e \in Conns
      BY <2>1 DEF Pending, Joined, Connected
    <2>3. CASE e = d
      BY <2>1, <2>2, <2>3 DEF Posts
    <2>4. CASE e # d
      BY <2>1, <2>2, <2>4 DEF Pending
    <2> QED
      BY <2>3, <2>4
  <1> QED
    BY <1>1, <1>2

\* The same for any step: only these two move a broadcast on.
LEMMA PendStep ==
    ASSUME TypeOK, RunInv, [Next]_vars, NEW c \in Conns, NEW e \in Joined, NEW type,
           Pending(c, e, type), e # run[c].except
    PROVE  \/ Pending(c, e, type)' /\ run'[c].frame = run[c].frame
           \/ run[c].frame \in Frames(e)'
  <1>1. run[c].at \in {"cast", "send"}
    BY DEF Pending
  <1>2. CASE Cast(c) \/ \E d \in Conns : Send(c, d)
    BY <1>2, PendKept
  <1>3. ASSUME run'[c] = run[c] PROVE Pending(c, e, type)' /\ run'[c].frame = run[c].frame
    BY <1>3 DEF Pending
  <1>4. ASSUME NEW x \in Conns,
               \/ Open(x) \/ MarkPeerJoined(x) \/ RecentMessages(x) \/ JoinedPeerIds(x)
               \/ SendJoined(x) \/ SendMsg(x) \/ SendPresence(x) \/ OnWsClose(x)
        PROVE  run'[c] = run[c]
    BY <1>1, <1>4, QuietType, OpenEffect, MarkEffect, HistoryEffect, MembersEffect,
       WelcomeEffect, MsgEffect, PresenceEffect, LeaveEffect DEF Announces
  <1>5. ASSUME NEW x \in Conns, x # c, Cast(x) \/ \E d \in Conns : Send(x, d)
        PROVE  run'[c] = run[c]
    BY <1>5, CastEffect, SendEffect
  <1>6. ASSUME CloseRoom \/ \E d \in Conns : CloseRoomSend(d) PROVE run'[c] = run[c]
    BY <1>6, CloseRoomEffect, NoticeEffect
  <1>7. CASE UNCHANGED vars
    BY <1>3, <1>7 DEF vars
  <1> QED
    BY <1>2, <1>3, <1>4, <1>5, <1>6, <1>7 DEF Next

\* A log loses frames only with its connection.
LEMMA FramesKept ==
    ASSUME TypeOK, [Next]_vars, NEW e \in Conns, member'[e] = "joined"
    PROVE  Frames(e) \subseteq Frames(e)'
  <1>1. ASSUME NEW c \in Conns,
               \/ Open(c) \/ MarkPeerJoined(c) \/ RecentMessages(c) \/ JoinedPeerIds(c)
               \/ SendMsg(c) \/ SendPresence(c) \/ Cast(c)
        PROVE  log' = log
    BY <1>1, OpenEffect, MarkEffect, HistoryEffect, MembersEffect, MsgEffect, PresenceEffect,
       CastEffect
  <1>2. log' = log => Frames(e)' = Frames(e)
    BY DEF Frames
  <1>3. ASSUME NEW c \in Conns, NEW d \in Conns, SendJoined(c) \/ Send(c, d) \/ CloseRoomSend(c)
        PROVE  Frames(e) \subseteq Frames(e)'
    BY <1>3, WelcomeEffect, SendEffect, NoticeEffect DEF Posts
  <1>4. ASSUME NEW c \in Conns, OnWsClose(c) PROVE Frames(e) \subseteq Frames(e)'
    <2>1. /\ member' = [member EXCEPT ![c] = "left"]
          /\ \A d \in Conns \ {c} : Frames(d)' = Frames(d)
      BY <1>4, LeaveEffect
    <2>2. e # c
      BY <2>1 DEF TypeOK
    <2> QED
      BY <2>1, <2>2
  <1>5. CASE CloseRoom \/ UNCHANGED vars
    BY <1>2, <1>5, CloseRoomEffect DEF vars
  <1> QED
    BY <1>1, <1>2, <1>3, <1>4, <1>5 DEF Next

----------------------------------------------------------------------------
(* Messages.                                                               *)

\* Each message that entered the cache after c copied its history was posted
\* to c, or the handler that brought it is still to do so.
ReachedOK(c) ==
    member[c] = "joined" /\ run[c].at # "history" =>
        \A m \in since[c] + 1 .. sent :
            \/ \E f \in Frames(c) : f.type = "msg" /\ f.msg = m
            \/ \E d \in Conns : Pending(d, c, "msg") /\ run[d].frame.msg = m

ReachedInv == \A c \in Conns : ReachedOK(c)

\* Where a peer with a history comes from.
LEMMA HasHistory ==
    ASSUME TypeOK, RunInv, [Next]_vars, NEW e \in Conns,
           member'[e] = "joined", run'[e].at # "history"
    PROVE  \/ since'[e] = sent /\ sent' = sent
           \/ /\ member[e] = "joined" /\ run[e].at # "history" /\ since'[e] = since[e]
              /\ \/ sent' = sent
                 \/ \E c \in Conns : SendMsg(c)
  <1>1. ASSUME NEW c \in Conns, Open(c)
        PROVE  member[e] = "joined" /\ UNCHANGED <<run, since, sent>>
    BY <1>1, OpenEffect DEF TypeOK
  <1>2. ASSUME NEW c \in Conns, MarkPeerJoined(c)
        PROVE  member[e] = "joined" /\ run'[e] = run[e] /\ UNCHANGED <<since, sent>>
    <2>1. /\ member' = [member EXCEPT ![c] = "joined"] /\ run'[c].at = "history"
          /\ \A d \in Conns \ {c} : run'[d] = run[d]
          /\ UNCHANGED <<since, sent>>
      BY <1>2, MarkEffect
    <2>2. e # c
      BY <2>1
    <2> QED
      BY <2>1, <2>2 DEF TypeOK
  <1>3. ASSUME NEW c \in Conns, RecentMessages(c)
        PROVE  /\ sent' = sent /\ member[e] = "joined"
               /\ since'[e] = sent \/ (run'[e] = run[e] /\ since'[e] = since[e])
    BY <1>3, HistoryEffect DEF TypeOK
  <1>4. ASSUME NEW c \in Conns,
               \/ JoinedPeerIds(c) \/ SendJoined(c) \/ SendPresence(c) \/ SendMsg(c) \/ Cast(c)
               \/ \E d \in Conns : Send(c, d)
        PROVE  /\ UNCHANGED <<member, since>>
               /\ run[e].at # "history"
               /\ sent' = sent \/ SendMsg(c)
    BY <1>4, MembersEffect, WelcomeEffect, PresenceEffect, MsgEffect, CastEffect, SendEffect
       DEF Announces
  <1>5. ASSUME NEW c \in Conns, OnWsClose(c)
        PROVE  /\ member[e] = "joined" /\ run'[e] = run[e] /\ since'[e] = since[e]
               /\ sent' = sent
    <2>1. /\ member' = [member EXCEPT ![c] = "left"] /\ since' = [since EXCEPT ![c] = 0]
          /\ sent' = sent
          /\ \A d \in Conns \ {c} : run'[d] = run[d]
      BY <1>5, LeaveEffect DEF Announces
    <2>2. e # c
      BY <2>1 DEF TypeOK
    <2> QED
      BY <2>1, <2>2 DEF TypeOK
  <1>6. ASSUME CloseRoom \/ \E d \in Conns : CloseRoomSend(d)
        PROVE  UNCHANGED <<member, run, since, sent>>
    BY <1>6, CloseRoomEffect, NoticeEffect
  <1>7. CASE UNCHANGED vars
    BY <1>7 DEF vars
  <1> QED
    BY <1>1, <1>2, <1>3, <1>4, <1>5, <1>6, <1>7 DEF Next

LEMMA ReachedStep ==
    ASSUME TypeOK, RunInv, ReachedInv, [Next]_vars
    PROVE  ReachedInv'
  <1> SUFFICES ASSUME NEW e \in Conns, member'[e] = "joined", run'[e].at # "history",
                      NEW m \in since'[e] + 1 .. sent'
               PROVE  \/ \E f \in Frames(e)' : f.type = "msg" /\ f.msg = m
                      \/ \E d \in Conns : Pending(d, e, "msg")' /\ run'[d].frame.msg = m
    BY DEF ReachedInv, ReachedOK
  <1>1. sent \in Nat /\ since[e] \in Nat
    BY RelayAssumption DEF TypeOK
  <1>2. CASE since'[e] = sent /\ sent' = sent
    BY <1>1, <1>2
  <1>3. ASSUME member[e] = "joined", run[e].at # "history", m \in since[e] + 1 .. sent
        PROVE  \/ \E f \in Frames(e)' : f.type = "msg" /\ f.msg = m
               \/ \E d \in Conns : Pending(d, e, "msg")' /\ run'[d].frame.msg = m
    <2>1. CASE \E f \in Frames(e) : f.type = "msg" /\ f.msg = m
      BY <2>1, FramesKept
    <2>2. ASSUME NEW d \in Conns, Pending(d, e, "msg"), run[d].frame.msg = m
          PROVE  \/ \E f \in Frames(e)' : f.type = "msg" /\ f.msg = m
                 \/ Pending(d, e, "msg")' /\ run'[d].frame.msg = m
      <3>1. run[d].frame.type = "msg" /\ run[d].except = Nobody
        BY <2>2 DEF RunInv, RunOK, Pending, Casting
      <3>2. e \in Joined /\ e # run[d].except
        BY <1>3, <3>1, RelayAssumption DEF Joined
      <3>3. \/ Pending(d, e, "msg")' /\ run'[d].frame = run[d].frame
            \/ run[d].frame \in Frames(e)'
        BY <2>2, <3>2, PendStep
      <3> QED
        BY <2>2, <3>1, <3>3
    <2> QED
      BY <1>3, <2>1, <2>2 DEF ReachedInv, ReachedOK
  <1>4. ASSUME member[e] = "joined", run[e].at # "history", since'[e] = since[e],
               NEW c \in Conns, SendMsg(c)
        PROVE  \/ \E f \in Frames(e)' : f.type = "msg" /\ f.msg = m
               \/ \E d \in Conns : Pending(d, e, "msg")' /\ run'[d].frame.msg = m
    <2>1. /\ sent' = sent + 1 /\ run'[c].at = "cast" /\ run'[c].frame.type = "msg"
          /\ run'[c].frame.msg = sent + 1
      BY <1>4, MsgEffect DEF Announces
    <2>2. m = sent + 1 \/ m \in since[e] + 1 .. sent
      BY <1>1, <1>4, <2>1
    <2>3. CASE m = sent + 1
      BY <2>1, <2>3 DEF Pending
    <2> QED
      BY <1>3, <1>4, <2>2, <2>3
  <1> QED
    BY <1>2, <1>3, <1>4, HasHistory

----------------------------------------------------------------------------
(* Arrivals and departures.                                                *)

\* Of d, c was sent or will be sent what it needs to correct the member list
\* it has.
ToldOK(c, d, list) ==
    IF d \in Joined
    THEN d \notin list => \/ \E f \in Frames(c) : f.type = "peer_join" /\ f.from = d
                          \/ Joining(d) \/ Pending(d, c, "peer_join")
    ELSE d \in list => \/ \E f \in Frames(c) : f.type = "peer_leave" /\ f.from = d
                       \/ Pending(d, c, "peer_leave")

\* The list of a welcome, sent or about to be.
TellOK(c) ==
    \A d \in Conns \ {c} :
        /\ run[c].at = "joined" => ToldOK(c, d, run[c].frame.members)
        /\ \A f \in Frames(c) : f.type = "joined" => ToldOK(c, d, f.members)

TellInv == \A c \in Conns : TellOK(c)

\* How a peer arrives, goes on joining, and leaves.
LEMMA PeerStep ==
    ASSUME TypeOK, RunInv, [Next]_vars, NEW d \in Conns
    PROVE  /\ d \notin Joined /\ d \in Joined' => Joining(d)'
           /\ Joining(d) => \/ Joining(d)'
                            \/ \E msg, except : Announces(d, "peer_join", msg, except)
           /\ d \in Joined /\ d \notin Joined' =>
                 \E msg, except : Announces(d, "peer_leave", msg, except)
  <1>j. Joined = {c \in Conns : member[c] = "joined"} /\ Joined' = {c \in Conns : member'[c] = "joined"}
    BY DEF Joined
  <1>1. ASSUME NEW c \in Conns, Open(c)
        PROVE  run' = run /\ (d \in Joined' <=> d \in Joined)
    BY <1>1, <1>j, OpenEffect DEF TypeOK
  <1>2. ASSUME NEW c \in Conns, MarkPeerJoined(c)
        PROVE  /\ Joined \subseteq Joined'
               /\ d \in Joined' => d \in Joined \/ Joining(d)'
               /\ Joining(d) => Joining(d)'
    <2>1. /\ member' = [member EXCEPT ![c] = "joined"] /\ run'[c].at = "history"
          /\ \A x \in Conns \ {c} : run'[x] = run[x]
      BY <1>2, MarkEffect
    <2>2. member'[c] = "joined" /\ \A x \in Conns \ {c} : member'[x] = member[x]
      BY <2>1 DEF TypeOK
    <2> QED
      BY <1>j, <2>1, <2>2 DEF Joining
  <1>3. ASSUME NEW c \in Conns, RecentMessages(c) \/ JoinedPeerIds(c)
        PROVE  Joined' = Joined /\ (Joining(d) => Joining(d)')
    BY <1>3, <1>j, HistoryEffect, MembersEffect DEF Joining
  <1>4. ASSUME NEW c \in Conns, SendJoined(c)
        PROVE  /\ Joined' = Joined
               /\ Joining(d) => Joining(d)' \/ Announces(d, "peer_join", 0, d)
    <2>1. UNCHANGED member /\ Announces(c, "peer_join", 0, c)
      BY <1>4, WelcomeEffect
    <2>2. CASE d = c
      BY <1>j, <2>1, <2>2
    <2>3. CASE d # c
      BY <1>j, <2>1, <2>3 DEF Announces, Joining
    <2> QED
      BY <2>2, <2>3
  <1>5. ASSUME NEW c \in Conns, SendMsg(c) \/ SendPresence(c)
        PROVE  Joined' = Joined /\ (Joining(d) => Joining(d)')
    BY <1>5, <1>j, MsgEffect, PresenceEffect DEF Joining, Announces
  <1>6. ASSUME NEW c \in Conns, OnWsClose(c)
        PROVE  /\ d \in Joined' => d \in Joined
               /\ Joining(d) => Joining(d)'
               /\ d \in Joined => d \in Joined' \/ Announces(d, "peer_leave", 0, Nobody)
    <2>1. /\ member' = [member EXCEPT ![c] = "left"] /\ run[c].at = "idle"
          /\ \/ member[c] = "joined" /\ Announces(c, "peer_leave", 0, Nobody)
             \/ member[c] = "open" /\ run' = run
      BY <1>6, LeaveEffect, QuietType
    <2>2. CASE d = c
      BY <1>j, <2>1, <2>2 DEF TypeOK, Joining
    <2>3. CASE d # c
      BY <1>j, <2>1, <2>3 DEF TypeOK, Joining, Announces
    <2> QED
      BY <2>2, <2>3
  <1>7. ASSUME NEW c \in Conns, Cast(c) \/ \E x \in Conns : Send(c, x)
        PROVE  Joined' = Joined /\ (Joining(d) => Joining(d)')
    BY <1>7, <1>j, CastEffect, SendEffect DEF Joining
  <1>8. ASSUME CloseRoom \/ \E x \in Conns : CloseRoomSend(x)
        PROVE  Joined' = Joined /\ run' = run
    BY <1>8, <1>j, CloseRoomEffect, NoticeEffect
  <1>9. CASE UNCHANGED vars
    BY <1>9, <1>j DEF vars, Joining
  <1>10. run' = run => (Joining(d) => Joining(d)')
    BY DEF Joining
  <1> QED
    BY <1>1, <1>2, <1>3, <1>4, <1>5, <1>6, <1>7, <1>8, <1>9, <1>10 DEF Next

\* What c needs to know stays told or on its way, while c stays.
LEMMA ToldStep ==
    ASSUME TypeOK, RunInv, [Next]_vars, NEW c \in Joined, c \in Joined',
           NEW d \in Conns, d # c, NEW list, ToldOK(c, d, list)
    PROVE  ToldOK(c, d, list)'
  <1>1. c \in Conns /\ Frames(c) \subseteq Frames(c)'
    BY FramesKept DEF Joined
  <1>2. ASSUME NEW type \in {"peer_join", "peer_leave"},
               \/ \E f \in Frames(c) : f.type = type /\ f.from = d
               \/ Pending(d, c, type)
        PROVE  \/ \E f \in Frames(c)' : f.type = type /\ f.from = d
               \/ Pending(d, c, type)'
    <2>1. CASE \E f \in Frames(c) : f.type = type /\ f.from = d
      BY <1>1, <2>1
    <2>2. CASE Pending(d, c, type)
      <3>1. run[d].frame.type = type /\ run[d].frame.from = d /\ run[d].except \in {d, Nobody}
        BY <2>2 DEF Pending, RunInv, RunOK, Casting
      <3>2. c # run[d].except
        BY <1>1, <3>1, RelayAssumption
      <3>3. Pending(d, c, type)' \/ run[d].frame \in Frames(c)'
        BY <2>2, <3>2, PendStep
      <3> QED
        BY <3>1, <3>3
    <2> QED
      BY <1>2, <2>1, <2>2
  <1>3. \A type, msg, except : Announces(d, type, msg, except) => Pending(d, c, type)'
    BY DEF Announces, Pending
  <1>4. CASE d \in Joined /\ d \in Joined'
    <2>1. ASSUME d \notin list
          PROVE  \/ \E f \in Frames(c)' : f.type = "peer_join" /\ f.from = d
                 \/ Joining(d)' \/ Pending(d, c, "peer_join")'
      <3>1. \/ \E f \in Frames(c) : f.type = "peer_join" /\ f.from = d
            \/ Joining(d) \/ Pending(d, c, "peer_join")
        BY <1>4, <2>1 DEF ToldOK
      <3>2. CASE Joining(d)
        BY <1>3, <3>2, PeerStep
      <3> QED
        BY <1>2, <3>1, <3>2
    <2> QED
      BY <1>4, <2>1 DEF ToldOK
  <1>5. CASE d \in Joined /\ d \notin Joined'
    <2>1. Pending(d, c, "peer_leave")'
      BY <1>3, <1>5, PeerStep
    <2> QED
      BY <1>5, <2>1 DEF ToldOK
  <1>6. CASE d \notin Joined /\ d \in Joined'
    <2>1. Joining(d)'
      BY <1>6, PeerStep
    <2> QED
      BY <1>6, <2>1 DEF ToldOK
  <1>7. CASE d \notin Joined /\ d \notin Joined'
    <2>1. ASSUME d \in list
          PROVE  \/ \E f \in Frames(c)' : f.type = "peer_leave" /\ f.from = d
                 \/ Pending(d, c, "peer_leave")'
      <3>1. \/ \E f \in Frames(c) : f.type = "peer_leave" /\ f.from = d
            \/ Pending(d, c, "peer_leave")
        BY <1>7, <2>1 DEF ToldOK
      <3> QED
        BY <1>2, <3>1
    <2> QED
      BY <1>7, <2>1 DEF ToldOK
  <1> QED
    BY <1>4, <1>5, <1>6, <1>7

\* A welcome is posted by the handler that made it; a list is made of the
\* joined peers.
LEMMA WelcomeStep ==
    ASSUME TypeOK, RunInv, [Next]_vars, NEW c \in Conns
    PROVE  /\ run'[c].at = "joined" =>
                 \/ run[c].at = "joined" /\ run'[c].frame.members = run[c].frame.members
                 \/ run'[c].frame.members = Joined /\ member' = member
           /\ \A f \in Frames(c)' : f.type = "joined" =>
                 f \in Frames(c) \/ (run[c].at = "joined" /\ f = run[c].frame)
  <1>1. ASSUME NEW x \in Conns,
               \/ Open(x) \/ MarkPeerJoined(x) \/ RecentMessages(x) \/ SendMsg(x)
               \/ SendPresence(x) \/ Cast(x)
        PROVE  /\ run'[c].at = "joined" => run'[c] = run[c]
               /\ log' = log
    BY <1>1, QuietType, OpenEffect, MarkEffect, HistoryEffect, MsgEffect, PresenceEffect, CastEffect
       DEF Announces
  <1>2. ASSUME NEW x \in Conns, JoinedPeerIds(x)
        PROVE  /\ \/ run'[c] = run[c]
                  \/ run'[c].frame.members = Joined /\ member' = member
               /\ log' = log
    BY <1>2, MembersEffect
  <1>3. ASSUME NEW x \in Conns, SendJoined(x)
        PROVE  /\ run'[c].at = "joined" => run'[c] = run[c]
               /\ \A f \in Frames(c)' :
                     f \in Frames(c) \/ (run[c].at = "joined" /\ f = run[c].frame)
    BY <1>3, WelcomeEffect DEF Announces, Posts
  <1>4. ASSUME NEW x \in Conns, OnWsClose(x)
        PROVE  /\ run'[c].at = "joined" => run'[c] = run[c]
               /\ \A f \in Frames(c)' : f \in Frames(c)
    BY <1>4, LeaveEffect DEF Announces
  <1>5. ASSUME NEW x \in Conns, NEW d \in Conns, Send(x, d)
        PROVE  /\ run'[c].at = "joined" => run'[c] = run[c]
               /\ \A f \in Frames(c)' : f \in Frames(c) \/ f.type # "joined"
    <2>1. /\ run[x].at = "send" /\ Posts(d, run[x].frame) /\ run'[x].at \in {"idle", "send"}
          /\ \A y \in Conns \ {x} : run'[y] = run[y]
      BY <1>5, SendEffect, QuietType
    <2>2. run[x].frame.type # "joined"
      BY <2>1 DEF RunInv, RunOK, Casting
    <2> QED
      BY <2>1, <2>2 DEF Posts
  <1>6. ASSUME CloseRoom PROVE UNCHANGED <<run, log>>
    BY <1>6, CloseRoomEffect
  <1>7. ASSUME NEW d \in Conns, CloseRoomSend(d)
        PROVE  run' = run /\ \A f \in Frames(c)' : f \in Frames(c) \/ f.type # "joined"
    <2>1. PICK f \in FrameType : f.type = "deleted" /\ Posts(d, f)
      BY <1>7, NoticeEffect
    <2> QED
      BY <1>7, <2>1, NoticeEffect DEF Posts
  <1>8. CASE UNCHANGED vars
    BY <1>8 DEF vars, Frames
  <1>9. log' = log => Frames(c)' = Frames(c)
    BY DEF Frames
  <1> QED
    BY <1>1, <1>2, <1>3, <1>4, <1>5, <1>6, <1>7, <1>8, <1>9 DEF Next

LEMMA TellStep ==
    ASSUME TypeOK, RunInv, LogInv, TellInv, RunInv', LogInv', [Next]_vars
    PROVE  TellInv'
  <1> SUFFICES ASSUME NEW c \in Conns, NEW d \in Conns \ {c}
               PROVE  /\ run'[c].at = "joined" => ToldOK(c, d, run[c].frame.members)'
                      /\ \A f \in Frames(c)' : f.type = "joined" => ToldOK(c, d, f.members)'
    BY DEF TellInv, TellOK
  <1>1. /\ run[c].at = "joined" => c \in Joined
        /\ run'[c].at = "joined" => c \in Joined'
    BY DEF RunInv, RunOK, Joining, Joined
  <1>2. ASSUME NEW list, c \in Joined, c \in Joined', ToldOK(c, d, list)
        PROVE  ToldOK(c, d, list)'
    BY <1>2, ToldStep
  <1>3. ASSUME run'[c].at = "joined"
        PROVE  ToldOK(c, d, run[c].frame.members)'
    <2>1. PICK list : list = run'[c].frame.members
      OBVIOUS
    <2>2. CASE run[c].at = "joined" /\ list = run[c].frame.members
      <3>1. ToldOK(c, d, list)
        BY <2>2 DEF TellInv, TellOK
      <3>2. ToldOK(c, d, list)'
        BY <1>1, <1>2, <1>3, <2>2, <3>1
      <3> QED
        BY <2>1, <3>2 DEF ToldOK
    <2>3. CASE list = Joined /\ member' = member
      <3>1. d \in list <=> d \in Joined'
        BY <2>3 DEF Joined
      <3> QED
        BY <2>1, <3>1 DEF ToldOK
    <2> QED
      BY <1>3, <2>1, <2>2, <2>3, WelcomeStep
  <1>4. ASSUME NEW f \in Frames(c)', f.type = "joined"
        PROVE  ToldOK(c, d, f.members)'
    <2>1. c \in Joined'
      BY <1>4 DEF LogInv, LogOK, Joined
    <2>2. f \in Frames(c) \/ (run[c].at = "joined" /\ f = run[c].frame)
      BY <1>4, WelcomeStep
    <2>3. c \in Joined /\ ToldOK(c, d, f.members)
      <3>1. CASE f \in Frames(c)
        BY <1>4, <3>1 DEF LogInv, LogOK, Joined, TellInv, TellOK
      <3>2. CASE run[c].at = "joined" /\ f = run[c].frame
        BY <1>1, <3>2 DEF TellInv, TellOK
      <3> QED
        BY <2>2, <3>1, <3>2
    <2> QED
      BY <1>2, <2>1, <2>3
  <1> QED
    BY <1>3, <1>4

----------------------------------------------------------------------------
(* The invariant.                                                          *)

RelayInv ==
    /\ TypeOK /\ RunInv /\ LogInv /\ OrderInv /\ HistoryInv /\ ReachedInv /\ TellInv
    /\ \A c \in Conns : Sorted(c) /\ LeavesLast(c)

LEMMA InitInv == Init => RelayInv
  <1> SUFFICES ASSUME Init PROVE RelayInv
    OBVIOUS
  <1>1. \A c \in Conns : log[c] = <<>> /\ run[c] = Quiet /\ member[c] = "absent" /\ since[c] = 0
    BY DEF Init
  <1>2. cache = <<>> /\ sent = 0 /\ presence = 0 /\ CacheSize \in Nat /\ 0 \in 0 .. MaxMsgs
        /\ 0 \in 0 .. MaxPresence
    BY RelayAssumption DEF Init
  <1>3. Len(<<>>) = 0 /\ <<>> \in Seq(1 .. 0) /\ <<>> \in Seq(FrameType)
    BY EmptySeq
  <1>4. TypeOK
    <2>1. cache \in Seq(1 .. sent) /\ Len(cache) <= CacheSize
      BY <1>2, <1>3
    <2>2. run \in [Conns -> HandlerType] /\ log \in [Conns -> Seq(FrameType)]
      BY <1>3, QuietType DEF Init
    <2>3. /\ member \in [Conns -> {"absent", "open", "joined", "left"}]
          /\ sender \in [1 .. MaxMsgs -> Conns \cup {Nobody}]
          /\ since \in [Conns -> 0 .. MaxMsgs]
          /\ closer \subseteq Conns /\ deleted \in BOOLEAN
      BY <1>2 DEF Init
    <2> QED
      BY <1>2, <2>1, <2>2, <2>3 DEF TypeOK
  <1>5. \A c \in Conns : Frames(c) = {} /\ ~Joining(c) /\ ~Casting(c) /\ run[c].at = "idle"
    BY <1>1, QuietType DEF Frames, Joining, Casting
  <1>6. RunInv
    BY <1>1, <1>5 DEF RunInv, RunOK
  <1>7. LogInv /\ TellInv
    BY <1>5 DEF LogInv, LogOK, TellInv, TellOK
  <1>8. OrderInv
    BY <1>5 DEF OrderInv, OrderOK
  <1>9. CacheOK
    BY <1>2, <1>3 DEF CacheOK
  <1>10. HistoryInv
    BY <1>5, <1>9 DEF HistoryInv, HistoryOK
  <1>11. ReachedInv
    BY <1>1 DEF ReachedInv, ReachedOK
  <1>12. \A c \in Conns : Sorted(c) /\ LeavesLast(c)
    BY <1>1 DEF Sorted, LeavesLast
  <1> QED
    BY <1>4, <1>6, <1>7, <1>8, <1>10, <1>11, <1>12 DEF RelayInv

LEMMA TypeStep == TypeOK /\ [Next]_vars => TypeOK'
  <1> SUFFICES ASSUME TypeOK, [Next]_vars PROVE TypeOK'
    OBVIOUS
  <1>1. ASSUME NEW c \in Conns,
               \/ Open(c) \/ MarkPeerJoined(c) \/ RecentMessages(c) \/ JoinedPeerIds(c)
               \/ SendJoined(c) \/ SendMsg(c) \/ SendPresence(c) \/ OnWsClose(c) \/ Cast(c)
               \/ CloseRoomSend(c) \/ \E d \in Conns : Send(c, d)
        PROVE  TypeOK'
    BY <1>1, OpenEffect, MarkEffect, HistoryEffect, MembersEffect, WelcomeEffect, MsgEffect,
       PresenceEffect, LeaveEffect, CastEffect, NoticeEffect, SendEffect
  <1>2. CASE CloseRoom
    BY <1>2, CloseRoomEffect
  <1>3. CASE UNCHANGED vars
    BY <1>3 DEF vars, TypeOK
  <1> QED
    BY <1>1, <1>2, <1>3 DEF Next

LEMMA StepInv == RelayInv /\ [Next]_vars => RelayInv'
  <1> SUFFICES ASSUME RelayInv, [Next]_vars PROVE RelayInv'
    OBVIOUS
  <1> USE DEF RelayInv
  <1>1. TypeOK' /\ RunInv' /\ LogInv'
    BY TypeStep, RunStep, LogStep
  <1>2. OrderInv' /\ HistoryInv' /\ ReachedInv'
    BY OrderStep, HistoryStep, ReachedStep
  <1>3. TellInv'
    BY <1>1, TellStep
  <1>4. \A c \in Conns : Sorted(c)' /\ LeavesLast(c)'
    BY SortedStep, LeavesLastStep
  <1> QED
    BY <1>1, <1>2, <1>3, <1>4

LEMMA RelayInvHolds == Spec => []RelayInv
  BY InitInv, StepInv, PTL DEF Spec

----------------------------------------------------------------------------
(* The theorems.                                                           *)

LEMMA WelcomeFound ==
    ASSUME NEW c \in Conns, Welcomed(c)
    PROVE  Welcome(c) \in Frames(c) /\ Welcome(c).type = "joined"
  <1>1. \E k \in Indices(c, {"joined"}) : TRUE
    BY DEF Welcomed
  <1>2. WelcomeAt(c) \in Indices(c, {"joined"})
    BY <1>1 DEF WelcomeAt
  <1> QED
    BY <1>2 DEF Indices, Welcome, Frames

\* The frames of a kind, by their indices.
LEMMA FrameIndex ==
    ASSUME NEW c \in Conns, NEW type, NEW f \in Frames(c), f.type = type
    PROVE  \E k \in Indices(c, {type}) : log[c][k] = f
  BY DEF Frames, Indices

LEMMA SettledQuiet ==
    ASSUME Settled, NEW c \in Conns, NEW d, NEW type
    PROVE  run[c].at = "idle" /\ ~Joining(c) /\ ~Pending(c, d, type)
  <1>1. run[c] = Quiet
    BY DEF Settled
  <1> QED
    BY <1>1, QuietType DEF Joining, Pending

\* The peer table, the cache, the handlers and the logs keep their types.
THEOREM RelayTypes == Spec => []TypeOK
  <1>1. RelayInv => TypeOK
    BY DEF RelayInv
  <1> QED
    BY <1>1, RelayInvHolds, PTL

\* Every peer gets the messages of one sender in the order in which they were
\* sent and none twice, for any number of peers and messages (broadcast).
THEOREM MessagesKeepTheirOrder == Spec => []SenderOrder
  <1>1. RelayInv => SenderOrder
    BY DEF RelayInv, Sorted, SenderOrder, Indices
  <1> QED
    BY <1>1, RelayInvHolds, PTL

\* Nothing of a connection is relayed after its departure was told, so what
\* still comes under its id comes from another connection of the same token
\* (onWsClose).
THEOREM NothingAfterLeave == Spec => []LeaveIsLast
  <1>1. RelayInv => LeaveIsLast
    <2> SUFFICES ASSUME RelayInv, NEW c \in Conns, NEW k \in Indices(c, {"peer_leave"}),
                        NEW j \in Indices(c, {"peer_join", "msg", "presence"}), k < j
                 PROVE  log[c][j].from # log[c][k].from
      BY DEF LeaveIsLast
    <2>1. j \in Nat /\ k \in Nat
      BY LenProperties DEF RelayInv, TypeOK, Indices
    <2>2. log[c][j].from = log[c][k].from => j < k
      BY DEF RelayInv, LeavesLast, Indices
    <2> QED
      BY <2>1, <2>2
  <1> QED
    BY <1>1, RelayInvHolds, PTL

\* The history of a welcome is the newest messages the cache can hold, for
\* any size of it, 0 included (recentMessages, appendCachedMessage).
THEOREM HistoryStaysRecent == Spec => []HistoryIsRecent
  <1>1. RelayInv => HistoryIsRecent
    <2> SUFFICES ASSUME RelayInv, NEW c \in Conns, Welcomed(c), ~deleted
                 PROVE  InHistory(c) = {m \in 1 .. since[c] : m + CacheSize > since[c]}
      BY DEF HistoryIsRecent
    <2>1. Welcome(c) \in Frames(c) /\ Welcome(c).type = "joined"
      BY WelcomeFound
    <2>2. Recent(Welcome(c).history, since[c])
      BY <2>1 DEF RelayInv, HistoryInv, HistoryOK
    <2> QED
      BY <2>2 DEF Recent, InHistory
  <1> QED
    BY <1>1, RelayInvHolds, PTL

\* No message falls between a joiner's history and the messages relayed to
\* it, whatever ran between the steps of finalizeJoin.
THEOREM NoMessageIsSkipped == Spec => []NothingSkipped
  <1>1. RelayInv => NothingSkipped
    <2> SUFFICES ASSUME RelayInv, Settled, NEW c \in Joined, NEW m \in since[c] + 1 .. sent
                 PROVE  m \in LiveMessages(c)
      BY DEF NothingSkipped
    <2>1. c \in Conns /\ member[c] = "joined"
      BY DEF Joined
    <2>2. run[c].at # "history"
      BY <2>1, SettledQuiet
    <2>3. \A d \in Conns : ~Pending(d, c, "msg")
      BY SettledQuiet
    <2>4. PICK f \in Frames(c) : f.type = "msg" /\ f.msg = m
      BY <2>1, <2>2, <2>3 DEF RelayInv, ReachedInv, ReachedOK
    <2>5. \E k \in Indices(c, {"msg"}) : log[c][k] = f
      BY <2>1, <2>4, FrameIndex
    <2> QED
      BY <2>4, <2>5 DEF LiveMessages
  <1> QED
    BY <1>1, RelayInvHolds, PTL

\* What a peer was sent lets it know which ids are there: its member list
\* with the arrivals and departures it was told of, however tokens are shared.
THEOREM EveryMemberIsTold == Spec => []MembersAreTold
  <1>1. ASSUME RelayInv, Settled, NEW c \in Joined, Welcomed(c), NEW d \in Conns \ {c}
        PROVE  IF d \in Joined
               THEN \/ d \in Welcome(c).members
                    \/ \E k \in Indices(c, {"peer_join"}) : log[c][k].from = d
               ELSE d \in Welcome(c).members =>
                       \E k \in Indices(c, {"peer_leave"}) : log[c][k].from = d
    <2>1. c \in Conns
      BY DEF Joined
    <2>2. Welcome(c) \in Frames(c) /\ Welcome(c).type = "joined"
      BY <1>1, <2>1, WelcomeFound
    <2>3. ToldOK(c, d, Welcome(c).members)
      BY <1>1, <2>1, <2>2 DEF RelayInv, TellInv, TellOK
    <2>4. ~Joining(d) /\ ~Pending(d, c, "peer_join") /\ ~Pending(d, c, "peer_leave")
      BY <1>1, SettledQuiet
    <2>5. \A type : (\E f \in Frames(c) : f.type = type /\ f.from = d)
                       => \E k \in Indices(c, {type}) : log[c][k].from = d
      BY <2>1, FrameIndex
    <2> QED
      BY <2>3, <2>4, <2>5 DEF ToldOK
  <1>2. RelayInv => MembersAreTold
    <2> SUFFICES ASSUME RelayInv, NEW id \in IdMaps, Settled, NEW c \in Joined, Welcomed(c),
                        NEW p \in Peers \ {id[c]}
                 PROVE  IF p \in JoinedIds(id)
                        THEN \/ p \in MemberIds(id, Welcome(c))
                             \/ \E k \in Indices(c, {"peer_join"}) : PeerId(id, log[c][k]) = p
                        ELSE p \in MemberIds(id, Welcome(c)) =>
                                \E k \in Indices(c, {"peer_leave"}) : PeerId(id, log[c][k]) = p
      BY DEF MembersAreTold
    <2>1. Welcome(c).members \subseteq Conns
      BY WelcomeFound, FramesTyped, FrameFields DEF RelayInv, Joined
    <2>2. CASE p \in JoinedIds(id)
      <3>1. PICK d \in Joined : id[d] = p
        BY <2>2 DEF JoinedIds
      <3>2. d \in Conns \ {c}
        BY <3>1 DEF Joined
      <3> QED
        BY <1>1, <2>2, <3>1, <3>2 DEF MemberIds, PeerId
    <2>3. CASE p \notin JoinedIds(id) /\ p \in MemberIds(id, Welcome(c))
      <3>1. PICK d \in Welcome(c).members : id[d] = p
        BY <2>3 DEF MemberIds
      <3>2. d \in Conns \ {c} /\ d \notin Joined
        BY <2>1, <2>3, <3>1 DEF JoinedIds
      <3>3. \E k \in Indices(c, {"peer_leave"}) : log[c][k].from = d
        BY <1>1, <3>1, <3>2
      <3> QED
        BY <2>3, <3>1, <3>3 DEF PeerId
    <2> QED
      BY <2>2, <2>3
  <1> QED
    BY <1>2, RelayInvHolds, PTL

=============================================================================
