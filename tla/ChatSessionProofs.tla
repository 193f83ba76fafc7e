-------------------------- MODULE ChatSessionProofs --------------------------
(***************************************************************************)
(* Proofs about ChatSession for any number of tabs, probes in flight,      *)
(* replaced sockets and outages.  What is about the stored credentials     *)
(* rests on a tab being the only one that has the room open (KeyInv): two  *)
(* that share them can mix up their keys.                                  *)
(***************************************************************************)
EXTENDS ChatSession, SequenceTheorems, TLAPS

\* A client uses the key of its tab, and one without a token that has answered
\* a challenge, or is let in, has tested it.
HasJoined(inbox) == \E k \in DOMAIN inbox : inbox[k] = "joined"
Tested(s) ==
    /\ s.client.ws # "none" => s.client.key = s.key
    /\ ~s.client.token /\ (s.client.stage = "answer" \/ HasJoined(s.client.inbox)) =>
          s.client.key = RightKey

\* A tab: the form is free when it is shown, and a session shown as joined
\* has its client or is due a close event.
TabOK(s) ==
    /\ s.needPassword => ~s.passwordBusy
    /\ s.status = "joined" /\ ~s.unmounted =>
          \/ s.stale > 0
          \/ s.client.joined /\ s.client.ws \in {"open", "closing"}
    /\ s.status = "deriving_key" => s = FreshTab
    /\ s.client.ws = "none" => s.client.stage = "none"
    /\ Tested(s)

\* A client that has a token, has answered a challenge or is let in has the
\* right key.
ClientOK(c) == c.token \/ c.stage = "answer" \/ HasJoined(c.inbox) => c.key = RightKey

\* The only tab of the room and the entry of its room: while there is a token the key is
\* right, and whoever asks for a password or shows the room as deleted has
\* none.
KeyOK(s, entry) ==
    /\ ClientOK(s.client)
    /\ entry.token => entry.key = RightKey /\ (s.status # "deriving_key" => s.key = RightKey)
    /\ s.needPassword => ~entry.token
    /\ s.status = "deleted" => entry = Forgotten
    /\ entry.key \in {RightKey, "none"}

EntryType == [token: BOOLEAN, key: Keys \cup {"none"}]

----------------------------------------------------------------------------
(* The client.                                                             *)

\* What most functions leave as it is.
Keeps(s, r) ==
    /\ r.status = s.status /\ r.key = s.key /\ r.needPassword = s.needPassword
    /\ r.passwordBusy = s.passwordBusy /\ r.unmounted = s.unmounted /\ r.stale = s.stale

LEMMA TabFields ==
    ASSUME NEW s \in TabType
    PROVE  /\ s.client \in ClientType /\ s.stale \in 0 .. MaxStale /\ s.stale \in Nat
           /\ s.key \in Keys \cup {"none"}
           /\ s.needPassword \in BOOLEAN /\ s.passwordBusy \in BOOLEAN /\ s.unmounted \in BOOLEAN
           /\ s.passwordDraft \in {""} \cup Passwords
           /\ s.probe \in [Slots -> {"none", "sent", "alive", "gone"}]
  <1>1. s.stale \in 0 .. MaxStale
    BY DEF TabType
  <1>2. s.stale \in Nat
    BY <1>1, SessionAssumption
  <1> QED
    BY <1>1, <1>2 DEF TabType

LEMMA ClientFields ==
    ASSUME NEW c \in ClientType
    PROVE  /\ c.ws \in {"none", "connecting", "open", "closing", "closed"}
           /\ c.token \in BOOLEAN /\ c.key \in Keys \cup {"none"} /\ c.joined \in BOOLEAN
           /\ c.stage \in {"none", "hello", "answer"} /\ c.inbox \in Seq(Frames)
  BY DEF ClientType

LEMMA ClientSet ==
    ASSUME NEW s \in TabType, NEW c \in ClientType
    PROVE  LET r == [s EXCEPT !.client = c] IN r \in TabType /\ Keeps(s, r) /\ r.client = c
  BY DEF TabType, Keeps

LEMMA NoFrames == <<>> \in Seq(Frames) /\ ~HasJoined(<<>>)
  BY EmptySeq DEF HasJoined

LEMMA RightKeyType == RightKey \in Keys
  BY DEF RightKey, Keys, Passwords

LEMMA NewClient ==
    ASSUME NEW ws \in {"none", "connecting"}, NEW token \in BOOLEAN, NEW key \in Keys \cup {"none"}
    PROVE  /\ Client(ws, token, key) \in ClientType
           /\ Client(ws, token, key).ws = ws
           /\ Client(ws, token, key).token = token
           /\ Client(ws, token, key).key = key
           /\ Client(ws, token, key).stage = "none"
           /\ ~HasJoined(Client(ws, token, key).inbox)
  <1>1. PICK inbox \in Seq(Frames) : inbox = <<>> /\ ~HasJoined(inbox)
    BY NoFrames
  <1> QED
    BY <1>1 DEF Client, ClientType

\* A client that takes no more frames.
Silent(c, d) ==
    /\ d.stage = "none" /\ ~HasJoined(d.inbox)
    /\ d.token = c.token /\ d.key = c.key /\ d.joined = c.joined

LEMMA EndedIsSilent ==
    ASSUME NEW c \in ClientType, NEW ws \in {"closing", "closed"}
    PROVE  /\ Ended(c, ws) \in ClientType /\ Ended(c, ws).ws = ws /\ Silent(c, Ended(c, ws))
           /\ \E d \in ClientType :
                 d = [Ended(c, ws) EXCEPT !.closedByUs = TRUE] /\ d.ws = ws /\ Silent(c, d)
  <1>1. PICK inbox \in Seq(Frames) : inbox = <<>> /\ ~HasJoined(inbox)
    BY NoFrames
  <1>2. PICK e : e = [c EXCEPT !.ws = ws, !.stage = "none", !.inbox = inbox]
    OBVIOUS
  <1>3. e \in ClientType /\ e.ws = ws /\ Silent(c, e) /\ e = Ended(c, ws)
    <2>1. e \in ClientType /\ e.ws = ws /\ e.stage = "none" /\ e.inbox = inbox
      BY <1>1, <1>2 DEF ClientType
    <2>2. e.token = c.token /\ e.key = c.key /\ e.joined = c.joined
      BY <1>2 DEF ClientType
    <2>3. e = Ended(c, ws)
      BY <1>1, <1>2 DEF Ended
    <2> QED
      BY <1>1, <2>1, <2>2, <2>3 DEF Silent
  <1>4. PICK d : d = [e EXCEPT !.closedByUs = TRUE]
    OBVIOUS
  <1>5. d \in ClientType /\ d.ws = e.ws /\ Silent(e, d)
    <2>1. d \in ClientType
      BY <1>3, <1>4 DEF ClientType
    <2>2. /\ d.ws = e.ws /\ d.token = e.token /\ d.key = e.key /\ d.joined = e.joined
          /\ d.stage = e.stage /\ d.inbox = e.inbox
      BY <1>3, <1>4 DEF ClientType
    <2> QED
      BY <1>3, <2>1, <2>2 DEF Silent
  <1> QED
    BY <1>3, <1>4, <1>5 DEF Silent

LEMMA CloseClientEffect ==
    ASSUME NEW s \in TabType
    PROVE  /\ CloseClient(s) \in TabType /\ Keeps(s, CloseClient(s))
           /\ \/ s.client.ws = "none" /\ CloseClient(s) = s
              \/ /\ s.client.ws # "none" /\ Silent(s.client, CloseClient(s).client)
                 /\ CloseClient(s).client.ws = IF s.client.ws = "closed" THEN "closed" ELSE "closing"
  <1>1. CASE s.client.ws = "none"
    BY <1>1 DEF CloseClient, Keeps
  <1>2. CASE s.client.ws # "none"
    <2>1. PICK c \in ClientType : c = s.client
      BY TabFields
    <2>2. PICK ws \in {"closing", "closed"} : ws = IF c.ws = "closed" THEN "closed" ELSE "closing"
      OBVIOUS
    <2>3. PICK d \in ClientType :
             d = [Ended(c, ws) EXCEPT !.closedByUs = TRUE] /\ d.ws = ws /\ Silent(c, d)
      BY EndedIsSilent
    <2>4. CloseClient(s) = [s EXCEPT !.client = d]
      BY <1>2, <2>1, <2>2, <2>3 DEF CloseClient
    <2>5. PICK q \in TabType : q = [s EXCEPT !.client = d] /\ Keeps(s, q) /\ q.client = d
      BY ClientSet
    <2>6. CloseClient(s) = q
      BY <2>4, <2>5
    <2> QED
      BY <1>2, <2>1, <2>2, <2>3, <2>5, <2>6
  <1> QED
    BY <1>1, <1>2

\* What spawnClient makes of a tab.
Spawned(s, isInitial, token, r) ==
    /\ r.client \in ClientType /\ r.client.ws = "connecting" /\ r.client.token = token
    /\ r.client.key = s.key /\ r.client.stage = "none" /\ ~HasJoined(r.client.inbox)
    /\ r.key = s.key /\ r.needPassword = s.needPassword
    /\ r.passwordBusy = s.passwordBusy /\ r.unmounted = s.unmounted
    /\ r.stale = IF s.client.ws \in {"none", "closed"} THEN s.stale ELSE s.stale + 1
    /\ r.status = IF ~isInitial THEN s.status ELSE IF token THEN "joining" ELSE "connecting"

LEMMA SpawnClientEffect ==
    ASSUME NEW s \in TabType, NEW isInitial \in BOOLEAN, NEW token \in BOOLEAN,
           s.client.ws \in {"none", "closed"} \/ s.stale < MaxStale
    PROVE  \E r \in TabType : r = SpawnClient(s, isInitial, token) /\ Spawned(s, isInitial, token, r)
  <1>1. PICK c \in ClientType :
           /\ c = Client("connecting", token, s.key) /\ c.ws = "connecting" /\ c.token = token
           /\ c.key = s.key /\ c.stage = "none" /\ ~HasJoined(c.inbox)
    <2>1. PICK key \in Keys \cup {"none"} : key = s.key
      BY TabFields
    <2>2. PICK ws \in {"none", "connecting"} : ws = "connecting"
      OBVIOUS
    <2> QED
      BY <2>1, <2>2, NewClient
  <1>2. PICK stale \in 0 .. MaxStale :
           stale = IF s.client.ws \in {"none", "closed"} THEN s.stale ELSE s.stale + 1
    <2>1. s.stale \in Nat /\ s.stale <= MaxStale /\ MaxStale \in Nat
      <3>1. s.stale \in 0 .. MaxStale /\ MaxStale \in Nat
        BY TabFields, SessionAssumption
      <3> QED
        BY <3>1
    <2>2. CASE s.client.ws \in {"none", "closed"}
      BY <2>1, <2>2
    <2>3. CASE ~(s.client.ws \in {"none", "closed"})
      BY <2>1, <2>3
    <2> QED
      BY <2>2, <2>3
  <1>3. PICK status \in {"deriving_key", "connecting", "joining", "joined", "deleted", "lost"} :
           status = IF ~isInitial THEN s.status ELSE IF token THEN "joining" ELSE "connecting"
    BY DEF TabType
  <1>4. SpawnClient(s, isInitial, token)
           = [s EXCEPT !.client = c, !.stale = stale, !.status = status]
    BY <1>1, <1>2, <1>3 DEF SpawnClient
  <1>5. PICK r : r = [s EXCEPT !.client = c, !.stale = stale, !.status = status]
    OBVIOUS
  <1>6. /\ r \in TabType /\ r.client = c /\ r.stale = stale /\ r.status = status
        /\ r.key = s.key /\ r.needPassword = s.needPassword
        /\ r.passwordBusy = s.passwordBusy /\ r.unmounted = s.unmounted
    BY <1>5 DEF TabType
  <1> QED
    BY <1>1, <1>2, <1>3, <1>4, <1>5, <1>6 DEF Spawned
----------------------------------------------------------------------------
(* Frames.                                                                 *)

\* A client that still has its socket, with other frames under way.
Queued(c, d) ==
    /\ d \in ClientType
    /\ d.ws = c.ws /\ d.token = c.token /\ d.key = c.key /\ d.joined = c.joined

LEMMA JoinedIsAppended ==
    ASSUME NEW inbox \in Seq(Frames), NEW frames \in Seq(Frames), HasJoined(inbox \o frames)
    PROVE  HasJoined(inbox) \/ HasJoined(frames)
  <1>1. PICK k \in DOMAIN (inbox \o frames) : (inbox \o frames)[k] = "joined"
    BY DEF HasJoined
  <1>2. CASE k <= Len(inbox)
    <2>1. k \in DOMAIN inbox /\ inbox[k] = "joined"
      BY <1>1, <1>2
    <2> QED
      BY <2>1 DEF HasJoined
  <1>3. CASE k > Len(inbox)
    <2>1. k - Len(inbox) \in DOMAIN frames /\ frames[k - Len(inbox)] = "joined"
      BY <1>1, <1>3
    <2> QED
      BY <2>1 DEF HasJoined
  <1> QED
    BY <1>1, <1>2, <1>3

LEMMA JoinedIsTaken ==
    ASSUME NEW inbox \in Seq(Frames), inbox # <<>>
    PROVE  /\ Tail(inbox) \in Seq(Frames)
           /\ HasJoined(Tail(inbox)) => HasJoined(inbox)
           /\ Head(inbox) = "joined" => HasJoined(inbox)
  <1>1. Tail(inbox) \in Seq(Frames) /\ Len(Tail(inbox)) = Len(inbox) - 1 /\ Len(inbox) >= 1
    OBVIOUS
  <1>2. ASSUME HasJoined(Tail(inbox)) PROVE HasJoined(inbox)
    <2>1. PICK k \in DOMAIN Tail(inbox) : Tail(inbox)[k] = "joined"
      BY <1>2 DEF HasJoined
    <2>2. k + 1 \in DOMAIN inbox /\ inbox[k + 1] = "joined"
      BY <1>1, <2>1
    <2> QED
      BY <2>2 DEF HasJoined
  <1>3. ASSUME Head(inbox) = "joined" PROVE HasJoined(inbox)
    <2>1. 1 \in DOMAIN inbox /\ inbox[1] = "joined"
      BY <1>1, <1>3
    <2> QED
      BY <2>1 DEF HasJoined
  <1> QED
    BY <1>1, <1>2, <1>3

LEMMA FrameLists ==
    /\ \A frame \in Frames : <<frame>> \in Seq(Frames) /\ (frame # "joined" => ~HasJoined(<<frame>>))
    /\ <<"deleted", "close">> \in Seq(Frames) /\ ~HasJoined(<<"deleted", "close">>)
  BY DEF Frames, HasJoined

LEMMA SentEffect ==
    ASSUME NEW c \in ClientType, NEW frames \in Seq(Frames)
    PROVE  /\ Queued(c, Sent(c, frames)) /\ Sent(c, frames).stage = "none"
           /\ HasJoined(Sent(c, frames).inbox) => HasJoined(c.inbox) \/ HasJoined(frames)
  <1>1. PICK inbox \in Seq(Frames) : inbox = c.inbox \o frames
    <2>1. PICK old \in Seq(Frames) : old = c.inbox
      BY ClientFields
    <2>2. old \o frames \in Seq(Frames)
      BY ConcatProperties
    <2> QED
      BY <2>1, <2>2
  <1>2. PICK d : d = [c EXCEPT !.stage = "none", !.inbox = inbox]
    OBVIOUS
  <1>3. d \in ClientType /\ d.stage = "none" /\ d.inbox = inbox
    BY <1>1, <1>2 DEF ClientType
  <1>4. d.ws = c.ws /\ d.token = c.token /\ d.key = c.key /\ d.joined = c.joined
    BY <1>2 DEF ClientType
  <1>5. d = Sent(c, frames)
    BY <1>1, <1>2 DEF Sent
  <1> QED
    BY <1>1, <1>3, <1>4, <1>5, ClientFields, JoinedIsAppended DEF Queued

\* The tab that has taken a frame.
LEMMA TakenEffect ==
    ASSUME TypeOK, NEW t \in Tabs, tab[t].client.inbox # <<>>
    PROVE  /\ Taken(t) \in TabType /\ Keeps(tab[t], Taken(t))
           /\ Taken(t).passwordDraft = tab[t].passwordDraft
           /\ Queued(tab[t].client, Taken(t).client)
           /\ Taken(t).client.stage = tab[t].client.stage
           /\ HasJoined(Taken(t).client.inbox) => HasJoined(tab[t].client.inbox)
           /\ Head(tab[t].client.inbox) = "joined" => HasJoined(tab[t].client.inbox)
  <1>1. PICK s \in TabType : s = tab[t]
    BY DEF TypeOK
  <1>2. PICK c \in ClientType : c = s.client
    BY TabFields
  <1>3. PICK inbox \in Seq(Frames) :
           /\ inbox = Tail(c.inbox) /\ (HasJoined(inbox) => HasJoined(c.inbox))
           /\ Head(c.inbox) = "joined" => HasJoined(c.inbox)
    BY <1>1, <1>2, ClientFields, JoinedIsTaken
  <1>4. PICK d : d = [c EXCEPT !.inbox = inbox]
    OBVIOUS
  <1>5. Queued(c, d) /\ d.inbox = inbox /\ d.stage = c.stage
    BY <1>4 DEF ClientType, Queued
  <1>6. PICK r : r = [s EXCEPT !.client = d]
    OBVIOUS
  <1>7. r \in TabType /\ Keeps(s, r) /\ r.client = d /\ r.passwordDraft = s.passwordDraft
    BY <1>5, <1>6 DEF TabType, Keeps, Queued
  <1>8. r = Taken(t)
    BY <1>1, <1>2, <1>3, <1>4, <1>6 DEF Taken
  <1> QED
    BY <1>1, <1>2, <1>3, <1>5, <1>7, <1>8

----------------------------------------------------------------------------
(* The functions of the component.                                         *)

\* What a close event makes of a tab: the session is lost, unless it is left,
\* over, or not yet on its way.
Lost(s, r) ==
    /\ r \in TabType /\ r.client = s.client /\ r.key = s.key /\ r.stale = s.stale
    /\ r.needPassword = s.needPassword /\ r.passwordBusy = s.passwordBusy
    /\ r.unmounted = s.unmounted
    /\ r.status # s.status => r.status = "lost" /\ s.status \notin {"deriving_key", "deleted"}
    /\ r.status = "joined" => s.unmounted

LEMMA TimerEffect ==
    ASSUME NEW s \in TabType
    PROVE  /\ CancelReconnect(s) \in TabType /\ Keeps(s, CancelReconnect(s))
           /\ CancelReconnect(s).client = s.client
           /\ CancelReconnect(s).passwordDraft = s.passwordDraft
           /\ ScheduleReconnect(s) \in TabType /\ Keeps(s, ScheduleReconnect(s))
           /\ ScheduleReconnect(s).client = s.client
  <1>1. PICK r : r = [s EXCEPT !.reconnectTimer = FALSE]
    OBVIOUS
  <1>2. r \in TabType /\ Keeps(s, r) /\ r.client = s.client /\ r.passwordDraft = s.passwordDraft
    BY <1>1 DEF TabType, Keeps
  <1>3. PICK q : q = [s EXCEPT !.reconnectTimer = TRUE]
    OBVIOUS
  <1>4. q \in TabType /\ Keeps(s, q) /\ q.client = s.client
    BY <1>3 DEF TabType, Keeps
  <1>5. CancelReconnect(s) = r /\ (ScheduleReconnect(s) = s \/ ScheduleReconnect(s) = q)
    BY <1>1, <1>3 DEF CancelReconnect, ScheduleReconnect
  <1> QED
    BY <1>2, <1>4, <1>5 DEF Keeps

LEMMA OnCloseEffect ==
    ASSUME NEW s \in TabType, NEW clean \in BOOLEAN
    PROVE  Lost(s, OnClose(s, clean))
  <1>1. PICK status \in {"deriving_key", "connecting", "joining", "joined", "deleted", "lost"} :
           status = IF s.status \in {"joined", "connecting", "joining"} THEN "lost" ELSE s.status
    BY DEF TabType
  <1>2. PICK r : r = [s EXCEPT !.status = status]
    OBVIOUS
  <1>3. /\ r \in TabType /\ r.client = s.client /\ r.key = s.key /\ r.stale = s.stale
        /\ r.needPassword = s.needPassword /\ r.passwordBusy = s.passwordBusy
        /\ r.unmounted = s.unmounted /\ r.status = status
    BY <1>1, <1>2 DEF TabType
  <1>4. Lost(s, r)
    BY <1>1, <1>3 DEF Lost
  <1>5. ScheduleReconnect(r) \in TabType /\ Keeps(r, ScheduleReconnect(r)) /\ ScheduleReconnect(r).client = r.client
    BY <1>3, TimerEffect
  <1>6. Lost(s, ScheduleReconnect(r))
    BY <1>4, <1>5 DEF Lost, Keeps
  <1>7. CASE s.unmounted \/ s.status = "deleted"
    BY <1>7 DEF OnClose, Lost
  <1>8. CASE ~(s.unmounted \/ s.status = "deleted")
    <2>1. OnClose(s, clean) = r \/ OnClose(s, clean) = ScheduleReconnect(r)
      BY <1>1, <1>2, <1>8 DEF OnClose
    <2> QED
      BY <1>4, <1>6, <2>1
  <1> QED
    BY <1>7, <1>8

LEMMA SocketGoneEffect ==
    ASSUME NEW s \in TabType
    PROVE  \E q \in TabType :
              /\ Lost(q, SocketGone(s)) /\ Keeps(s, q)
              /\ q.client.ws = "closed" /\ Silent(s.client, q.client)
  <1>1. PICK c \in ClientType : c = s.client /\ c.closedByUs \in BOOLEAN
    BY TabFields DEF ClientType
  <1>2. PICK ws \in {"closing", "closed"} : ws = "closed"
    OBVIOUS
  <1>3. PICK d \in ClientType : d = Ended(c, ws) /\ d.ws = ws /\ Silent(c, d)
    BY EndedIsSilent
  <1>4. PICK q \in TabType : q = [s EXCEPT !.client = d] /\ Keeps(s, q) /\ q.client = d
    BY ClientSet
  <1>5. SocketGone(s) = OnClose(q, c.closedByUs)
    BY <1>1, <1>2, <1>3, <1>4 DEF SocketGone
  <1>6. Lost(q, SocketGone(s))
    BY <1>1, <1>5, OnCloseEffect
  <1> QED
    BY <1>1, <1>2, <1>3, <1>4, <1>6

LEMMA OnInvalidKeyEffect ==
    ASSUME NEW s \in TabType
    PROVE  /\ OnInvalidKey(s) \in TabType /\ OnInvalidKey(s).client = s.client
           /\ OnInvalidKey(s).status = s.status /\ OnInvalidKey(s).key = s.key
           /\ OnInvalidKey(s).unmounted = s.unmounted /\ OnInvalidKey(s).stale = s.stale
           /\ OnInvalidKey(s).needPassword = TRUE /\ OnInvalidKey(s).passwordBusy = FALSE
  <1>1. PICK q \in TabType : q = CancelReconnect(s) /\ Keeps(s, q) /\ q.client = s.client
    BY TimerEffect
  <1>2. PICK error \in BOOLEAN : error = (s.passwordDraft # "")
    OBVIOUS
  <1>3. PICK r : r = [q EXCEPT !.needPassword = TRUE, !.passwordBusy = FALSE,
                               !.passwordError = error, !.passwordDraft = ""]
    OBVIOUS
  <1>4. /\ r \in TabType /\ r.client = q.client /\ r.status = q.status /\ r.key = q.key
        /\ r.unmounted = q.unmounted /\ r.stale = q.stale
        /\ r.needPassword = TRUE /\ r.passwordBusy = FALSE
    BY <1>3 DEF TabType
  <1>5. r = OnInvalidKey(s)
    BY <1>1, <1>2, <1>3 DEF OnInvalidKey
  <1> QED
    BY <1>1, <1>4, <1>5 DEF Keeps

LEMMA HandleJoinedEffect ==
    ASSUME NEW s \in TabType
    PROVE  /\ HandleJoined(s) \in TabType /\ HandleJoined(s).client = s.client
           /\ HandleJoined(s).status = "joined" /\ HandleJoined(s).key = s.key
           /\ HandleJoined(s).unmounted = s.unmounted /\ HandleJoined(s).stale = s.stale
           /\ HandleJoined(s).needPassword = FALSE
  <1>1. PICK r : r = HandleJoined(s)
    OBVIOUS
  <1>2. /\ r \in TabType /\ r.client = s.client /\ r.status = "joined" /\ r.key = s.key
        /\ r.unmounted = s.unmounted /\ r.stale = s.stale /\ r.needPassword = FALSE
    BY <1>1 DEF TabType, HandleJoined
  <1> QED
    BY <1>1, <1>2

----------------------------------------------------------------------------
(* The steps of a tab.                                                     *)

\* A tab s with the stored entry e becomes r with f.
Moves(s, e, r, f) ==
    /\ r \in TabType
    /\ TabOK(s) => TabOK(r)
    /\ s.status # "deriving_key" => r.status # "deriving_key"
    /\ r.status = "deriving_key" => f = e
    /\ TabOK(s) /\ KeyOK(s, e) => KeyOK(r, f)

\* One tab moves, and a room that was deleted is unless `joined' is received.
StepTo(t, r) ==
    /\ Update(t, r) /\ Moves(tab[t], stored, r, stored')
    /\ tab[t].status = "deleted" => r.status = "deleted" \/ Receives(t, "joined")

\* What the properties look at is kept.
LEMMA KeepsMoves ==
    ASSUME NEW s \in TabType, NEW r \in TabType, NEW e,
           s.status # "deriving_key", Keeps(s, r), r.client = s.client
    PROVE  Moves(s, e, r, e)
  BY DEF Moves, TabOK, Tested, KeyOK, Keeps

\* A close event.
LEMMA LostMoves ==
    ASSUME NEW s \in TabType, NEW r, NEW e, s.status # "deriving_key", Lost(s, r)
    PROVE  Moves(s, e, r, e)
  BY DEF Moves, TabOK, Tested, KeyOK, Lost

\* The client is closed, and the close event is delivered or still due.
LEMMA CloseClientMoves ==
    ASSUME NEW s \in TabType, NEW e, s.status # "deriving_key"
    PROVE  Moves(s, e, CloseClient(s), e)
  BY CloseClientEffect DEF Moves, TabOK, Tested, KeyOK, ClientOK, Keeps, Silent

LEMMA SocketGoneMoves ==
    ASSUME NEW s \in TabType, NEW e, s.client.ws # "none", s.status # "deriving_key"
    PROVE  Moves(s, e, SocketGone(s), e) /\ (s.status = "deleted" => SocketGone(s).status = "deleted")
  <1>1. PICK q \in TabType :
           /\ Lost(q, SocketGone(s)) /\ Keeps(s, q)
           /\ q.client.ws = "closed" /\ Silent(s.client, q.client)
    BY SocketGoneEffect
  <1> QED
    BY <1>1 DEF Moves, TabOK, Tested, KeyOK, ClientOK, Lost, Keeps, Silent

LEMMA MovesTwice ==
    ASSUME NEW s \in TabType, NEW q, NEW r, NEW e, NEW f, NEW g, Moves(s, e, q, f), Moves(q, f, r, g)
    PROVE  Moves(s, e, r, g)
  BY DEF Moves

LEMMA Typed ==
    ASSUME TypeOK, NEW t \in Tabs
    PROVE  tab[t] \in TabType /\ stored.token \in BOOLEAN /\ stored.key \in Keys \cup {"none"}
  BY DEF TypeOK

LEMMA FreshFields ==
    /\ FreshTab.client.ws = "none" /\ FreshTab.client.stage = "none"
    /\ FreshTab.stale = 0 /\ FreshTab.delete = "none" /\ FreshTab.status = "deriving_key"
    /\ FreshTab.reconnectTimer = FALSE /\ FreshTab.needPassword = FALSE
    /\ FreshTab.unmounted = FALSE
    /\ \A p \in Slots : FreshTab.probe[p] = "none"
  BY DEF FreshTab, Client

\* A tab that has a client, a request, a timer or a form is mounted.
LEMMA Started ==
    ASSUME NEW s \in TabType, TabOK(s),
           \/ s.client.ws # "none" \/ s.client.stage # "none" \/ s.stale > 0
           \/ s.reconnectTimer \/ s.delete # "none" \/ s.needPassword
           \/ \E p \in Slots : s.probe[p] # "none"
    PROVE  s.status # "deriving_key"
  BY FreshFields DEF TabOK

LEMMA MountStep ==
    ASSUME TypeOK, NEW t \in Tabs, TabOK(tab[t]), Mount(t)
    PROVE  \E r \in TabType : StepTo(t, r)
  <1>1. PICK s \in TabType : s = tab[t] /\ s.status = "deriving_key"
    BY Typed DEF Mount
  <1>2. CASE Update(t, [s EXCEPT !.status = "deleted"]) /\ stored' = Forgotten
    <2>1. PICK r : r = [s EXCEPT !.status = "deleted"]
      OBVIOUS
    <2>2. /\ r \in TabType /\ r.client = s.client /\ r.status = "deleted" /\ r.key = s.key
          /\ r.needPassword = s.needPassword /\ r.passwordBusy = s.passwordBusy
          /\ r.unmounted = s.unmounted /\ r.stale = s.stale
      BY <2>1 DEF TabType
    <2>3. Moves(s, stored, r, Forgotten)
      BY <2>2 DEF Moves, TabOK, Tested, KeyOK, ClientOK, Forgotten, Entry
    <2> QED
      BY <1>1, <1>2, <2>1, <2>2, <2>3 DEF StepTo
  <1>3. PICK key \in Keys \cup {"none"} : key = IF stored.key # "none" THEN stored.key ELSE "link"
    BY Typed DEF Keys
  <1>4. PICK q : q = [s EXCEPT !.key = key]
    OBVIOUS
  <1>5. /\ q \in TabType /\ q.client = s.client /\ q.status = s.status /\ q.key = key
        /\ q.needPassword = s.needPassword /\ q.passwordBusy = s.passwordBusy
        /\ q.unmounted = s.unmounted /\ q.stale = s.stale
    BY <1>4 DEF TabType
  <1>6. CASE Update(t, SpawnClient(q, TRUE, stored.token)) /\ UNCHANGED stored
    <2>1. PICK token \in BOOLEAN : token = stored.token
      BY Typed
    <2>2. s.client.ws = "none" /\ s.needPassword = FALSE /\ s.unmounted = FALSE
      BY <1>1, FreshFields DEF TabOK
    <2>3. PICK r \in TabType : r = SpawnClient(q, TRUE, token) /\ Spawned(q, TRUE, token, r)
      BY <1>5, <2>2, SpawnClientEffect
    <2>4. TabOK(r) /\ r.status # "deriving_key"
      BY <1>5, <2>2, <2>3 DEF TabOK, Tested, Spawned
    <2>5. ASSUME KeyOK(s, stored) PROVE KeyOK(r, stored)
      <3>1. stored.token => stored.key = RightKey /\ RightKey # "none"
        BY <2>5 DEF KeyOK, RightKey
      <3> QED
        BY <1>3, <1>5, <2>1, <2>2, <2>3, <2>5, <3>1 DEF KeyOK, ClientOK, Spawned
    <2> QED
      BY <1>1, <1>6, <2>1, <2>3, <2>4, <2>5 DEF StepTo, Moves
  <1>7. \/ Update(t, [s EXCEPT !.status = "deleted"]) /\ stored' = Forgotten
        \/ Update(t, SpawnClient(q, TRUE, stored.token)) /\ UNCHANGED stored
    BY <1>1, <1>3, <1>4 DEF Mount
  <1> QED
    BY <1>2, <1>6, <1>7

LEMMA UnmountStep ==
    ASSUME TypeOK, NEW t \in Tabs, TabOK(tab[t]), Unmount(t)
    PROVE  \E r \in TabType : StepTo(t, r)
  <1>1. PICK s \in TabType : s = tab[t] /\ s.status # "deriving_key"
    BY Typed DEF Unmount
  <1>2. PICK q \in TabType : q = CancelReconnect(s) /\ Keeps(s, q) /\ q.client = s.client
    BY TimerEffect
  <1>3. PICK u : u = [q EXCEPT !.unmounted = TRUE]
    OBVIOUS
  <1>4. /\ u \in TabType /\ u.client = q.client /\ u.status = q.status /\ u.key = q.key
        /\ u.needPassword = q.needPassword /\ u.passwordBusy = q.passwordBusy
        /\ u.unmounted = TRUE /\ u.stale = q.stale
    BY <1>3 DEF TabType
  <1>5. Moves(s, stored, u, stored) /\ u.status = s.status
    BY <1>1, <1>2, <1>4 DEF Moves, TabOK, Tested, KeyOK, Keeps
  <1>6. PICK r : r = CloseClient(u)
    OBVIOUS
  <1>7. Moves(u, stored, r, stored) /\ r.status = s.status /\ r \in TabType
    BY <1>1, <1>4, <1>5, <1>6, CloseClientMoves, CloseClientEffect DEF Keeps
  <1>8. Moves(s, stored, r, stored)
    BY <1>5, <1>7, MovesTwice
  <1>9. Update(t, r) /\ stored' = stored
    BY <1>1, <1>2, <1>3, <1>6 DEF Unmount
  <1> QED
    BY <1>1, <1>7, <1>8, <1>9 DEF StepTo


\* One client changes, and nothing is forgotten or learnt.
LEMMA QueuedStep ==
    ASSUME TypeOK, NEW t \in Tabs, TabOK(tab[t]), tab[t].client.ws # "none",
           NEW d, Queued(tab[t].client, d) \/ (d \in ClientType /\ d.ws = "open" /\ d.stage = "hello"
                     /\ tab[t].client.ws = "connecting" /\ d.inbox = tab[t].client.inbox
                     /\ d.token = tab[t].client.token /\ d.key = tab[t].client.key
                     /\ d.joined = tab[t].client.joined),
           d.stage = "answer" \/ HasJoined(d.inbox) =>
              \/ tab[t].client.token \/ tab[t].client.stage = "answer"
              \/ tab[t].client.key = RightKey \/ HasJoined(tab[t].client.inbox),
           Update(t, [tab[t] EXCEPT !.client = d]), UNCHANGED stored
    PROVE  \E r \in TabType : StepTo(t, r)
  <1>1. PICK s \in TabType : s = tab[t] /\ s.status # "deriving_key"
    BY Typed, Started
  <1>2. PICK r : r = [s EXCEPT !.client = d]
    OBVIOUS
  <1>3. r \in TabType /\ Keeps(s, r) /\ r.client = d
    BY <1>1, <1>2, ClientSet DEF Queued
  <1>4. Moves(s, stored, r, stored) /\ r.status = s.status
    BY <1>1, <1>3 DEF Moves, TabOK, Tested, KeyOK, ClientOK, Keeps, Queued
  <1> QED
    BY <1>1, <1>2, <1>3, <1>4 DEF StepTo

LEMMA OnOpenStep ==
    ASSUME TypeOK, NEW t \in Tabs, TabOK(tab[t]), OnOpen(t)
    PROVE  \E r \in TabType : StepTo(t, r)
  <1>1. PICK s \in TabType : s = tab[t]
    BY Typed
  <1>2. PICK c \in ClientType : c = s.client /\ c.ws = "connecting"
    BY <1>1, TabFields DEF OnOpen
  <1>3. PICK d : d = [c EXCEPT !.ws = "open", !.stage = "hello"]
    OBVIOUS
  <1>4. /\ d \in ClientType /\ d.ws = "open" /\ d.stage = "hello" /\ d.inbox = c.inbox
        /\ d.token = c.token /\ d.key = c.key /\ d.joined = c.joined
    BY <1>3 DEF ClientType
  <1>5. Update(t, [s EXCEPT !.client = d]) /\ UNCHANGED stored
    BY <1>1, <1>2, <1>3 DEF OnOpen, Update, TypeOK
  <1> QED
    BY <1>1, <1>2, <1>4, <1>5, QueuedStep

\* The server answers a client.
LEMMA ReplyStep ==
    ASSUME TypeOK, NEW t \in Tabs, TabOK(tab[t]), tab[t].client.ws # "none",
           NEW frames \in Seq(Frames), Reply(t, frames), UNCHANGED stored,
           HasJoined(frames) => tab[t].client.token \/ tab[t].client.stage = "answer"
    PROVE  \E r \in TabType : StepTo(t, r)
  <1>1. PICK c \in ClientType : c = tab[t].client
    BY Typed, TabFields
  <1>2. PICK d : d = Sent(c, frames)
    OBVIOUS
  <1>3. Queued(c, d) /\ d.stage = "none" /\ (HasJoined(d.inbox) => HasJoined(c.inbox) \/ HasJoined(frames))
    BY <1>2, SentEffect
  <1>4. Update(t, [tab[t] EXCEPT !.client = d])
    BY <1>1, <1>2 DEF Reply
  <1> QED
    BY <1>1, <1>3, <1>4, QueuedStep

LEMMA SocketGoneStep ==
    ASSUME TypeOK, NEW t \in Tabs, TabOK(tab[t]), tab[t].client.ws # "none",
           Update(t, SocketGone(tab[t])), UNCHANGED stored
    PROVE  \E r \in TabType : StepTo(t, r)
  <1>1. PICK s \in TabType : s = tab[t] /\ s.status # "deriving_key"
    BY Typed, Started
  <1>2. PICK r \in TabType : r = SocketGone(s)
    BY <1>1, SocketGoneMoves DEF Moves
  <1> QED
    BY <1>1, <1>2, SocketGoneMoves DEF StepTo

\* A frame is taken.
LEMMA Received ==
    ASSUME TypeOK, NEW t \in Tabs, TabOK(tab[t]), NEW frame, Receives(t, frame)
    PROVE  \E q \in TabType :
              /\ q = Taken(t) /\ Keeps(tab[t], q) /\ Queued(tab[t].client, q.client)
              /\ q.client.ws = "open" /\ q.status # "deriving_key"
              /\ q.client.stage = tab[t].client.stage
              /\ Moves(tab[t], stored, q, stored)
              /\ frame = "joined" => HasJoined(tab[t].client.inbox)
  <1>1. PICK s \in TabType : s = tab[t] /\ s.status # "deriving_key"
    BY Typed, Started DEF Receives
  <1>2. PICK q \in TabType :
           /\ q = Taken(t) /\ Keeps(s, q) /\ Queued(s.client, q.client)
           /\ q.client.stage = s.client.stage
           /\ HasJoined(q.client.inbox) => HasJoined(s.client.inbox)
           /\ Head(s.client.inbox) = "joined" => HasJoined(s.client.inbox)
    BY <1>1, TakenEffect DEF Receives
  <1>3. Moves(s, stored, q, stored)
    BY <1>1, <1>2 DEF Moves, TabOK, Tested, KeyOK, ClientOK, Keeps, Queued
  <1> QED
    BY <1>1, <1>2, <1>3 DEF Keeps, Queued, Receives

LEMMA OnChallengeStep ==
    ASSUME TypeOK, NEW t \in Tabs, TabOK(tab[t]), NEW frame, OnChallenge(t, frame)
    PROVE  \E r \in TabType : StepTo(t, r)
  <1>1. PICK q \in TabType :
           /\ q = Taken(t) /\ Keeps(tab[t], q) /\ Queued(tab[t].client, q.client)
           /\ q.client.ws = "open" /\ q.status # "deriving_key"
           /\ q.client.stage = tab[t].client.stage
           /\ Moves(tab[t], stored, q, stored)
    BY Received DEF OnChallenge
  <1>2. CASE /\ tab[t].client.key = RightKey
             /\ Update(t, [Taken(t) EXCEPT !.client.stage = "answer"])
             /\ UNCHANGED stored
    <2>1. PICK c \in ClientType : c = q.client
      BY <1>1, TabFields
    <2>2. PICK d : d = [c EXCEPT !.stage = "answer"]
      OBVIOUS
    <2>3. Queued(c, d) /\ d.inbox = c.inbox
      BY <2>2 DEF ClientType, Queued
    <2>4. PICK r : r = [q EXCEPT !.client = d]
      OBVIOUS
    <2>5. r \in TabType /\ Keeps(q, r) /\ r.client = d
      BY <2>3, <2>4, ClientSet DEF Queued
    <2>6. c.key = RightKey
      BY <1>1, <1>2, <2>1 DEF Queued
    <2>7. Moves(q, stored, r, stored) /\ r.status = q.status
      BY <1>1, <2>1, <2>3, <2>5, <2>6 DEF Moves, TabOK, Tested, KeyOK, ClientOK, Keeps, Queued
    <2>8. Moves(tab[t], stored, r, stored)
      BY <1>1, <2>5, <2>7, MovesTwice, Typed
    <2>9. Update(t, r)
      BY <1>1, <1>2, <2>1, <2>2, <2>4
    <2> QED
      BY <1>1, <1>2, <2>5, <2>7, <2>8, <2>9 DEF StepTo, Keeps
  <1>3. CASE /\ Update(t, CloseClient(OnInvalidKey(Taken(t))))
             /\ stored' = Forgotten
    <2>1. PICK u \in TabType :
             /\ u = OnInvalidKey(q) /\ u.client = q.client
             /\ u.status = q.status /\ u.key = q.key
             /\ u.unmounted = q.unmounted /\ u.stale = q.stale
             /\ u.needPassword = TRUE /\ u.passwordBusy = FALSE
      BY OnInvalidKeyEffect
    <2>2. Moves(q, stored, u, Forgotten)
      BY <1>1, <2>1 DEF Moves, TabOK, Tested, KeyOK, ClientOK, Forgotten, Entry
    <2>3. PICK r \in TabType : r = CloseClient(u) /\ Keeps(u, r)
      BY CloseClientEffect
    <2>4. Moves(u, Forgotten, r, Forgotten)
      BY <1>1, <2>1, <2>3, CloseClientMoves
    <2>5. Moves(tab[t], stored, r, Forgotten)
      BY <1>1, <2>2, <2>4, MovesTwice DEF Moves
    <2> QED
      BY <1>1, <1>3, <2>1, <2>3, <2>5 DEF StepTo, Keeps
  <1> QED
    BY <1>2, <1>3 DEF OnChallenge

LEMMA OnJoinedStep ==
    ASSUME TypeOK, NEW t \in Tabs, TabOK(tab[t]), OnJoined(t)
    PROVE  \E r \in TabType : StepTo(t, r)
  <1>1. PICK q \in TabType :
           /\ q = Taken(t) /\ Keeps(tab[t], q) /\ Queued(tab[t].client, q.client)
           /\ q.client.ws = "open" /\ q.status # "deriving_key"
           /\ HasJoined(tab[t].client.inbox)
           /\ tab[t].client.key = tab[t].key
    BY Received DEF OnJoined, Receives, TabOK, Tested
  <1>2. PICK u \in TabType :
           /\ u = HandleJoined(q) /\ u.client = q.client /\ u.status = "joined" /\ u.key = q.key
           /\ u.unmounted = q.unmounted /\ u.stale = q.stale /\ u.needPassword = FALSE
    BY HandleJoinedEffect
  <1>3. PICK c \in ClientType : c = u.client
    BY TabFields
  <1>4. PICK d : d = [c EXCEPT !.joined = TRUE, !.token = TRUE]
    OBVIOUS
  <1>5. /\ d \in ClientType /\ d.ws = c.ws /\ d.key = c.key /\ d.stage = c.stage
        /\ d.joined = TRUE /\ d.token = TRUE
    BY <1>4 DEF ClientType
  <1>6. PICK r : r = [u EXCEPT !.client = d]
    OBVIOUS
  <1>7. r \in TabType /\ Keeps(u, r) /\ r.client = d
    BY <1>5, <1>6, ClientSet
  <1>8. TabOK(r) /\ r.status # "deriving_key"
    BY <1>1, <1>2, <1>3, <1>5, <1>7 DEF TabOK, Tested, Queued, Keeps
  <1>9. ASSUME KeyOK(tab[t], stored) PROVE KeyOK(r, Entry(TRUE, tab[t].key))
    <2>1. tab[t].client.key = RightKey /\ tab[t].key = RightKey
      BY <1>1, <1>9 DEF KeyOK, ClientOK, Queued
    <2>2. d.key = RightKey /\ r.key = RightKey
      BY <1>1, <1>2, <1>3, <1>5, <1>7, <2>1 DEF Queued, Keeps
    <2> QED
      BY <1>2, <1>7, <2>1, <2>2 DEF KeyOK, ClientOK, Keeps, Entry
  <1>10. Update(t, r) /\ stored' = Entry(TRUE, tab[t].key) /\ Receives(t, "joined")
    BY <1>1, <1>2, <1>3, <1>4, <1>6 DEF OnJoined
  <1> QED
    BY <1>7, <1>8, <1>9, <1>10 DEF StepTo, Moves

LEMMA OnDeletedStep ==
    ASSUME TypeOK, NEW t \in Tabs, TabOK(tab[t]), OnDeleted(t)
    PROVE  \E r \in TabType : StepTo(t, r)
  <1>1. PICK q \in TabType :
           /\ q = Taken(t) /\ Keeps(tab[t], q) /\ q.status # "deriving_key"
           /\ Moves(tab[t], stored, q, stored)
    BY Received DEF OnDeleted
  <1>2. PICK u \in TabType : u = CancelReconnect(q) /\ Keeps(q, u) /\ u.client = q.client
    BY TimerEffect
  <1>3. PICK c \in ClientType : c = u.client
    BY TabFields
  <1>4. PICK d : d = [c EXCEPT !.closedByUs = TRUE]
    OBVIOUS
  <1>5. Queued(c, d) /\ d.stage = c.stage /\ d.inbox = c.inbox
    BY <1>4 DEF ClientType, Queued
  <1>6. PICK r : r = [u EXCEPT !.client = d, !.status = "deleted"]
    OBVIOUS
  <1>7. /\ r \in TabType /\ r.client = d /\ r.status = "deleted" /\ r.key = u.key
        /\ r.needPassword = u.needPassword /\ r.passwordBusy = u.passwordBusy
        /\ r.unmounted = u.unmounted /\ r.stale = u.stale
    BY <1>5, <1>6 DEF TabType, Queued
  <1>8. Moves(q, stored, r, Forgotten)
    BY <1>1, <1>2, <1>3, <1>5, <1>7
       DEF Moves, TabOK, Tested, KeyOK, ClientOK, Keeps, Queued, Forgotten, Entry
  <1>9. Moves(tab[t], stored, r, Forgotten)
    BY <1>1, <1>7, <1>8, MovesTwice, Typed
  <1>10. Update(t, r) /\ stored' = Forgotten
    BY <1>1, <1>2, <1>3, <1>4, <1>6 DEF OnDeleted
  <1> QED
    BY <1>7, <1>9, <1>10 DEF StepTo

\* A change of the form, the banner, the timer or a request.
LEMMA QuietStep ==
    ASSUME TypeOK, NEW t \in Tabs, tab[t].status # "deriving_key", NEW r \in TabType,
           Keeps(tab[t], r), r.client = tab[t].client, Update(t, r), UNCHANGED stored
    PROVE  StepTo(t, r)
  <1>1. Moves(tab[t], stored, r, stored)
    BY KeepsMoves, Typed
  <1> QED
    BY <1>1 DEF StepTo, Keeps


LEMMA ServerStep ==
    ASSUME TypeOK, NEW t \in Tabs, TabOK(tab[t]),
           ServerHello(t) \/ ServerAnswer(t) \/ ServerError(t)
    PROVE  \E r \in TabType : StepTo(t, r)
  <1>1. PICK c \in ClientType : c = tab[t].client
    BY Typed, TabFields
  <1>2. c.ws # "none"
    BY <1>1 DEF ServerError, ServerHello, ServerAnswer, TabOK
  <1>3. PICK frame \in Frames :
           /\ Reply(t, <<frame>>) /\ UNCHANGED stored
           /\ frame = "joined" => tab[t].client.token \/ tab[t].client.stage = "answer"
    BY DEF ServerError, ServerHello, ServerAnswer, Frames
  <1>4. PICK frames \in Seq(Frames) : frames = <<frame>> /\ (HasJoined(frames) => frame = "joined")
    BY FrameLists
  <1> QED
    BY <1>1, <1>2, <1>3, <1>4, ReplyStep

LEMMA OnErrorStep ==
    ASSUME TypeOK, NEW t \in Tabs, TabOK(tab[t]), OnError(t)
    PROVE  \E r \in TabType : StepTo(t, r)
  <1>1. PICK q \in TabType :
           /\ q = Taken(t) /\ Keeps(tab[t], q) /\ q.status # "deriving_key"
           /\ Moves(tab[t], stored, q, stored)
    BY Received DEF OnError
  <1>2. PICK r : r = [q EXCEPT !.errorBanner = TRUE]
    OBVIOUS
  <1>3. r \in TabType /\ Keeps(q, r) /\ r.client = q.client
    BY <1>2 DEF TabType, Keeps
  <1>4. Moves(q, stored, r, stored)
    BY <1>1, <1>3, KeepsMoves
  <1>5. Moves(tab[t], stored, r, stored)
    BY <1>1, <1>3, <1>4, MovesTwice, Typed
  <1> QED
    BY <1>1, <1>2, <1>3, <1>5 DEF StepTo, OnError, Keeps

LEMMA ClosedStep ==
    ASSUME TypeOK, NEW t \in Tabs, TabOK(tab[t]), Drop(t) \/ OnServerClose(t) \/ OnOwnClose(t)
    PROVE  \E r \in TabType : StepTo(t, r)
  <1>1. /\ tab[t].client.ws # "none"
        /\ Update(t, SocketGone(tab[t])) /\ UNCHANGED stored
    BY DEF Drop, OnServerClose, OnOwnClose, Receives
  <1> QED
    BY <1>1, SocketGoneStep

LEMMA OnStaleCloseStep ==
    ASSUME TypeOK, NEW t \in Tabs, TabOK(tab[t]), OnStaleClose(t)
    PROVE  \E r \in TabType : StepTo(t, r)
  <1>1. PICK s \in TabType : s = tab[t] /\ s.status # "deriving_key" /\ s.stale > 0
    BY Typed, Started DEF OnStaleClose
  <1>2. PICK stale \in 0 .. MaxStale : stale = s.stale - 1
    <2>1. s.stale \in 0 .. MaxStale /\ s.stale > 0 /\ MaxStale \in Nat
      BY <1>1, TabFields, SessionAssumption
    <2> QED
      BY <2>1
  <1>3. PICK q : q = [s EXCEPT !.stale = stale]
    OBVIOUS
  <1>4. /\ q \in TabType /\ q.client = s.client /\ q.status = s.status /\ q.key = s.key
        /\ q.needPassword = s.needPassword /\ q.passwordBusy = s.passwordBusy
        /\ q.unmounted = s.unmounted
    BY <1>3 DEF TabType
  <1>5. PICK r \in TabType : r = OnClose(q, TRUE) /\ Lost(q, r)
    BY <1>4, OnCloseEffect DEF Lost
  <1>6. Moves(s, stored, r, stored) /\ (s.status = "deleted" => r.status = "deleted")
    BY <1>1, <1>4, <1>5 DEF Moves, TabOK, Tested, KeyOK, Lost
  <1>7. Update(t, r) /\ UNCHANGED stored
    BY <1>1, <1>2, <1>3, <1>5 DEF OnStaleClose
  <1> QED
    BY <1>1, <1>5, <1>6, <1>7 DEF StepTo

----------------------------------------------------------------------------
(* Reconnecting, the form and the delete request.                          *)

LEMMA ProbeSet ==
    ASSUME NEW s \in TabType, NEW p \in Slots, NEW x \in {"none", "sent", "alive", "gone"}
    PROVE  /\ [s EXCEPT !.probe[p] = x] \in TabType /\ Keeps(s, [s EXCEPT !.probe[p] = x])
           /\ [s EXCEPT !.probe[p] = x].client = s.client
  <1>1. PICK f \in [Slots -> {"none", "sent", "alive", "gone"}] : f = s.probe
    BY TabFields
  <1>2. PICK g \in [Slots -> {"none", "sent", "alive", "gone"}] : g = [f EXCEPT ![p] = x]
    OBVIOUS
  <1>3. PICK r : r = [s EXCEPT !.probe = g]
    OBVIOUS
  <1>4. r \in TabType /\ Keeps(s, r) /\ r.client = s.client
    BY <1>3 DEF TabType, Keeps
  <1>5. r = [s EXCEPT !.probe[p] = x]
    BY <1>1, <1>2, <1>3
  <1> QED
    BY <1>4, <1>5

LEMMA TryReconnectStep ==
    ASSUME TypeOK, NEW t \in Tabs, TabOK(tab[t]), NEW p \in Slots, TryReconnect(t, p)
    PROVE  \E r \in TabType : StepTo(t, r)
  <1>1. PICK s \in TabType : s = tab[t] /\ s.status # "deriving_key"
    BY Typed, Started DEF TryReconnect
  <1>2. PICK q : q = [s EXCEPT !.reconnectTimer = FALSE]
    OBVIOUS
  <1>3. q \in TabType /\ Keeps(s, q) /\ q.client = s.client
    BY <1>2 DEF TabType, Keeps
  <1>4. PICK u \in TabType : u = [q EXCEPT !.probe[p] = "sent"] /\ Keeps(q, u) /\ u.client = q.client
    BY <1>3, ProbeSet
  <1>5. (Update(t, q) \/ Update(t, u)) /\ UNCHANGED stored
    BY <1>1, <1>2, <1>4 DEF TryReconnect
  <1>6. Keeps(s, u) /\ u.client = s.client
    BY <1>3, <1>4 DEF Keeps
  <1> QED
    BY <1>1, <1>3, <1>4, <1>5, <1>6, QuietStep

LEMMA ServerProbeStep ==
    ASSUME TypeOK, NEW t \in Tabs, TabOK(tab[t]), NEW p \in Slots, ServerProbe(t, p)
    PROVE  \E r \in TabType : StepTo(t, r)
  <1>1. PICK s \in TabType : s = tab[t] /\ s.status # "deriving_key"
    BY Typed, Started DEF ServerProbe
  <1>2. PICK x \in {"none", "sent", "alive", "gone"} : x = IF room # "gone" THEN "alive" ELSE "gone"
    OBVIOUS
  <1>3. PICK r \in TabType : r = [s EXCEPT !.probe[p] = x] /\ Keeps(s, r) /\ r.client = s.client
    BY ProbeSet
  <1>4. Update(t, r) /\ UNCHANGED stored
    BY <1>1, <1>2, <1>3 DEF ServerProbe, Update, TypeOK
  <1> QED
    BY <1>1, <1>3, <1>4, QuietStep

LEMMA ProbeDoneStep ==
    ASSUME TypeOK, NEW t \in Tabs, TabOK(tab[t]), NEW p \in Slots, ProbeDone(t, p)
    PROVE  \E r \in TabType : StepTo(t, r)
  <1>1. PICK s \in TabType : s = tab[t] /\ s.status # "deriving_key"
    BY Typed, Started DEF ProbeDone
  <1>2. PICK q \in TabType : q = [s EXCEPT !.probe[p] = "none"] /\ Keeps(s, q) /\ q.client = s.client
    BY ProbeSet
  <1>3. Moves(s, stored, q, stored) /\ q.status = s.status
    BY <1>1, <1>2, KeepsMoves DEF Keeps
  <1>4. CASE Update(t, [q EXCEPT !.status = "deleted"]) /\ stored' = Forgotten
    <2>1. PICK r : r = [q EXCEPT !.status = "deleted"]
      OBVIOUS
    <2>2. /\ r \in TabType /\ r.client = q.client /\ r.status = "deleted" /\ r.key = q.key
          /\ r.needPassword = q.needPassword /\ r.passwordBusy = q.passwordBusy
          /\ r.unmounted = q.unmounted /\ r.stale = q.stale
      BY <2>1 DEF TabType
    <2>3. Moves(q, stored, r, Forgotten)
      BY <1>1, <1>3, <2>2 DEF Moves, TabOK, Tested, KeyOK, ClientOK, Forgotten, Entry
    <2>4. Moves(s, stored, r, Forgotten)
      BY <1>3, <2>2, <2>3, MovesTwice
    <2> QED
      BY <1>1, <1>4, <2>1, <2>2, <2>4 DEF StepTo
  <1>5. CASE /\ q.stale < MaxStale
             /\ Update(t, SpawnClient(CloseClient(q), FALSE, stored.token))
             /\ UNCHANGED stored
    <2>1. PICK u \in TabType : u = CloseClient(q) /\ Keeps(q, u)
      BY CloseClientEffect
    <2>2. Moves(q, stored, u, stored)
      BY <1>1, <1>3, <2>1, CloseClientMoves
    <2>3. PICK token \in BOOLEAN : token = stored.token
      BY Typed
    <2>4. PICK no \in BOOLEAN : no = FALSE
      OBVIOUS
    <2>5. PICK r \in TabType : r = SpawnClient(u, no, token) /\ Spawned(u, no, token, r)
      BY <1>5, <2>1, SpawnClientEffect DEF Keeps
    <2>6. u.stale \in Nat /\ u.status # "deriving_key" /\ r.status = u.status
      BY <1>1, <1>3, <2>1, <2>4, <2>5, TabFields DEF Keeps, Spawned
    <2>7. ASSUME TabOK(u) PROVE TabOK(r)
      <3>1. CASE u.client.ws \in {"none", "closed"}
        BY <2>5, <2>6, <2>7, <3>1 DEF TabOK, Tested, Spawned
      <3>2. CASE u.client.ws \notin {"none", "closed"}
        <4>1. r.stale > 0
          BY <2>5, <2>6, <3>2 DEF Spawned
        <4> QED
          BY <2>5, <2>6, <2>7, <4>1 DEF TabOK, Tested, Spawned
      <3> QED
        BY <3>1, <3>2
    <2>8. ASSUME KeyOK(u, stored) PROVE KeyOK(r, stored)
      BY <2>3, <2>5, <2>6, <2>8 DEF KeyOK, ClientOK, Spawned
    <2>9. Moves(u, stored, r, stored)
      BY <2>5, <2>6, <2>7, <2>8 DEF Moves
    <2>10. Moves(s, stored, r, stored)
      BY <1>3, <2>2, <2>9, MovesTwice
    <2> QED
      BY <1>1, <1>3, <1>5, <2>1, <2>3, <2>4, <2>5, <2>6, <2>10 DEF StepTo, Keeps
  <1> QED
    BY <1>1, <1>2, <1>4, <1>5 DEF ProbeDone

LEMMA ProbeFailsStep ==
    ASSUME TypeOK, NEW t \in Tabs, TabOK(tab[t]), NEW p \in Slots, ProbeFails(t, p)
    PROVE  \E r \in TabType : StepTo(t, r)
  <1>1. PICK s \in TabType : s = tab[t] /\ s.status # "deriving_key"
    BY Typed, Started DEF ProbeFails
  <1>2. PICK q \in TabType : q = [s EXCEPT !.probe[p] = "none"] /\ Keeps(s, q) /\ q.client = s.client
    BY ProbeSet
  <1>3. PICK r \in TabType : r = ScheduleReconnect(q) /\ Keeps(q, r) /\ r.client = q.client
    BY TimerEffect
  <1>4. Update(t, r) /\ UNCHANGED stored
    BY <1>1, <1>2, <1>3 DEF ProbeFails
  <1>5. Keeps(s, r) /\ r.client = s.client
    BY <1>2, <1>3 DEF Keeps
  <1> QED
    BY <1>1, <1>3, <1>4, <1>5, QuietStep

LEMMA TypePasswordStep ==
    ASSUME TypeOK, NEW t \in Tabs, TabOK(tab[t]), NEW text \in {""} \cup Passwords,
           TypePassword(t, text)
    PROVE  \E r \in TabType : StepTo(t, r)
  <1>1. PICK s \in TabType : s = tab[t] /\ s.status # "deriving_key"
    BY Typed, Started DEF TypePassword, Prompted
  <1>2. PICK r : r = [s EXCEPT !.passwordDraft = text]
    OBVIOUS
  <1>3. r \in TabType /\ Keeps(s, r) /\ r.client = s.client
    BY <1>2 DEF TabType, Keeps
  <1>4. Update(t, r) /\ UNCHANGED stored
    BY <1>1, <1>2 DEF TypePassword, Update, TypeOK
  <1> QED
    BY <1>1, <1>3, <1>4, QuietStep

LEMMA SubmitPasswordStep ==
    ASSUME TypeOK, NEW t \in Tabs, TabOK(tab[t]), SubmitPassword(t)
    PROVE  \E r \in TabType : StepTo(t, r)
  <1>1. PICK s \in TabType : /\ s = tab[t] /\ s.status # "deriving_key" /\ s.status # "deleted"
                             /\ s.needPassword
    BY Typed, Started DEF SubmitPassword, Prompted
  <1>2. CASE Update(t, [s EXCEPT !.passwordError = TRUE]) /\ UNCHANGED stored
    <2>1. PICK r : r = [s EXCEPT !.passwordError = TRUE]
      OBVIOUS
    <2>2. r \in TabType /\ Keeps(s, r) /\ r.client = s.client
      BY <2>1 DEF TabType, Keeps
    <2> QED
      BY <1>1, <1>2, <2>1, <2>2, QuietStep
  <1>3. PICK a \in TabType : a = CloseClient(s) /\ Keeps(s, a)
    BY CloseClientEffect
  <1>4. PICK b \in TabType : b = CancelReconnect(a) /\ Keeps(a, b) /\ b.client = a.client
    BY TimerEffect
  <1>5. CASE /\ s.passwordDraft # "" /\ s.stale < MaxStale /\ UNCHANGED stored
             /\ Update(t, SpawnClient([b EXCEPT !.key = s.passwordDraft, !.passwordBusy = TRUE,
                                                !.passwordError = FALSE, !.passwordDraft = "",
                                                !.needPassword = FALSE], TRUE, stored.token))
    <2>1. PICK draft \in Passwords : draft = s.passwordDraft
      BY <1>5, TabFields
    <2>2. PICK q : q = [b EXCEPT !.key = draft, !.passwordBusy = TRUE, !.passwordError = FALSE,
                                 !.passwordDraft = "", !.needPassword = FALSE]
      OBVIOUS
    <2>3. /\ q \in TabType /\ q.key = draft /\ q.needPassword = FALSE
          /\ q.status = b.status /\ q.client = b.client /\ q.stale = b.stale
          /\ q.unmounted = b.unmounted
      BY <2>2 DEF TabType, Keys
    <2>4. PICK token \in BOOLEAN : token = stored.token
      BY Typed
    <2>5. PICK yes \in BOOLEAN : yes = TRUE
      OBVIOUS
    <2>6. q.stale < MaxStale
      BY <1>3, <1>4, <1>5, <2>3 DEF Keeps
    <2>7. PICK r \in TabType : r = SpawnClient(q, yes, token) /\ Spawned(q, yes, token, r)
      BY <2>3, <2>6, SpawnClientEffect
    <2>8. TabOK(r) /\ r.status \in {"joining", "connecting"}
      BY <2>3, <2>5, <2>7 DEF TabOK, Tested, Spawned
    <2>9. ASSUME KeyOK(s, stored) PROVE KeyOK(r, stored)
      BY <1>1, <2>3, <2>4, <2>7, <2>8, <2>9 DEF KeyOK, ClientOK, Spawned
    <2> QED
      BY <1>1, <1>5, <2>1, <2>2, <2>4, <2>5, <2>7, <2>8, <2>9 DEF StepTo, Moves
  <1> QED
    BY <1>1, <1>2, <1>3, <1>4, <1>5 DEF SubmitPassword

LEMMA ConfirmDeleteStep ==
    ASSUME TypeOK, NEW t \in Tabs, TabOK(tab[t]), ConfirmDelete(t)
    PROVE  \E r \in TabType : StepTo(t, r)
  <1>1. PICK s \in TabType : s = tab[t] /\ s.status # "deriving_key" /\ s.status # "deleted"
    BY Typed DEF ConfirmDelete
  <1>2. PICK a : a = [s EXCEPT !.errorBanner = TRUE]
    OBVIOUS
  <1>3. a \in TabType /\ Keeps(s, a) /\ a.client = s.client
    BY <1>2 DEF TabType, Keeps
  <1>4. PICK q \in TabType : q = CloseClient(s) /\ Keeps(s, q)
    BY CloseClientEffect
  <1>5. PICK b : b = [q EXCEPT !.delete = "sent"]
    OBVIOUS
  <1>6. b \in TabType /\ Keeps(q, b) /\ b.client = q.client
    BY <1>5 DEF TabType, Keeps
  <1>7. Moves(s, stored, q, stored) /\ Moves(q, stored, b, stored)
    BY <1>1, <1>4, <1>6, CloseClientMoves, KeepsMoves DEF Keeps
  <1>8. Moves(s, stored, b, stored)
    BY <1>4, <1>6, <1>7, MovesTwice
  <1>9. (Update(t, a) \/ Update(t, b)) /\ UNCHANGED stored
    BY <1>1, <1>2, <1>4, <1>5 DEF ConfirmDelete
  <1>10. CASE Update(t, a)
    BY <1>1, <1>3, <1>9, <1>10, QuietStep
  <1>11. CASE Update(t, b)
    BY <1>1, <1>6, <1>8, <1>9, <1>11 DEF StepTo
  <1> QED
    BY <1>9, <1>10, <1>11

LEMMA DeleteAnswerStep ==
    ASSUME TypeOK, NEW t \in Tabs, TabOK(tab[t]), DeleteDone(t) \/ DeleteFails(t)
    PROVE  \E r \in TabType : StepTo(t, r)
  <1>1. PICK s \in TabType : s = tab[t] /\ s.status # "deriving_key"
    BY Typed, Started DEF DeleteDone, DeleteFails
  <1>2. PICK a : a = [s EXCEPT !.delete = "none", !.errorBanner = TRUE]
    OBVIOUS
  <1>3. a \in TabType /\ Keeps(s, a) /\ a.client = s.client
    BY <1>2 DEF TabType, Keeps
  <1>4. PICK b : b = [s EXCEPT !.delete = "none", !.status = "deleted"]
    OBVIOUS
  <1>5. /\ b \in TabType /\ b.client = s.client /\ b.status = "deleted" /\ b.key = s.key
        /\ b.needPassword = s.needPassword /\ b.passwordBusy = s.passwordBusy
        /\ b.unmounted = s.unmounted /\ b.stale = s.stale
    BY <1>4 DEF TabType
  <1>6. Moves(s, stored, b, Forgotten)
    BY <1>1, <1>5 DEF Moves, TabOK, Tested, KeyOK, ClientOK, Forgotten, Entry
  <1>7. \/ Update(t, a) /\ UNCHANGED stored
        \/ Update(t, b) /\ stored' = Forgotten
    BY <1>1, <1>2, <1>4 DEF DeleteDone, DeleteFails, Update, TypeOK
  <1>8. CASE Update(t, a) /\ UNCHANGED stored
    BY <1>1, <1>3, <1>8, QuietStep
  <1>9. CASE Update(t, b) /\ stored' = Forgotten
    BY <1>1, <1>5, <1>6, <1>9 DEF StepTo
  <1> QED
    BY <1>7, <1>8, <1>9


----------------------------------------------------------------------------
(* The steps of the server, which all tabs may notice.                     *)

LEMMA NotifiedMoves ==
    ASSUME NEW s \in TabType, NEW told \in BOOLEAN, NEW e, TabOK(s)
    PROVE  /\ Notified(s, told) \in TabType /\ Keeps(s, Notified(s, told))
           /\ Moves(s, e, Notified(s, told), e)
  <1>1. CASE s.client.ws # "open"
    BY <1>1 DEF Notified, Moves, Keeps
  <1>2. CASE s.client.ws = "open"
    <2>1. s.status # "deriving_key"
      BY <1>2, Started
    <2>2. PICK c \in ClientType : c = s.client
      BY TabFields
    <2>3. <<"close">> \in Seq(Frames) /\ ~HasJoined(<<"close">>)
      BY FrameLists DEF Frames
    <2>4. PICK frames \in Seq(Frames) :
             /\ frames = IF told THEN <<"deleted", "close">> ELSE <<"close">>
             /\ ~HasJoined(frames)
      BY <2>3, FrameLists
    <2>5. PICK d : d = Sent(c, frames)
      OBVIOUS
    <2>6. Queued(c, d) /\ d.stage = "none" /\ (HasJoined(d.inbox) => HasJoined(c.inbox))
      BY <2>4, <2>5, SentEffect
    <2>7. PICK r : r = [s EXCEPT !.client = d]
      OBVIOUS
    <2>8. r \in TabType /\ Keeps(s, r) /\ r.client = d
      BY <2>6, <2>7, ClientSet DEF Queued
    <2>9. r = Notified(s, told)
      BY <1>2, <2>2, <2>4, <2>5, <2>7 DEF Notified
    <2>10. Moves(s, e, r, e)
      BY <2>1, <2>2, <2>6, <2>8 DEF Moves, TabOK, Tested, KeyOK, ClientOK, Keeps, Queued
    <2> QED
      BY <2>8, <2>9, <2>10
  <1> QED
    BY <1>1, <1>2

Answers == {"none", "sent", "removing", "ok", "refused"}

LEMMA DeleteSet ==
    ASSUME NEW s \in TabType, NEW x \in Answers, NEW e, s.status # "deriving_key"
    PROVE  /\ [s EXCEPT !.delete = x] \in TabType /\ Keeps(s, [s EXCEPT !.delete = x])
           /\ [s EXCEPT !.delete = x].client = s.client
           /\ Moves(s, e, [s EXCEPT !.delete = x], e)
  <1>1. PICK r : r = [s EXCEPT !.delete = x]
    OBVIOUS
  <1>2. r \in TabType /\ Keeps(s, r) /\ r.client = s.client
    BY <1>1 DEF TabType, Keeps, Answers
  <1> QED
    BY <1>1, <1>2, KeepsMoves

\* Every tab moves, or stays as it is.
AllMove ==
    /\ tab' \in [Tabs -> TabType]
    /\ \A t \in Tabs : Moves(tab[t], stored, tab'[t], stored') /\ Keeps(tab[t], tab'[t])

LEMMA RoomClosesStep ==
    ASSUME TypeOK, \A t \in Tabs : TabOK(tab[t]), RoomCloses
    PROVE  AllMove
  <1>1. PICK told \in [Tabs -> BOOLEAN] :
           tab' = [t \in Tabs |-> Notified(tab[t], told[t])] /\ stored' = stored
    BY DEF RoomCloses
  <1>2. ASSUME NEW t \in Tabs
        PROVE  /\ tab'[t] \in TabType /\ Keeps(tab[t], tab'[t])
               /\ Moves(tab[t], stored, tab'[t], stored)
    <2>1. PICK s \in TabType : s = tab[t] /\ TabOK(s)
      BY Typed
    <2>2. PICK b \in BOOLEAN : b = told[t]
      OBVIOUS
    <2>3. tab'[t] = Notified(s, b)
      BY <1>1, <2>1, <2>2
    <2> QED
      BY <2>1, <2>3, NotifiedMoves
  <1> QED
    BY <1>1, <1>2 DEF AllMove

LEMMA ServerDeleteStep ==
    ASSUME TypeOK, \A t \in Tabs : TabOK(tab[t]), NEW t \in Tabs, ServerDelete(t)
    PROVE  AllMove \/ \E r \in TabType : StepTo(t, r)
  <1>1. PICK s \in TabType : s = tab[t] /\ s.status # "deriving_key"
    BY Typed, Started DEF ServerDelete
  <1>2. CASE tab' = [tab EXCEPT ![t].delete = "refused"] /\ UNCHANGED stored
    <2>1. PICK x \in Answers : x = "refused"
      BY DEF Answers
    <2>2. PICK r \in TabType : /\ r = [s EXCEPT !.delete = x] /\ Keeps(s, r) /\ r.client = s.client
                               /\ Moves(s, stored, r, stored)
      BY <1>1, DeleteSet
    <2>3. Update(t, r)
      BY <1>1, <1>2, <2>1, <2>2 DEF Update, TypeOK
    <2> QED
      BY <1>1, <1>2, <2>2, <2>3, QuietStep
  <1>3. CASE /\ \E told \in [Tabs -> BOOLEAN] :
                   tab' = [u \in Tabs |->
                             IF u = t THEN [Notified(tab[u], told[u]) EXCEPT !.delete = "removing"]
                             ELSE Notified(tab[u], told[u])]
             /\ UNCHANGED stored
    <2>1. PICK told \in [Tabs -> BOOLEAN] :
             tab' = [u \in Tabs |->
                       IF u = t THEN [Notified(tab[u], told[u]) EXCEPT !.delete = "removing"]
                       ELSE Notified(tab[u], told[u])]
      BY <1>3
    <2>2. ASSUME NEW u \in Tabs
          PROVE  /\ tab'[u] \in TabType /\ Keeps(tab[u], tab'[u])
                 /\ Moves(tab[u], stored, tab'[u], stored)
      <3>1. PICK v \in TabType : v = tab[u] /\ TabOK(v)
        BY Typed
      <3>2. PICK b \in BOOLEAN : b = told[u]
        OBVIOUS
      <3>3. PICK n \in TabType : n = Notified(v, b) /\ Keeps(v, n) /\ Moves(v, stored, n, stored)
        BY <3>1, NotifiedMoves
      <3>4. CASE u # t
        BY <2>1, <3>1, <3>2, <3>3, <3>4
      <3>5. CASE u = t
        <4>1. PICK x \in Answers : x = "removing"
          BY DEF Answers
        <4>2. tab'[u] = [n EXCEPT !.delete = x]
          BY <2>1, <3>1, <3>2, <3>3, <3>5, <4>1
        <4>3. PICK r \in TabType :
                 r = [n EXCEPT !.delete = x] /\ Keeps(n, r) /\ Moves(n, stored, r, stored)
          BY <1>1, <3>1, <3>3, <3>5, DeleteSet DEF Keeps
        <4>4. Moves(v, stored, r, stored) /\ Keeps(v, r)
          BY <3>3, <4>3, MovesTwice DEF Keeps
        <4> QED
          BY <3>1, <4>2, <4>3, <4>4
      <3> QED
        BY <3>4, <3>5
    <2> QED
      BY <1>3, <2>1, <2>2 DEF AllMove
  <1> QED
    BY <1>2, <1>3 DEF ServerDelete

LEMMA RoomRemovedStep ==
    ASSUME TypeOK, \A t \in Tabs : TabOK(tab[t]), RoomRemoved
    PROVE  AllMove
  <1>1. /\ tab' = [t \in Tabs |->
                     IF tab[t].delete = "removing" THEN [tab[t] EXCEPT !.delete = "ok"] ELSE tab[t]]
        /\ stored' = stored
    BY DEF RoomRemoved
  <1>2. ASSUME NEW t \in Tabs
        PROVE  /\ tab'[t] \in TabType /\ Keeps(tab[t], tab'[t])
               /\ Moves(tab[t], stored, tab'[t], stored)
    <2>1. PICK s \in TabType : s = tab[t] /\ TabOK(s)
      BY Typed
    <2>2. CASE s.delete # "removing"
      BY <1>1, <2>1, <2>2 DEF Moves, Keeps
    <2>3. CASE s.delete = "removing"
      <3>1. PICK x \in Answers : x = "ok"
        BY DEF Answers
      <3>2. tab'[t] = [s EXCEPT !.delete = x]
        BY <1>1, <2>1, <2>3, <3>1
      <3>3. s.status # "deriving_key"
        BY <2>1, <2>3, Started
      <3> QED
        BY <2>1, <3>2, <3>3, DeleteSet
    <2> QED
      BY <2>2, <2>3
  <1> QED
    BY <1>1, <1>2 DEF AllMove

----------------------------------------------------------------------------
(* The rest of the state.                                                  *)

LEMMA OutageType ==
    ASSUME TypeOK, (UNCHANGED outages) \/ Outage
    PROVE  outages' \in 0 .. MaxOutages
  <1>1. outages \in 0 .. MaxOutages /\ MaxOutages \in Nat
    BY SessionAssumption DEF TypeOK
  <1> QED
    BY <1>1 DEF Outage

LEMMA ForgottenType == Forgotten \in EntryType
  BY DEF Forgotten, Entry, EntryType

LEMMA RestTypes ==
    ASSUME TypeOK, Next
    PROVE  stored' \in EntryType /\ room' \in {"alive", "closing", "gone"} /\ outages' \in 0 .. MaxOutages
  <1>1. stored \in EntryType /\ room \in {"alive", "closing", "gone"}
    BY DEF TypeOK, EntryType
  <1>2. CASE RoomCloses \/ RoomRemoved
    BY <1>1, <1>2, OutageType DEF RoomCloses, RoomRemoved
  <1>3. ASSUME NEW t \in Tabs, Proceed(t)
        PROVE  stored' \in EntryType /\ room' \in {"alive", "closing", "gone"} /\ UNCHANGED outages
    <2>1. ASSUME OnJoined(t) PROVE stored' \in EntryType /\ UNCHANGED <<room, outages>>
      <3>1. tab[t].key \in Keys \cup {"none"}
        BY Typed, TabFields
      <3> QED
        BY <2>1, <3>1 DEF OnJoined, Entry, EntryType
    <2>2. ASSUME NEW frame \in Frames, OnChallenge(t, frame)
          PROVE  stored' \in {stored, Forgotten} /\ UNCHANGED <<room, outages>>
      BY <2>2 DEF OnChallenge
    <2>3. ASSUME NEW p \in Slots, TryReconnect(t, p) \/ ServerProbe(t, p) \/ ProbeDone(t, p)
          PROVE  stored' \in {stored, Forgotten} /\ UNCHANGED <<room, outages>>
      BY <2>3 DEF TryReconnect, ServerProbe, ProbeDone
    <2>4. ASSUME OnOpen(t) \/ ServerHello(t) \/ ServerAnswer(t) \/ OnDeleted(t) \/ OnError(t)
          PROVE  stored' \in {stored, Forgotten} /\ UNCHANGED <<room, outages>>
      BY <2>4 DEF OnOpen, ServerHello, ServerAnswer, OnDeleted, OnError
    <2>5. ASSUME OnServerClose(t) \/ OnOwnClose(t) \/ OnStaleClose(t)
          PROVE  UNCHANGED <<stored, room, outages>>
      BY <2>5 DEF OnServerClose, OnOwnClose, OnStaleClose
    <2>6. ASSUME ServerDelete(t)
          PROVE  UNCHANGED <<stored, outages>> /\ room' \in {room, "closing"}
      BY <2>6 DEF ServerDelete
    <2>7. ASSUME DeleteDone(t)
          PROVE  stored' \in {stored, Forgotten} /\ UNCHANGED <<room, outages>>
      BY <2>7 DEF DeleteDone
    <2> QED
      BY <1>1, <1>3, <2>1, <2>2, <2>3, <2>4, <2>5, <2>6, <2>7, ForgottenType DEF Proceed
  <1>4. ASSUME NEW t \in Tabs, Disturb(t)
        PROVE  /\ stored' \in {stored, Forgotten} /\ UNCHANGED room
               /\ (UNCHANGED outages) \/ Outage
    <2>1. ASSUME Mount(t) \/ Unmount(t) \/ Drop(t) \/ DeleteFails(t)
          PROVE  /\ stored' \in {stored, Forgotten} /\ UNCHANGED room
                 /\ (UNCHANGED outages) \/ Outage
      BY <2>1 DEF Mount, Probed, Unmount, Drop, DeleteFails
    <2>2. ASSUME NEW p \in Slots, ProbeFails(t, p)
          PROVE  UNCHANGED <<stored, room>> /\ Outage
      BY <2>2 DEF ProbeFails
    <2>3. ASSUME NEW text, TypePassword(t, text)
          PROVE  UNCHANGED <<stored, room, outages>>
      BY <2>3 DEF TypePassword
    <2>4. ASSUME SubmitPassword(t) \/ ConfirmDelete(t) \/ ServerError(t)
          PROVE  UNCHANGED <<stored, room, outages>>
      BY <2>4 DEF SubmitPassword, ConfirmDelete, ServerError
    <2> QED
      BY <1>4, <2>1, <2>2, <2>3, <2>4 DEF Disturb
  <1> QED
    BY <1>1, <1>2, <1>3, <1>4, ForgottenType, OutageType DEF Next


\* Who writes the credentials: the tab that is let in, or one that forgets them.
LEMMA Writers ==
    ASSUME Next
    PROVE  stored' \in {stored, Forgotten} \/ \E t \in Tabs : OnJoined(t)
  <1>1. CASE RoomCloses \/ RoomRemoved
    BY <1>1 DEF RoomCloses, RoomRemoved
  <1>2. ASSUME NEW t \in Tabs, Proceed(t)
        PROVE  stored' \in {stored, Forgotten} \/ OnJoined(t)
    <2>1. ASSUME NEW frame \in Frames, OnChallenge(t, frame) PROVE stored' \in {stored, Forgotten}
      BY <2>1 DEF OnChallenge
    <2>2. ASSUME NEW p \in Slots, TryReconnect(t, p) \/ ServerProbe(t, p) \/ ProbeDone(t, p)
          PROVE  stored' \in {stored, Forgotten}
      BY <2>2 DEF TryReconnect, ServerProbe, ProbeDone
    <2>3. ASSUME OnOpen(t) \/ ServerHello(t) \/ ServerAnswer(t) \/ OnDeleted(t) \/ OnError(t)
          PROVE  stored' \in {stored, Forgotten}
      BY <2>3 DEF OnOpen, ServerHello, ServerAnswer, OnDeleted, OnError
    <2>4. ASSUME \/ OnServerClose(t) \/ OnOwnClose(t) \/ OnStaleClose(t)
                 \/ ServerDelete(t) \/ DeleteDone(t)
          PROVE  stored' \in {stored, Forgotten}
      BY <2>4 DEF OnServerClose, OnOwnClose, OnStaleClose, ServerDelete, DeleteDone
    <2> QED
      BY <1>2, <2>1, <2>2, <2>3, <2>4 DEF Proceed
  <1>3. ASSUME NEW t \in Tabs, Disturb(t)
        PROVE  stored' \in {stored, Forgotten}
    <2>1. ASSUME Mount(t) \/ Unmount(t) \/ Drop(t) \/ DeleteFails(t)
          PROVE  stored' \in {stored, Forgotten}
      BY <2>1 DEF Mount, Unmount, Drop, DeleteFails
    <2>2. ASSUME NEW p \in Slots, ProbeFails(t, p) PROVE stored' = stored
      BY <2>2 DEF ProbeFails
    <2>3. ASSUME NEW text, TypePassword(t, text) PROVE stored' = stored
      BY <2>3 DEF TypePassword
    <2>4. ASSUME SubmitPassword(t) \/ ConfirmDelete(t) \/ ServerError(t) PROVE stored' = stored
      BY <2>4 DEF SubmitPassword, ConfirmDelete, ServerError
    <2> QED
      BY <1>3, <2>1, <2>2, <2>3, <2>4 DEF Disturb
  <1> QED
    BY <1>1, <1>2, <1>3 DEF Next

----------------------------------------------------------------------------
(* The inductive invariants.                                               *)

\* No other tab has had the room open.
Only(t) == \A u \in Tabs \ {t} : tab[u].status = "deriving_key"

SessionInv == TypeOK /\ \A t \in Tabs : TabOK(tab[t])
KeyInv == \A t \in Tabs : Only(t) => KeyOK(tab[t], stored)

\* The tabs are one.
LoneTab == \E t : Tabs = {t}

LEMMA EachStep ==
    ASSUME SessionInv, Next
    PROVE  AllMove \/ \E t \in Tabs : \E r \in TabType : StepTo(t, r)
  <1>1. TypeOK /\ \A t \in Tabs : TabOK(tab[t])
    BY DEF SessionInv
  <1>2. CASE RoomCloses \/ RoomRemoved
    BY <1>1, <1>2, RoomClosesStep, RoomRemovedStep
  <1>3. ASSUME NEW t \in Tabs, Proceed(t)
        PROVE  AllMove \/ \E r \in TabType : StepTo(t, r)
    <2>1. ASSUME OnOpen(t) PROVE \E r \in TabType : StepTo(t, r)
      BY <1>1, <2>1, OnOpenStep
    <2>2. ASSUME ServerHello(t) \/ ServerAnswer(t) PROVE \E r \in TabType : StepTo(t, r)
      BY <1>1, <2>2, ServerStep
    <2>3. ASSUME NEW frame, OnChallenge(t, frame) PROVE \E r \in TabType : StepTo(t, r)
      BY <1>1, <2>3, OnChallengeStep
    <2>4. ASSUME OnJoined(t) PROVE \E r \in TabType : StepTo(t, r)
      BY <1>1, <2>4, OnJoinedStep
    <2>5. ASSUME OnDeleted(t) PROVE \E r \in TabType : StepTo(t, r)
      BY <1>1, <2>5, OnDeletedStep
    <2>6. ASSUME OnError(t) PROVE \E r \in TabType : StepTo(t, r)
      BY <1>1, <2>6, OnErrorStep
    <2>7. ASSUME OnServerClose(t) \/ OnOwnClose(t) PROVE \E r \in TabType : StepTo(t, r)
      BY <1>1, <2>7, ClosedStep
    <2>8. ASSUME OnStaleClose(t) PROVE \E r \in TabType : StepTo(t, r)
      BY <1>1, <2>8, OnStaleCloseStep
    <2>9. ASSUME NEW p \in Slots, TryReconnect(t, p) \/ ServerProbe(t, p) \/ ProbeDone(t, p)
          PROVE  \E r \in TabType : StepTo(t, r)
      BY <1>1, <2>9, TryReconnectStep, ServerProbeStep, ProbeDoneStep
    <2>10. ASSUME ServerDelete(t) PROVE AllMove \/ \E r \in TabType : StepTo(t, r)
      BY <1>1, <2>10, ServerDeleteStep
    <2>11. ASSUME DeleteDone(t) PROVE \E r \in TabType : StepTo(t, r)
      BY <1>1, <2>11, DeleteAnswerStep
    <2> QED
      BY <1>3, <2>1, <2>2, <2>3, <2>4, <2>5, <2>6, <2>7, <2>8, <2>9, <2>10, <2>11 DEF Proceed
  <1>4. ASSUME NEW t \in Tabs, Disturb(t)
        PROVE  \E r \in TabType : StepTo(t, r)
    <2>1. ASSUME Mount(t) PROVE \E r \in TabType : StepTo(t, r)
      BY <1>1, <2>1, MountStep
    <2>2. ASSUME Unmount(t) PROVE \E r \in TabType : StepTo(t, r)
      BY <1>1, <2>2, UnmountStep
    <2>3. ASSUME Drop(t) PROVE \E r \in TabType : StepTo(t, r)
      BY <1>1, <2>3, ClosedStep
    <2>4. ASSUME DeleteFails(t) PROVE \E r \in TabType : StepTo(t, r)
      BY <1>1, <2>4, DeleteAnswerStep
    <2>5. ASSUME NEW p \in Slots, ProbeFails(t, p) PROVE \E r \in TabType : StepTo(t, r)
      BY <1>1, <2>5, ProbeFailsStep
    <2>6. ASSUME NEW text \in {""} \cup Passwords, TypePassword(t, text)
          PROVE  \E r \in TabType : StepTo(t, r)
      BY <1>1, <2>6, TypePasswordStep
    <2>7. ASSUME SubmitPassword(t) PROVE \E r \in TabType : StepTo(t, r)
      BY <1>1, <2>7, SubmitPasswordStep
    <2>8. ASSUME ConfirmDelete(t) PROVE \E r \in TabType : StepTo(t, r)
      BY <1>1, <2>8, ConfirmDeleteStep
    <2>9. ASSUME ServerError(t) PROVE \E r \in TabType : StepTo(t, r)
      BY <1>1, <2>9, ServerStep
    <2> QED
      BY <1>4, <2>1, <2>2, <2>3, <2>4, <2>5, <2>6, <2>7, <2>8, <2>9 DEF Disturb
  <1> QED
    BY <1>2, <1>3, <1>4 DEF Next

LEMMA SessionInit == Init => SessionInv /\ KeyInv
  <1> SUFFICES ASSUME Init PROVE SessionInv /\ KeyInv
    OBVIOUS
  <1>1. PICK c \in ClientType : /\ c = Client("none", FALSE, "none") /\ c.ws = "none" /\ c.token = FALSE
                                /\ c.stage = "none" /\ ~HasJoined(c.inbox)
    <2>1. PICK ws \in {"none", "connecting"} : ws = "none"
      OBVIOUS
    <2>2. PICK no \in BOOLEAN : no = FALSE
      OBVIOUS
    <2>3. PICK key \in Keys \cup {"none"} : key = "none"
      OBVIOUS
    <2> QED
      BY <2>1, <2>2, <2>3, NewClient
  <1>2. PICK probe \in [Slots -> {"none", "sent", "alive", "gone"}] : probe = [p \in Slots |-> "none"]
    OBVIOUS
  <1>3. 0 \in 0 .. MaxStale /\ 0 \in 0 .. MaxOutages
    BY SessionAssumption
  <1>4. PICK s : s = FreshTab
    OBVIOUS
  <1>5. s \in TabType /\ s.client = c /\ s.status = "deriving_key" /\ s.needPassword = FALSE
    BY <1>1, <1>2, <1>3, <1>4 DEF FreshTab, TabType
  <1>6. TabOK(s)
    BY <1>1, <1>4, <1>5 DEF TabOK, Tested
  <1>7. stored \in {Forgotten, Entry(FALSE, RightKey), Entry(TRUE, RightKey)}
    BY DEF Init
  <1>8. /\ stored \in EntryType /\ stored.key \in {RightKey, "none"}
        /\ stored.token => stored.key = RightKey
    <2>1. PICK key \in Keys : key = RightKey
      BY RightKeyType
    <2>2. CASE stored = Forgotten
      BY <2>2, ForgottenType DEF Forgotten, Entry
    <2>3. CASE stored = Entry(FALSE, RightKey) \/ stored = Entry(TRUE, RightKey)
      <3>1. PICK token \in BOOLEAN : stored = [token |-> token, key |-> key]
        BY <2>1, <2>3 DEF Entry
      <3>2. PICK e : e = [token |-> token, key |-> key]
        OBVIOUS
      <3>3. e \in EntryType /\ e.key = key
        BY <3>2 DEF EntryType
      <3> QED
        BY <2>1, <3>1, <3>2, <3>3
    <2> QED
      BY <1>7, <2>2, <2>3
  <1>9. KeyOK(s, stored)
    BY <1>1, <1>5, <1>8 DEF KeyOK, ClientOK
  <1>10. tab = [t \in Tabs |-> s] /\ room \in {"alive", "closing", "gone"} /\ outages \in 0 .. MaxOutages
    BY <1>3, <1>4 DEF Init
  <1> QED
    BY <1>5, <1>6, <1>8, <1>9, <1>10 DEF SessionInv, TypeOK, KeyInv, Only, EntryType

\* What a step does to each tab.
LEMMA TabsMove ==
    ASSUME SessionInv, Next
    PROVE  /\ tab' \in [Tabs -> TabType]
           /\ \A t \in Tabs : TabOK(tab'[t])
           /\ \A t \in Tabs : tab[t].status = "deleted" =>
                                 tab'[t].status = "deleted" \/ Receives(t, "joined")
           /\ KeyInv => \A t \in Tabs :
                 (\A u \in Tabs \ {t} : tab'[u].status = "deriving_key") => KeyOK(tab'[t], stored')
  <1>1. tab \in [Tabs -> TabType] /\ \A t \in Tabs : TabOK(tab[t])
    BY DEF SessionInv, TypeOK
  <1>2. CASE AllMove
    BY <1>1, <1>2 DEF AllMove, Moves, Keeps, KeyInv, Only
  <1>3. ASSUME NEW t \in Tabs, NEW r \in TabType, StepTo(t, r)
        PROVE  /\ tab' \in [Tabs -> TabType]
               /\ \A u \in Tabs : TabOK(tab'[u])
               /\ \A u \in Tabs : tab[u].status = "deleted" =>
                                     tab'[u].status = "deleted" \/ Receives(u, "joined")
               /\ KeyInv => \A v \in Tabs :
                     (\A u \in Tabs \ {v} : tab'[u].status = "deriving_key") =>
                         KeyOK(tab'[v], stored')
    <2>1. tab' = [tab EXCEPT ![t] = r] /\ Moves(tab[t], stored, r, stored')
      BY <1>3 DEF StepTo, Update
    <2>2. tab' \in [Tabs -> TabType] /\ tab'[t] = r /\ \A u \in Tabs : u # t => tab'[u] = tab[u]
      BY <1>1, <2>1
    <2>3. /\ TabOK(r) /\ (KeyOK(tab[t], stored) => KeyOK(r, stored'))
          /\ r.status = "deriving_key" => tab[t].status = "deriving_key" /\ stored' = stored
      BY <1>1, <2>1 DEF Moves
    <2>4. tab[t].status = "deleted" => r.status = "deleted" \/ Receives(t, "joined")
      BY <1>3 DEF StepTo
    <2>5. ASSUME KeyInv, NEW v \in Tabs, \A u \in Tabs \ {v} : tab'[u].status = "deriving_key"
          PROVE  KeyOK(tab'[v], stored')
      <3>1. Only(v)
        BY <2>2, <2>3, <2>5 DEF Only
      <3>2. KeyOK(tab[v], stored)
        BY <2>5, <3>1 DEF KeyInv
      <3>3. CASE v = t
        BY <2>2, <2>3, <3>2, <3>3
      <3>4. CASE v # t
        BY <2>2, <2>3, <2>5, <3>2, <3>4
      <3> QED
        BY <3>3, <3>4
    <2> QED
      BY <1>1, <2>2, <2>3, <2>4, <2>5
  <1> QED
    BY <1>2, <1>3, EachStep

LEMMA SessionStep == SessionInv /\ [Next]_vars => SessionInv'
  <1>1. CASE SessionInv /\ Next
    <2>1. tab' \in [Tabs -> TabType] /\ \A t \in Tabs : TabOK(tab'[t])
      BY <1>1, TabsMove
    <2>2. stored' \in EntryType /\ room' \in {"alive", "closing", "gone"} /\ outages' \in 0 .. MaxOutages
      BY <1>1, RestTypes DEF SessionInv
    <2> QED
      BY <2>1, <2>2 DEF SessionInv, TypeOK, EntryType
  <1>2. CASE SessionInv /\ UNCHANGED vars
    BY <1>2 DEF vars, SessionInv, TypeOK
  <1> QED
    BY <1>1, <1>2

LEMMA KeyStep == SessionInv /\ KeyInv /\ [Next]_vars => KeyInv'
  <1>1. CASE SessionInv /\ KeyInv /\ Next
    BY <1>1, TabsMove DEF KeyInv, Only
  <1>2. CASE KeyInv /\ UNCHANGED vars
    BY <1>2 DEF vars, KeyInv, Only
  <1> QED
    BY <1>1, <1>2

----------------------------------------------------------------------------
(* The results.                                                            *)

\* Each tab keeps its form, its client and its status consistent.
THEOREM SessionInvariant == Spec => []SessionInv
  BY SessionInit, SessionStep, PTL DEF Spec

\* The state stays of its type, whatever events, answers and tabs interleave.
THEOREM SessionTypes == Spec => []TypeOK
  <1>1. SessionInv => TypeOK
    BY DEF SessionInv
  <1> QED
    BY <1>1, SessionInvariant, PTL

\* The password form never locks up (onError, submitPassword, handleJoined):
\* whoever shows it has set the busy flag back in the same callback.
THEOREM PromptStaysUsable == Spec => []PromptIsUsable
  <1>1. SessionInv => PromptIsUsable
    BY DEF SessionInv, TabOK, PromptIsUsable
  <1> QED
    BY <1>1, SessionInvariant, PTL

\* A session shown as joined has its client, or the close event of one it
\* replaced is due and marks it as lost (onClose, spawnClient).
THEOREM JoinedIsConnected == Spec => []ShownJoinedIsConnected
  <1>1. SessionInv => ShownJoinedIsConnected
    BY DEF SessionInv, TabOK, ShownJoinedIsConnected
  <1> QED
    BY <1>1, SessionInvariant, PTL

\* However many tabs share localStorage, a key is written that was tested, but
\* by a join with a token while another tab has had the room open
\* (handleJoined, saveRoomKey): the only tab never keeps a token beside a key
\* that was not tried.
THEOREM KeysAreTested == Spec => KeyIsTested
  <1> DEFINE Kept == stored'.key \in {stored.key, RightKey, "none"}
             Mixed == \E t, u \in Tabs : /\ Receives(t, "joined") /\ tab[t].client.token
                                        /\ u # t /\ tab[u].status # "deriving_key"
  <1>1. ASSUME SessionInv, KeyInv, Next PROVE Kept \/ Mixed
    <2>1. CASE stored' \in {stored, Forgotten}
      BY <2>1 DEF Forgotten, Entry
    <2>2. ASSUME NEW t \in Tabs, OnJoined(t) PROVE Kept \/ Mixed
      <3>1. PICK s \in TabType : s = tab[t] /\ TabOK(s) /\ s.client.ws = "open"
        BY <1>1, <2>2, Typed DEF SessionInv, OnJoined, Receives
      <3>2. HasJoined(s.client.inbox) /\ Receives(t, "joined")
        BY <1>1, <2>2, <3>1, Received DEF SessionInv, OnJoined
      <3>3. stored'.key = s.key /\ s.client.key = s.key
        BY <2>2, <3>1 DEF OnJoined, Entry, TabOK, Tested
      <3>4. CASE ~s.client.token
        BY <3>1, <3>2, <3>3, <3>4 DEF TabOK, Tested
      <3>5. CASE s.client.token /\ Only(t)
        BY <1>1, <3>1, <3>3, <3>5 DEF KeyInv, KeyOK, ClientOK
      <3>6. CASE s.client.token /\ ~Only(t)
        BY <3>1, <3>2, <3>6 DEF Only
      <3> QED
        BY <3>1, <3>4, <3>5, <3>6
    <2> QED
      BY <1>1, <2>1, <2>2, Writers
  <1>2. SessionInv /\ KeyInv /\ [Next]_vars =>
          [stored'.key \in {stored.key, RightKey, "none"}
           \/ \E t, u \in Tabs : /\ Receives(t, "joined") /\ tab[t].client.token
                                 /\ u # t /\ tab[u].status # "deriving_key"]_vars
    BY <1>1
  <1>3. SessionInv /\ KeyInv /\ [Next]_vars => KeyInv'
    BY KeyStep
  <1> QED
    BY <1>2, <1>3, SessionInit, SessionStep, PTL DEF Spec, KeyIsTested

\* In one tab a room shown as deleted stays so but for a late `joined', and its
\* credentials are forgotten (onDeleted, tryReconnect, confirmDelete).
THEOREM DeletedStaysFinal ==
    ASSUME LoneTab PROVE Spec => DeletedIsFinal
  <1>1. SessionInv /\ KeyInv /\ Next =>
          \A t \in Tabs :
             /\ tab[t].status = "deleted" => tab'[t].status = "deleted" \/ Receives(t, "joined")
             /\ tab'[t].status = "deleted" => stored' = Forgotten
    BY TabsMove DEF KeyOK, LoneTab
  <1>2. SessionInv /\ KeyInv /\ [Next]_vars =>
          [\A t \in Tabs :
             /\ tab[t].status = "deleted" => tab'[t].status = "deleted" \/ Receives(t, "joined")
             /\ tab'[t].status = "deleted" => stored' = Forgotten]_vars
    BY <1>1
  <1>3. SessionInv /\ KeyInv /\ [Next]_vars => KeyInv'
    BY KeyStep
  <1> QED
    BY <1>2, <1>3, SessionInit, SessionStep, PTL DEF Spec, DeletedIsFinal

=============================================================================
