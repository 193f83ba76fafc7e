-------------------------- MODULE RoomServerProofs --------------------------
(***************************************************************************)
(* Proofs about RoomServer for any number of connections, requests, rooms, *)
(* tokens and challenges, any configuration and any choice of write        *)
(* failures (where a theorem excludes one, its statement says so).         *)
(***************************************************************************)
EXTENDS RoomServer, FiniteSetTheorems, TLAPS

\* Where a handler has reached determines what its locals hold.
ControlInv ==
    /\ \A c \in Conns : ~Connected(c) => task[c].at = "idle" /\ ~peers[c].joined
                                         /\ peers[c].expected = NoChallenge
    /\ \A c \in Conns : task[c].at = "mark" => task[c].token \in Tokens
    /\ \A c \in Conns : peers[c].joined => peers[c].peerId \in Tokens
    /\ \A c \in Conns : peers[c].expected # NoChallenge => peers[c].pending \in Tokens
    /\ \A q \in Reqs : req[q].at \notin {"none", "create"} => req[q].room \in RoomIds
    /\ \A q \in Reqs : req[q].at \in {"close", "row"} => req[q].token \in Tokens
    /\ purge.at = "delete" => purge.cur \in RoomIds

\* Challenge rows have ids the counter has passed, and their room exists.
PoolInv ==
    /\ NoOrphanRows
    /\ \A i \in ChallengeIds : poolOf[i] # NoRoom => i <= lastChallenge

\* A spent challenge can never be consumed: it is marked, or its row is gone.
Spent(i) == i <= lastChallenge /\ (i \in used \/ poolOf[i] = NoRoom)

\* A challenge that was answered is spent.  One a peer still has to answer
\* was consumed from that peer's room, and is gone only if the room is.
SpentInv ==
    /\ \A i \in guessed : Spent(i)
    /\ \A t \in Tokens : minted[t] # NoChallenge => minted[t] \in guessed
    /\ \A c \in Conns : peers[c].expected \in ChallengeIds =>
          /\ peers[c].expected <= lastChallenge
          /\ peers[c].room \in drawn
          /\ peers[c].room \in rooms =>
                peers[c].expected \in used /\ poolOf[peers[c].expected] = peers[c].room
          /\ peers[c].room \notin rooms => poolOf[peers[c].expected] = NoRoom

\* A token row was issued against an answered challenge and its room exists;
\* a pending token was never issued, and no two peers are promised the same.
PendingInv ==
    /\ \A t \in Tokens : tokenRoom[t] # NoRoom =>
          minted[t] # NoChallenge /\ tokenRoom[t] \in rooms
    /\ \A c \in Conns : peers[c].pending \in Tokens =>
          minted[peers[c].pending] = NoChallenge
    /\ \A c, d \in Conns : c # d /\ peers[c].pending \in Tokens =>
          peers[c].pending # peers[d].pending

\* Rooms somebody holds a credential for were created: their ids are spent.
DrawnInv ==
    /\ rooms \subseteq drawn
    /\ \A c \in Conns : peers[c].joined \/ task[c].at = "mark" => peers[c].room \in drawn
    /\ \A q \in Reqs : req[q].at \in {"close", "row"} => req[q].room \in drawn

CredentialInv == DrawnInv /\ JoinedHoldsToken /\ DeleteIsAuthorised

ChallengeInv == SpentInv /\ OneTokenPerChallenge /\ OneGuessPerChallenge
                /\ TokensAreEarned

----------------------------------------------------------------------------
(* Type correctness.                                                       *)

\* Constructors and fields of the records, and the values at rest.
LEMMA RecordTypes ==
    /\ \A r \in MaybeRoom, joined \in BOOLEAN, id \in MaybeToken, p \in MaybeToken,
          e \in 0 .. Decoy : Peer(r, joined, id, p, e) \in PeerType
    /\ \A p \in PeerType : /\ p.room \in MaybeRoom /\ p.joined \in BOOLEAN
                            /\ p.peerId \in MaybeToken /\ p.pending \in MaybeToken
                            /\ p.expected \in 0 .. Decoy
    /\ \A at \in TaskAt, t \in MaybeToken, n \in Nat : Task(at, t, n) \in TaskType
    /\ \A k \in TaskType : k.at \in TaskAt /\ k.token \in MaybeToken /\ k.limit \in Nat
    /\ \A at \in ReqAt, r \in MaybeRoom, t \in MaybeToken, n \in Nat :
          Request(at, r, t, n) \in ReqType
    /\ \A k \in ReqType : /\ k.at \in ReqAt /\ k.room \in MaybeRoom
                           /\ k.token \in MaybeToken /\ k.count \in Nat
    /\ \A at \in PurgeAt, x \in SUBSET RoomIds, r \in MaybeRoom :
          Purging(at, x, r) \in PurgeType
    /\ \A k \in PurgeType : k.stale \in SUBSET RoomIds /\ k.cur \in MaybeRoom
  BY DEF Peer, Task, Request, Purging, PeerType, TaskType, ReqType, PurgeType

LEMMA ConstantTypes ==
    /\ {"idle", "count", "consume", "mark", "touch"} \subseteq TaskAt
    /\ {"none", "create", "insert", "activate", "close", "row"} \subseteq ReqAt
    /\ {"sleep", "pick", "delete"} \subseteq PurgeAt
    /\ NoToken \in MaybeToken /\ Tokens \subseteq MaybeToken
    /\ NoRoom \in MaybeRoom /\ RoomIds \subseteq MaybeRoom
    /\ 0 \in Nat /\ Decoy \in Nat /\ NoChallenge \in 0 .. Decoy /\ Decoy \in 0 .. Decoy
    /\ ChallengeIds \subseteq 0 .. Decoy
    /\ EmptyRow \in RoomRow /\ Capacity \in Nat
  BY StoreAssumption, ServerAssumption
     DEF TaskAt, ReqAt, PurgeAt, MaybeToken, MaybeRoom, Decoy, NoChallenge,
         ChallengeIds,
         EmptyRow, RoomRow, Capacity

LEMMA RestTypes ==
    NoPeer \in PeerType /\ Idle \in TaskType /\ NoReq \in ReqType /\ Asleep \in PurgeType
  BY RecordTypes, ConstantTypes DEF NoPeer, Idle, NoReq, Asleep

LEMMA InitType == Init => TypeOK
  BY RestTypes, ConstantTypes, StoreAssumption
     DEF Init, StoreInit, TypeOK, StoreTypeOK, ChallengeIds, MaybeRoom, NoChallenge

\* A read or a failed write: the store is as it was.
LEMMA StoreSame == StoreTypeOK /\ UNCHANGED storeVars => StoreTypeOK'
  BY DEF StoreTypeOK, storeVars

\* Each write of the store keeps the store's types.
LEMMA StoreWriteTypes ==
    ASSUME StoreTypeOK
    PROVE  /\ \A r \in RoomIds, pw \in BOOLEAN :
                 CreateRoom(r, Capacity, pw) => StoreTypeOK'
           /\ \A r \in MaybeRoom :
                 TouchRoom(r) \/ ActivateRoom(r) \/ DeleteRoom(r) => StoreTypeOK'
           /\ \A r \in MaybeRoom, n \in Nat : InsertChallenges(r, n) => StoreTypeOK'
           /\ \A r \in MaybeRoom, i \in ChallengeIds :
                 ConsumeChallenge(i, r) => StoreTypeOK'
           /\ \A r \in MaybeRoom, t \in MaybeToken :
                 InsertAccessToken(t, r) => StoreTypeOK'
  <1> USE DEF StoreTypeOK, MaybeRoom
  <1>1. ASSUME NEW r \in RoomIds, NEW pw \in BOOLEAN, CreateRoom(r, Capacity, pw)
        PROVE  StoreTypeOK'
    BY <1>1, ConstantTypes DEF CreateRoom, RoomRow
  <1>2. ASSUME NEW r \in MaybeRoom, TouchRoom(r) PROVE StoreTypeOK'
    BY <1>2 DEF TouchRoom, RoomRow
  <1>3. ASSUME NEW r \in MaybeRoom, ActivateRoom(r) PROVE StoreTypeOK'
    BY <1>3 DEF ActivateRoom, RoomRow
  <1>4. ASSUME NEW r \in MaybeRoom, DeleteRoom(r) PROVE StoreTypeOK'
    BY <1>4, ConstantTypes DEF DeleteRoom
  <1>5. ASSUME NEW r \in MaybeRoom, NEW n \in Nat, InsertChallenges(r, n)
        PROVE  StoreTypeOK'
    BY <1>5, StoreAssumption, StoreSame DEF InsertChallenges, AddChallenges
  <1>6. ASSUME NEW r \in MaybeRoom, NEW i \in ChallengeIds, ConsumeChallenge(i, r)
        PROVE  StoreTypeOK'
    BY <1>6 DEF ConsumeChallenge
  <1>7. ASSUME NEW r \in MaybeRoom, NEW t \in MaybeToken, InsertAccessToken(t, r)
        PROVE  StoreTypeOK'
    BY <1>7 DEF InsertAccessToken
  <1> QED BY <1>1, <1>2, <1>3, <1>4, <1>5, <1>6, <1>7

\* A challenge frame leaves a well-typed peer and an idle handler.
LEMMA ChallengeType ==
    ASSUME TypeOK, NEW c \in Conns, NEW i \in 0 .. Decoy, Challenge(c, i)
    PROVE  peers' \in [Conns -> PeerType] /\ task' \in [Conns -> TaskType]
  <1>1. PICK t \in FreshTokens :
           peers' = [peers EXCEPT ![c] = Peer(@.room, @.joined, @.peerId, t, i)]
    BY DEF Challenge
  <1>2. t \in MaybeToken
    BY <1>1, ConstantTypes DEF FreshTokens
  <1>3. peers[c] \in PeerType
    BY DEF TypeOK
  <1>4. peers' \in [Conns -> PeerType]
    BY <1>1, <1>2, <1>3, RecordTypes DEF TypeOK
  <1>5. task' \in [Conns -> TaskType]
    BY RestTypes DEF TypeOK, Challenge
  <1> QED BY <1>4, <1>5

\* No step of any handler leaves the types.
LEMMA StepType == TypeOK /\ [Next]_vars => TypeOK'
  <1> SUFFICES ASSUME TypeOK, [Next]_vars PROVE TypeOK'
    OBVIOUS
  <1> USE DEF TypeOK
  <1>1. ASSUME NEW c \in Conns, NEW r \in RoomIds, WsOpen(c, r) PROVE TypeOK'
    BY <1>1, StoreSame, RecordTypes, ConstantTypes
       DEF WsOpen, ghostVars
  <1>2. ASSUME NEW c \in Conns, WsClose(c) PROVE TypeOK'
    BY <1>2, StoreSame, RestTypes
       DEF WsClose, ghostVars
  <1>3. ASSUME NEW c \in Conns, NEW t \in Tokens, HelloToken(c, t) PROVE TypeOK'
    <2>1. Task("mark", t, 0) \in TaskType
      BY RecordTypes, ConstantTypes
    <2> QED
      BY <1>3, <2>1, StoreSame DEF HelloToken, Refuse, ghostVars
  <1>4. ASSUME NEW c \in Conns, HelloFind(c) PROVE TypeOK'
    <2>1. CASE Challenge(c, Decoy) /\ UNCHANGED <<storeVars, closing, req, purge, ghostVars>>
      BY <2>1, ChallengeType, StoreSame, ConstantTypes DEF ghostVars
    <2>2. CASE /\ task' = [task EXCEPT ![c] =
                     Task("count", NoToken, row[peers[c].room].maxParticipants)]
               /\ peers[c].room \in rooms
               /\ UNCHANGED <<storeVars, peers, closing, req, purge, ghostVars>>
      <3>1. row[peers[c].room].maxParticipants \in Nat
        BY <2>2 DEF StoreTypeOK, RoomRow
      <3> QED
        BY <2>2, <3>1, StoreSame, RecordTypes, ConstantTypes DEF ghostVars
    <2> QED
      BY <1>4, <2>1, <2>2 DEF HelloFind, RoomExists
  <1>5. ASSUME NEW c \in Conns, HelloCount(c) PROVE TypeOK'
    <2>1. CASE Challenge(c, Decoy) /\ UNCHANGED <<storeVars, closing, req, purge, ghostVars>>
      BY <2>1, ChallengeType, StoreSame, ConstantTypes DEF ghostVars
    <2>2. CASE /\ task' = [task EXCEPT ![c] = Task("consume", NoToken, 0)]
               /\ UNCHANGED <<storeVars, peers, closing, req, purge, ghostVars>>
      BY <2>2, StoreSame, RecordTypes, ConstantTypes DEF ghostVars
    <2> QED
      BY <1>5, <2>1, <2>2 DEF HelloCount
  <1>6. ASSUME NEW c \in Conns, HelloConsume(c) PROVE TypeOK'
    <2>1. CASE Challenge(c, Decoy) /\ UNCHANGED <<storeVars, closing, req, purge, ghostVars>>
      BY <2>1, ChallengeType, StoreSame, ConstantTypes DEF ghostVars
    <2>2. CASE \E i \in ChallengeIds :
                  ConsumeChallenge(i, peers[c].room) /\ Challenge(c, i)
      <3>1. StoreTypeOK'
        BY <2>2, StoreWriteTypes, RecordTypes
      <3>2. peers' \in [Conns -> PeerType] /\ task' \in [Conns -> TaskType]
        BY <2>2, ChallengeType, ConstantTypes
      <3> QED
        BY <1>6, <3>1, <3>2 DEF HelloConsume, ghostVars
    <2> QED
      BY <1>6, <2>1, <2>2 DEF HelloConsume
  <1>7. ASSUME NEW c \in Conns, NEW answer \in 0 .. MaxChallengeId,
               ChallengeResponse(c, answer)
        PROVE  TypeOK'
    <2> DEFINE p == peers[c]
    <2>1. p \in PeerType /\ p.expected \in 0 .. Decoy /\ p.pending \in MaybeToken
      BY RecordTypes
    <2>2. /\ peers' \in [Conns -> PeerType]
          /\ guessed' \subseteq ChallengeIds
          /\ UNCHANGED <<req, purge, drawn, crashes>>
      BY <1>7, <2>1, RecordTypes, ConstantTypes DEF ChallengeResponse
    <2>3. CASE /\ InsertAccessToken(p.pending, p.room)
               /\ answer = p.expected
               /\ minted' = [minted EXCEPT ![p.pending] = p.expected]
               /\ task' = [task EXCEPT ![c] = Task("mark", p.pending, 0)]
               /\ UNCHANGED closing
      <3>1. StoreTypeOK'
        BY <2>1, <2>3, StoreWriteTypes, RecordTypes
      <3>2. minted' \in [Tokens -> 0 .. MaxChallengeId]
        BY <2>3
      <3>3. task' \in [Conns -> TaskType]
        BY <2>1, <2>3, RecordTypes, ConstantTypes
      <3> QED
        BY <2>2, <2>3, <3>1, <3>2, <3>3
    <2>4. CASE Refuse(c) /\ UNCHANGED <<storeVars, minted, task>>
      BY <2>2, <2>4, StoreSame DEF Refuse
    <2> QED
      BY <1>7, <2>3, <2>4 DEF ChallengeResponse
  <1>8. ASSUME NEW c \in Conns, BadFrame(c) PROVE TypeOK'
    BY <1>8, StoreSame
       DEF BadFrame, Refuse, ghostVars
  <1>9. ASSUME NEW c \in Conns, MarkJoined(c) PROVE TypeOK'
    BY <1>9, StoreSame, RecordTypes, ConstantTypes
       DEF MarkJoined, ghostVars
  <1>10. ASSUME NEW c \in Conns, FinishJoin(c) PROVE TypeOK'
    BY <1>10, StoreWriteTypes, RecordTypes, RestTypes
       DEF FinishJoin, ghostVars
  <1>11. ASSUME NEW c \in Conns, SendMsg(c) PROVE TypeOK'
    BY <1>11, StoreWriteTypes, RecordTypes
       DEF SendMsg, connVars, ghostVars
  <1>12. ASSUME NEW q \in Reqs, CreateCheck(q) PROVE TypeOK'
    BY <1>12, StoreSame, RecordTypes, ConstantTypes
       DEF CreateCheck, connVars, ghostVars
  <1>13. ASSUME NEW q \in Reqs, NEW r \in RoomIds, NEW password \in BOOLEAN,
                CreateInsert(q, r, password)
        PROVE  TypeOK'
    BY <1>13, StoreSame, StoreWriteTypes, RestTypes
       DEF CreateInsert, connVars, ghostVars
  <1>14. ASSUME NEW q \in Reqs, NEW r \in RoomIds, ActivateFind(q, r) PROVE TypeOK'
    <2>1. Required(r) \in Nat
      BY <1>14, ServerAssumption DEF Required, StoreTypeOK, RoomRow
    <2> QED
      BY <1>14, <2>1, StoreSame, RecordTypes, ConstantTypes
         DEF ActivateFind, connVars, ghostVars
  <1>15. ASSUME NEW q \in Reqs, ActivateInsert(q) PROVE TypeOK'
    <2>1. req[q].room \in MaybeRoom /\ req[q].count \in Nat
      BY RecordTypes
    <2>2. Request("activate", req[q].room, NoToken, req[q].count) \in ReqType
      BY <2>1, RecordTypes, ConstantTypes
    <2>3. StoreTypeOK'
      BY <1>15, <2>1, StoreSame, StoreWriteTypes DEF ActivateInsert
    <2> QED
      BY <1>15, <2>2, <2>3, RestTypes DEF ActivateInsert, connVars, ghostVars
  <1>16. ASSUME NEW q \in Reqs, ActivateCommit(q) PROVE TypeOK'
    BY <1>16, StoreSame, StoreWriteTypes, RecordTypes, RestTypes
       DEF ActivateCommit, connVars, ghostVars
  <1>17. ASSUME NEW q \in Reqs, NEW r \in RoomIds, NEW t \in Tokens, DeleteCheck(q,
                r, t)
        PROVE  TypeOK'
    BY <1>17, StoreSame, RecordTypes, ConstantTypes
       DEF DeleteCheck, connVars, ghostVars
  <1>18. ASSUME NEW q \in Reqs, DeleteClose(q) PROVE TypeOK'
    BY <1>18, StoreSame, RecordTypes, ConstantTypes
       DEF DeleteClose, CloseRoom, ghostVars
  <1>19. ASSUME NEW q \in Reqs, DeleteRow(q) PROVE TypeOK'
    BY <1>19, StoreSame, StoreWriteTypes, RecordTypes, RestTypes
       DEF DeleteRow, DropRoom, connVars, ghostVars
  <1>20. ASSUME PurgeSelect PROVE TypeOK'
    BY <1>20, StoreSame, RecordTypes, ConstantTypes
       DEF PurgeSelect, RoomsIdleSince, StoreTypeOK, connVars, ghostVars
  <1>21. ASSUME NEW r \in RoomIds, PurgeClose(r) PROVE TypeOK'
    BY <1>21, StoreSame, RecordTypes, ConstantTypes
       DEF PurgeClose, CloseRoom, ghostVars
  <1>22. ASSUME PurgeDelete PROVE TypeOK'
    BY <1>22, StoreSame, StoreWriteTypes, RecordTypes, ConstantTypes
       DEF PurgeDelete, DropRoom, connVars, ghostVars
  <1>23. ASSUME PurgeRest PROVE TypeOK'
    BY <1>23, StoreSame, RestTypes
       DEF PurgeRest, connVars, ghostVars
  <1>24. ASSUME Crash PROVE TypeOK'
    BY <1>24, StoreSame, RestTypes
       DEF Crash, ghostVars
  <1>25. ASSUME Tick PROVE TypeOK'
    BY <1>25
       DEF Tick, StoreTypeOK, connVars, ghostVars
  <1>26. CASE UNCHANGED vars
    BY <1>26, StoreSame DEF vars, connVars, ghostVars
  <1>27. QED
    BY <1>1, <1>2, <1>3, <1>4, <1>5, <1>6, <1>7, <1>8, <1>9, <1>10, <1>11, <1>12,
       <1>13, <1>14, <1>15, <1>16, <1>17, <1>18, <1>19, <1>20, <1>21, <1>22, <1>23,
       <1>24, <1>25, <1>26
       DEF Next, ConnNext, ReqNext, PurgeNext

\* Every variable keeps its type in every behaviour: handlers never hold a
\* token, a room id or a challenge of the wrong kind (all of webapi.cpp,
\* room.cpp, main.cpp and db.cpp as modelled).
THEOREM TypeCorrect == Spec => []TypeOK
  BY InitType, StepType, PTL DEF Spec

----------------------------------------------------------------------------
(* Handlers hold what their position says.                                 *)

LEMMA StepControl ==
    TypeOK /\ ControlInv /\ [Next]_vars => ControlInv'
  <1> SUFFICES ASSUME TypeOK, ControlInv, [Next]_vars
               PROVE  ControlInv'
    OBVIOUS
  <1> USE DEF TypeOK, ControlInv
  <1>1. ASSUME NEW c \in Conns, NEW r \in RoomIds, WsOpen(c, r)
        PROVE  ControlInv'
    BY <1>1, RecordTypes
       DEF WsOpen, Connected, Peer
  <1>2. ASSUME NEW c \in Conns, WsClose(c) PROVE ControlInv'
    BY <1>2
       DEF WsClose, Connected, NoPeer, Peer, Idle, Task
  <1>3. ASSUME NEW c \in Conns, NEW t \in Tokens, HelloToken(c, t)
        PROVE  ControlInv'
    BY <1>3
       DEF HelloToken, Reading, Connected, Task, Idle
  <1>4. ASSUME NEW c \in Conns, HelloFind(c) PROVE ControlInv'
    BY <1>4, ConstantTypes
       DEF HelloFind, Reading, Challenge, FreshTokens, Connected, Peer, Task, Idle
  <1>5. ASSUME NEW c \in Conns, HelloCount(c) PROVE ControlInv'
    <2>1. task[c].at = "count" /\ UNCHANGED <<req, purge>>
      BY <1>5 DEF HelloCount
    <2>2. CASE Challenge(c, Decoy)
      BY <2>1, <2>2, ConstantTypes
         DEF Challenge, FreshTokens, Connected, Peer, Task, Idle
    <2>3. CASE task' = [task EXCEPT ![c] = Task("consume", NoToken, 0)] /\ UNCHANGED peers
      BY <2>1, <2>3, ConstantTypes DEF Connected, Task
    <2> QED
      BY <1>5, <2>2, <2>3 DEF HelloCount
  <1>6. ASSUME NEW c \in Conns, HelloConsume(c) PROVE ControlInv'
    BY <1>6, ConstantTypes
       DEF HelloConsume, Challenge, FreshTokens, Connected, Peer, Task, Idle
  <1>7. ASSUME NEW c \in Conns, NEW answer \in 0 .. MaxChallengeId,
               ChallengeResponse(c, answer)
        PROVE  ControlInv'
    BY <1>7
       DEF ChallengeResponse, Reading, Connected, Peer, Task, Idle, NoChallenge
  <1>8. ASSUME NEW c \in Conns, BadFrame(c) PROVE ControlInv'
    BY <1>8
       DEF BadFrame, Connected
  <1>9. ASSUME NEW c \in Conns, MarkJoined(c) PROVE ControlInv'
    BY <1>9
       DEF MarkJoined, Connected, Peer, Task
  <1>10. ASSUME NEW c \in Conns, FinishJoin(c) PROVE ControlInv'
    BY <1>10
       DEF FinishJoin, Connected, Task, Idle
  <1>11. ASSUME NEW c \in Conns, SendMsg(c) PROVE ControlInv'
    BY <1>11
       DEF SendMsg, Connected, connVars
  <1>12. ASSUME NEW q \in Reqs, CreateCheck(q) PROVE ControlInv'
    BY <1>12
       DEF CreateCheck, Connected, Request, connVars
  <1>13. ASSUME NEW q \in Reqs, NEW r \in RoomIds, NEW password \in BOOLEAN,
                CreateInsert(q, r, password)
        PROVE  ControlInv'
    BY <1>13
       DEF CreateInsert, Connected, NoReq, Request, connVars
  <1>14. ASSUME NEW q \in Reqs, NEW r \in RoomIds, ActivateFind(q, r)
        PROVE  ControlInv'
    BY <1>14
       DEF ActivateFind, Connected, Request, connVars
  <1>15. ASSUME NEW q \in Reqs, ActivateInsert(q) PROVE ControlInv'
    BY <1>15
       DEF ActivateInsert, Connected, NoReq, Request, connVars
  <1>16. ASSUME NEW q \in Reqs, ActivateCommit(q) PROVE ControlInv'
    BY <1>16
       DEF ActivateCommit, Connected, NoReq, Request, connVars
  <1>17. ASSUME NEW q \in Reqs, NEW r \in RoomIds, NEW t \in Tokens, DeleteCheck(q,
                r, t)
        PROVE  ControlInv'
    BY <1>17
       DEF DeleteCheck, Connected, Request, connVars
  <1>18. ASSUME NEW q \in Reqs, DeleteClose(q) PROVE ControlInv'
    BY <1>18
       DEF DeleteClose, Connected, Request
  <1>19. ASSUME NEW q \in Reqs, DeleteRow(q) PROVE ControlInv'
    BY <1>19
       DEF DeleteRow, Connected, NoReq, Request, connVars
  <1>20. ASSUME PurgeSelect PROVE ControlInv'
    BY <1>20
       DEF PurgeSelect, Connected, Purging, connVars
  <1>21. ASSUME NEW r \in RoomIds, PurgeClose(r) PROVE ControlInv'
    BY <1>21
       DEF PurgeClose, Connected, Purging
  <1>22. ASSUME PurgeDelete PROVE ControlInv'
    BY <1>22
       DEF PurgeDelete, Connected, Purging, connVars
  <1>23. ASSUME PurgeRest PROVE ControlInv'
    BY <1>23
       DEF PurgeRest, Connected, Purging, Asleep, connVars
  <1>24. ASSUME Crash PROVE ControlInv'
    BY <1>24
       DEF Crash, Connected, NoPeer, Peer, Idle, Task, NoReq, Request, Asleep, Purging
  <1>25. ASSUME Tick PROVE ControlInv'
    BY <1>25
       DEF Tick, Connected, connVars
  <1>26. CASE UNCHANGED vars
    BY <1>26 DEF vars, connVars, ghostVars, storeVars, Connected
  <1>27. QED
    BY <1>1, <1>2, <1>3, <1>4, <1>5, <1>6, <1>7, <1>8, <1>9, <1>10, <1>11, <1>12,
       <1>13, <1>14, <1>15, <1>16, <1>17, <1>18, <1>19, <1>20, <1>21, <1>22, <1>23,
       <1>24, <1>25, <1>26
       DEF Next, ConnNext, ReqNext, PurgeNext

LEMMA StepPending ==
    TypeOK /\ ControlInv /\ PendingInv /\ [Next]_vars => PendingInv'
  <1> SUFFICES ASSUME TypeOK, ControlInv, PendingInv, [Next]_vars
               PROVE  PendingInv'
    OBVIOUS
  <1> USE DEF TypeOK, StoreTypeOK, PendingInv
  <1>1. ASSUME NEW c \in Conns, NEW r \in RoomIds, WsOpen(c, r)
        PROVE  PendingInv'
    BY <1>1, StoreAssumption, ServerAssumption
       DEF WsOpen, Peer, storeVars, ghostVars
  <1>2. ASSUME NEW c \in Conns, WsClose(c) PROVE PendingInv'
    BY <1>2, StoreAssumption, ServerAssumption
       DEF WsClose, NoPeer, Peer, storeVars, ghostVars
  <1>3. ASSUME NEW c \in Conns, NEW t \in Tokens, HelloToken(c, t)
        PROVE  PendingInv'
    BY <1>3, StoreAssumption, ServerAssumption
       DEF HelloToken, storeVars, ghostVars
  <1>4. ASSUME NEW c \in Conns, HelloFind(c) PROVE PendingInv'
    BY <1>4, StoreAssumption, ServerAssumption
       DEF HelloFind, Challenge, FreshTokens, Peer, storeVars, ghostVars
  <1>5. ASSUME NEW c \in Conns, HelloCount(c) PROVE PendingInv'
    BY <1>5, StoreAssumption, ServerAssumption
       DEF HelloCount, Challenge, FreshTokens, Peer, storeVars, ghostVars
  <1>6. ASSUME NEW c \in Conns, HelloConsume(c) PROVE PendingInv'
    BY <1>6, StoreAssumption, ServerAssumption
       DEF HelloConsume, ConsumeChallenge, Challenge, FreshTokens, Peer, storeVars,
           ghostVars
  <1>7. ASSUME NEW c \in Conns, NEW answer \in 0 .. MaxChallengeId,
               ChallengeResponse(c, answer)
        PROVE  PendingInv'
    BY <1>7, StoreAssumption, ServerAssumption
       DEF ChallengeResponse, InsertAccessToken, TokenInsertSucceeds, Peer,
           storeVars, ghostVars
  <1>8. ASSUME NEW c \in Conns, BadFrame(c) PROVE PendingInv'
    BY <1>8, StoreAssumption, ServerAssumption
       DEF BadFrame, storeVars, ghostVars
  <1>9. ASSUME NEW c \in Conns, MarkJoined(c) PROVE PendingInv'
    BY <1>9, StoreAssumption, ServerAssumption
       DEF MarkJoined, Peer, storeVars, ghostVars
  <1>10. ASSUME NEW c \in Conns, FinishJoin(c) PROVE PendingInv'
    BY <1>10, StoreAssumption, ServerAssumption
       DEF FinishJoin, TouchRoom, storeVars, ghostVars
  <1>11. ASSUME NEW c \in Conns, SendMsg(c) PROVE PendingInv'
    BY <1>11, StoreAssumption, ServerAssumption
       DEF SendMsg, TouchRoom, connVars, storeVars, ghostVars
  <1>12. ASSUME NEW q \in Reqs, CreateCheck(q) PROVE PendingInv'
    BY <1>12, StoreAssumption, ServerAssumption
       DEF CreateCheck, connVars, storeVars, ghostVars
  <1>13. ASSUME NEW q \in Reqs, NEW r \in RoomIds, NEW password \in BOOLEAN,
                CreateInsert(q, r, password)
        PROVE  PendingInv'
    BY <1>13, StoreAssumption, ServerAssumption
       DEF CreateInsert, CreateRoom, connVars, storeVars, ghostVars
  <1>14. ASSUME NEW q \in Reqs, NEW r \in RoomIds, ActivateFind(q, r)
        PROVE  PendingInv'
    BY <1>14, StoreAssumption, ServerAssumption
       DEF ActivateFind, connVars, storeVars, ghostVars
  <1>15. ASSUME NEW q \in Reqs, ActivateInsert(q) PROVE PendingInv'
    BY <1>15, StoreAssumption, ServerAssumption
       DEF ActivateInsert, InsertChallenges, AddChallenges, connVars, storeVars, ghostVars
  <1>16. ASSUME NEW q \in Reqs, ActivateCommit(q) PROVE PendingInv'
    BY <1>16, StoreAssumption, ServerAssumption
       DEF ActivateCommit, ActivateRoom, connVars, storeVars, ghostVars
  <1>17. ASSUME NEW q \in Reqs, NEW r \in RoomIds, NEW t \in Tokens, DeleteCheck(q,
                r, t)
        PROVE  PendingInv'
    BY <1>17, StoreAssumption, ServerAssumption
       DEF DeleteCheck, connVars, storeVars, ghostVars
  <1>18. ASSUME NEW q \in Reqs, DeleteClose(q) PROVE PendingInv'
    BY <1>18, StoreAssumption, ServerAssumption
       DEF DeleteClose, storeVars, ghostVars
  <1>19. ASSUME NEW q \in Reqs, DeleteRow(q) PROVE PendingInv'
    BY <1>19, StoreAssumption, ServerAssumption
       DEF DeleteRow, DropRoom, DeleteRoom, connVars, storeVars, ghostVars
  <1>20. ASSUME PurgeSelect PROVE PendingInv'
    BY <1>20, StoreAssumption, ServerAssumption
       DEF PurgeSelect, connVars, storeVars, ghostVars
  <1>21. ASSUME NEW r \in RoomIds, PurgeClose(r) PROVE PendingInv'
    BY <1>21, StoreAssumption, ServerAssumption
       DEF PurgeClose, storeVars, ghostVars
  <1>22. ASSUME PurgeDelete PROVE PendingInv'
    BY <1>22, StoreAssumption, ServerAssumption
       DEF PurgeDelete, DropRoom, DeleteRoom, connVars, storeVars, ghostVars
  <1>23. ASSUME PurgeRest PROVE PendingInv'
    BY <1>23, StoreAssumption, ServerAssumption
       DEF PurgeRest, connVars, storeVars, ghostVars
  <1>24. ASSUME Crash PROVE PendingInv'
    BY <1>24, StoreAssumption, ServerAssumption
       DEF Crash, NoPeer, Peer, storeVars, ghostVars
  <1>25. ASSUME Tick PROVE PendingInv'
    BY <1>25, StoreAssumption, ServerAssumption
       DEF Tick, connVars, storeVars, ghostVars
  <1>26. CASE UNCHANGED vars
    BY <1>26, StoreAssumption, ServerAssumption DEF vars, connVars, ghostVars,
       storeVars
  <1>27. QED
    BY <1>1, <1>2, <1>3, <1>4, <1>5, <1>6, <1>7, <1>8, <1>9, <1>10, <1>11, <1>12,
       <1>13, <1>14, <1>15, <1>16, <1>17, <1>18, <1>19, <1>20, <1>21, <1>22, <1>23,
       <1>24, <1>25, <1>26
       DEF Next, ConnNext, ReqNext, PurgeNext

LEMMA StepCredential ==
    TypeOK /\ ControlInv /\ PendingInv /\ CredentialInv /\ [Next]_vars => CredentialInv'
  <1> SUFFICES ASSUME TypeOK, ControlInv, PendingInv, CredentialInv, [Next]_vars
               PROVE  CredentialInv'
    OBVIOUS
  <1> USE DEF TypeOK, StoreTypeOK, PendingInv, CredentialInv, DrawnInv, JoinedHoldsToken,
            DeleteIsAuthorised
  <1>1. ASSUME NEW c \in Conns, NEW r \in RoomIds, WsOpen(c, r)
        PROVE  CredentialInv'
    BY <1>1, StoreAssumption, ServerAssumption
       DEF WsOpen, Peer, ControlInv, Connected, storeVars, ghostVars
  <1>2. ASSUME NEW c \in Conns, WsClose(c) PROVE CredentialInv'
    BY <1>2, StoreAssumption, ServerAssumption
       DEF WsClose, NoPeer, Peer, Idle, Task, storeVars, ghostVars
  <1>3. ASSUME NEW c \in Conns, NEW t \in Tokens, HelloToken(c, t)
        PROVE  CredentialInv'
    BY <1>3, StoreAssumption, ServerAssumption
       DEF HelloToken, Reading, Connected, RoomForToken, Task, storeVars, ghostVars
  <1>4. ASSUME NEW c \in Conns, HelloFind(c) PROVE CredentialInv'
    BY <1>4, StoreAssumption, ServerAssumption
       DEF HelloFind, Challenge, FreshTokens, Peer, Task, Idle, storeVars, ghostVars
  <1>5. ASSUME NEW c \in Conns, HelloCount(c) PROVE CredentialInv'
    BY <1>5, StoreAssumption, ServerAssumption
       DEF HelloCount, Challenge, FreshTokens, Peer, Task, Idle, storeVars, ghostVars
  <1>6. ASSUME NEW c \in Conns, HelloConsume(c) PROVE CredentialInv'
    BY <1>6, StoreAssumption, ServerAssumption
       DEF HelloConsume, ConsumeChallenge, Challenge, FreshTokens, Peer, Task, Idle,
           storeVars, ghostVars
  <1>7. ASSUME NEW c \in Conns, NEW answer \in 0 .. MaxChallengeId,
               ChallengeResponse(c, answer)
        PROVE  CredentialInv'
    BY <1>7, StoreAssumption, ServerAssumption
       DEF ChallengeResponse, ControlInv, InsertAccessToken, TokenInsertSucceeds,
           Peer, Task, Reading, Connected, NoChallenge, storeVars, ghostVars
  <1>8. ASSUME NEW c \in Conns, BadFrame(c) PROVE CredentialInv'
    BY <1>8, StoreAssumption, ServerAssumption
       DEF BadFrame, storeVars, ghostVars
  <1>9. ASSUME NEW c \in Conns, MarkJoined(c) PROVE CredentialInv'
    BY <1>9, StoreAssumption, ServerAssumption
       DEF MarkJoined, Peer, Task, storeVars, ghostVars
  <1>10. ASSUME NEW c \in Conns, FinishJoin(c) PROVE CredentialInv'
    BY <1>10, StoreAssumption, ServerAssumption
       DEF FinishJoin, TouchRoom, Idle, Task, storeVars, ghostVars
  <1>11. ASSUME NEW c \in Conns, SendMsg(c) PROVE CredentialInv'
    BY <1>11, StoreAssumption, ServerAssumption
       DEF SendMsg, TouchRoom, connVars, storeVars, ghostVars
  <1>12. ASSUME NEW q \in Reqs, CreateCheck(q) PROVE CredentialInv'
    BY <1>12, StoreAssumption, ServerAssumption
       DEF CreateCheck, Request, connVars, storeVars, ghostVars
  <1>13. ASSUME NEW q \in Reqs, NEW r \in RoomIds, NEW password \in BOOLEAN,
                CreateInsert(q, r, password)
        PROVE  CredentialInv'
    BY <1>13, StoreAssumption, ServerAssumption
       DEF CreateInsert, CreateRoom, NoReq, Request, connVars, storeVars, ghostVars
  <1>14. ASSUME NEW q \in Reqs, NEW r \in RoomIds, ActivateFind(q, r)
        PROVE  CredentialInv'
    BY <1>14, StoreAssumption, ServerAssumption
       DEF ActivateFind, Request, connVars, storeVars, ghostVars
  <1>15. ASSUME NEW q \in Reqs, ActivateInsert(q) PROVE CredentialInv'
    BY <1>15, StoreAssumption, ServerAssumption
       DEF ActivateInsert, InsertChallenges, AddChallenges, NoReq, Request, connVars,
           storeVars, ghostVars
  <1>16. ASSUME NEW q \in Reqs, ActivateCommit(q) PROVE CredentialInv'
    BY <1>16, StoreAssumption, ServerAssumption
       DEF ActivateCommit, ActivateRoom, NoReq, Request, connVars, storeVars,
           ghostVars
  <1>17. ASSUME NEW q \in Reqs, NEW r \in RoomIds, NEW t \in Tokens, DeleteCheck(q,
                r, t)
        PROVE  CredentialInv'
    BY <1>17, StoreAssumption, ServerAssumption
       DEF DeleteCheck, RoomForToken, Request, connVars, storeVars, ghostVars
  <1>18. ASSUME NEW q \in Reqs, DeleteClose(q) PROVE CredentialInv'
    BY <1>18, StoreAssumption, ServerAssumption
       DEF DeleteClose, Request, storeVars, ghostVars
  <1>19. ASSUME NEW q \in Reqs, DeleteRow(q) PROVE CredentialInv'
    BY <1>19, StoreAssumption, ServerAssumption
       DEF DeleteRow, DropRoom, DeleteRoom, ControlInv, NoReq, Request, connVars,
           storeVars, ghostVars
  <1>20. ASSUME PurgeSelect PROVE CredentialInv'
    BY <1>20, StoreAssumption, ServerAssumption
       DEF PurgeSelect, connVars, storeVars, ghostVars
  <1>21. ASSUME NEW r \in RoomIds, PurgeClose(r) PROVE CredentialInv'
    BY <1>21, StoreAssumption, ServerAssumption
       DEF PurgeClose, storeVars, ghostVars
  <1>22. ASSUME PurgeDelete PROVE CredentialInv'
    BY <1>22, StoreAssumption, ServerAssumption
       DEF PurgeDelete, DropRoom, DeleteRoom, ControlInv, connVars, storeVars,
           ghostVars
  <1>23. ASSUME PurgeRest PROVE CredentialInv'
    BY <1>23, StoreAssumption, ServerAssumption
       DEF PurgeRest, connVars, storeVars, ghostVars
  <1>24. ASSUME Crash PROVE CredentialInv'
    BY <1>24, StoreAssumption, ServerAssumption
       DEF Crash, NoPeer, Peer, Idle, Task, NoReq, Request, storeVars, ghostVars
  <1>25. ASSUME Tick PROVE CredentialInv'
    BY <1>25, StoreAssumption, ServerAssumption
       DEF Tick, connVars, storeVars, ghostVars
  <1>26. CASE UNCHANGED vars
    BY <1>26, StoreAssumption, ServerAssumption DEF vars, connVars, ghostVars,
       storeVars
  <1>27. QED
    BY <1>1, <1>2, <1>3, <1>4, <1>5, <1>6, <1>7, <1>8, <1>9, <1>10, <1>11, <1>12,
       <1>13, <1>14, <1>15, <1>16, <1>17, <1>18, <1>19, <1>20, <1>21, <1>22, <1>23,
       <1>24, <1>25, <1>26
       DEF Next, ConnNext, ReqNext, PurgeNext

LEMMA PoolSame == PoolInv /\ UNCHANGED storeVars => PoolInv'
  BY DEF PoolInv, NoOrphanRows, storeVars

\* The store's writes keep every challenge row under an existing room.
LEMMA PoolWrites ==
    ASSUME StoreTypeOK, PoolInv
    PROVE  /\ \A r \in RoomIds : DeleteRoom(r) => PoolInv'
           /\ \A r \in RoomIds, n \in Nat :
                 InsertSucceeds(r, n) /\ InsertChallenges(r, n) => PoolInv'
           /\ \A r \in RoomIds, i \in ChallengeIds : ConsumeChallenge(i, r) => PoolInv'
  <1> USE StoreAssumption DEF StoreTypeOK, PoolInv, NoOrphanRows
  <1>1. ASSUME NEW r \in RoomIds, DeleteRoom(r) PROVE PoolInv'
    BY <1>1 DEF DeleteRoom
  <1>2. ASSUME NEW r \in RoomIds, NEW n \in Nat, InsertSucceeds(r, n),
               InsertChallenges(r, n)
        PROVE  PoolInv'
    <2>1. CASE AddChallenges(r, n)
      BY <1>2, <2>1 DEF InsertSucceeds, AddChallenges, ChallengeIds
    <2>2. CASE UNCHANGED storeVars
      BY <2>2, PoolSame
    <2> QED
      BY <1>2, <2>1, <2>2 DEF InsertChallenges
  <1>3. ASSUME NEW r \in RoomIds, NEW i \in ChallengeIds, ConsumeChallenge(i, r)
        PROVE  PoolInv'
    BY <1>3 DEF ConsumeChallenge, UnusedChallenges
  <1> QED BY <1>1, <1>2, <1>3

LEMMA StepPool ==
    TypeOK /\ ControlInv /\ PoolInv /\ [Next]_vars => PoolInv'
  <1> SUFFICES ASSUME TypeOK, ControlInv, PoolInv, [Next]_vars
               PROVE  PoolInv'
    OBVIOUS
  <1> USE DEF TypeOK
  <1>1. ASSUME NEW c \in Conns, NEW r \in RoomIds, WsOpen(c, r) PROVE PoolInv'
    BY <1>1, PoolSame DEF WsOpen
  <1>2. ASSUME NEW c \in Conns, WsClose(c) PROVE PoolInv'
    BY <1>2, PoolSame DEF WsClose
  <1>3. ASSUME NEW c \in Conns, NEW t \in Tokens, HelloToken(c, t)
        PROVE  PoolInv'
    BY <1>3, PoolSame DEF HelloToken
  <1>4. ASSUME NEW c \in Conns, HelloFind(c) PROVE PoolInv'
    BY <1>4, PoolSame DEF HelloFind
  <1>5. ASSUME NEW c \in Conns, HelloCount(c) PROVE PoolInv'
    BY <1>5, PoolSame DEF HelloCount
  <1>6. ASSUME NEW c \in Conns, HelloConsume(c) PROVE PoolInv'
    <2>1. peers[c].room \in RoomIds
      BY <1>6, RecordTypes DEF HelloConsume, ControlInv, Connected, TypeOK, MaybeRoom
    <2> QED
      BY <1>6, <2>1, PoolWrites, PoolSame DEF HelloConsume
  <1>7. ASSUME NEW c \in Conns, NEW answer \in 0 .. MaxChallengeId,
               ChallengeResponse(c, answer)
        PROVE  PoolInv'
    BY <1>7
       DEF ChallengeResponse, InsertAccessToken, storeVars, PoolInv, NoOrphanRows
  <1>8. ASSUME NEW c \in Conns, BadFrame(c) PROVE PoolInv'
    BY <1>8, PoolSame DEF BadFrame
  <1>9. ASSUME NEW c \in Conns, MarkJoined(c) PROVE PoolInv'
    BY <1>9, PoolSame DEF MarkJoined
  <1>10. ASSUME NEW c \in Conns, FinishJoin(c) PROVE PoolInv'
    BY <1>10
       DEF FinishJoin, TouchRoom, PoolInv, NoOrphanRows
  <1>11. ASSUME NEW c \in Conns, SendMsg(c) PROVE PoolInv'
    BY <1>11
       DEF SendMsg, TouchRoom, PoolInv, NoOrphanRows
  <1>12. ASSUME NEW q \in Reqs, CreateCheck(q) PROVE PoolInv'
    BY <1>12, PoolSame DEF CreateCheck
  <1>13. ASSUME NEW q \in Reqs, NEW r \in RoomIds, NEW password \in BOOLEAN,
                CreateInsert(q, r, password)
        PROVE  PoolInv'
    BY <1>13
       DEF CreateInsert, CreateRoom, storeVars, PoolInv, NoOrphanRows
  <1>14. ASSUME NEW q \in Reqs, NEW r \in RoomIds, ActivateFind(q, r)
        PROVE  PoolInv'
    BY <1>14, PoolSame DEF ActivateFind
  <1>15. ASSUME NEW q \in Reqs, ActivateInsert(q) PROVE PoolInv'
    <2>1. req[q].room \in RoomIds /\ req[q].count \in Nat
      BY <1>15, RecordTypes DEF ActivateInsert, ControlInv, TypeOK
    <2> QED
      BY <1>15, <2>1, PoolWrites, PoolSame DEF ActivateInsert
  <1>16. ASSUME NEW q \in Reqs, ActivateCommit(q) PROVE PoolInv'
    BY <1>16
       DEF ActivateCommit, ActivateRoom, storeVars, PoolInv, NoOrphanRows
  <1>17. ASSUME NEW q \in Reqs, NEW r \in RoomIds, NEW t \in Tokens, DeleteCheck(q,
                r, t)
        PROVE  PoolInv'
    BY <1>17, PoolSame DEF DeleteCheck
  <1>18. ASSUME NEW q \in Reqs, DeleteClose(q) PROVE PoolInv'
    BY <1>18, PoolSame DEF DeleteClose
  <1>19. ASSUME NEW q \in Reqs, DeleteRow(q) PROVE PoolInv'
    BY <1>19, PoolWrites, PoolSame DEF DeleteRow, DropRoom, ControlInv
  <1>20. ASSUME PurgeSelect PROVE PoolInv'
    BY <1>20, PoolSame DEF PurgeSelect
  <1>21. ASSUME NEW r \in RoomIds, PurgeClose(r) PROVE PoolInv'
    BY <1>21, PoolSame DEF PurgeClose
  <1>22. ASSUME PurgeDelete PROVE PoolInv'
    BY <1>22, PoolWrites, PoolSame DEF PurgeDelete, DropRoom, ControlInv
  <1>23. ASSUME PurgeRest PROVE PoolInv'
    BY <1>23, PoolSame DEF PurgeRest
  <1>24. ASSUME Crash PROVE PoolInv'
    BY <1>24, PoolSame DEF Crash
  <1>25. ASSUME Tick PROVE PoolInv'
    BY <1>25
       DEF Tick, PoolInv, NoOrphanRows
  <1>26. CASE UNCHANGED vars
    BY <1>26, PoolSame DEF vars, connVars, ghostVars, storeVars
  <1>27. QED
    BY <1>1, <1>2, <1>3, <1>4, <1>5, <1>6, <1>7, <1>8, <1>9, <1>10, <1>11, <1>12,
       <1>13, <1>14, <1>15, <1>16, <1>17, <1>18, <1>19, <1>20, <1>21, <1>22, <1>23,
       <1>24, <1>25, <1>26
       DEF Next, ConnNext, ReqNext, PurgeNext

\* The effect of a challenge frame on the peer table.
LEMMA ChallengeEffect ==
    ASSUME TypeOK, NEW c \in Conns, NEW i, Challenge(c, i)
    PROVE  /\ peers'[c].expected = i /\ peers'[c].room = peers[c].room
           /\ \A d \in Conns : d # c => peers'[d] = peers[d]
  BY DEF TypeOK, Challenge, Peer

LEMMA ChallengeSame ==
    ChallengeInv /\ UNCHANGED <<storeVars, peers, ghostVars>> => ChallengeInv'
  BY DEF ChallengeInv, SpentInv, Spent, OneTokenPerChallenge, OneGuessPerChallenge,
         TokensAreEarned, storeVars, ghostVars

\* A decoy is nobody's challenge.
LEMMA DecoyKeeps ==
    ASSUME TypeOK, ChallengeInv, NEW c \in Conns, Challenge(c, Decoy),
           UNCHANGED <<storeVars, ghostVars>>
    PROVE  ChallengeInv'
  <1>1. Decoy \notin ChallengeIds
    BY StoreAssumption DEF Decoy, ChallengeIds
  <1> QED
    BY <1>1, ChallengeEffect
       DEF ChallengeInv, SpentInv, Spent, OneTokenPerChallenge, OneGuessPerChallenge,
           TokensAreEarned, storeVars, ghostVars

\* A consumed challenge was not spent: nobody holds it or has answered it.
LEMMA ConsumeKeeps ==
    ASSUME "consume" \notin Faults, TypeOK, CredentialInv, PoolInv, ChallengeInv,
           NEW c \in Conns, NEW i \in ChallengeIds, Connected(c),
           ConsumeChallenge(i, peers[c].room), Challenge(c, i), UNCHANGED ghostVars
    PROVE  ChallengeInv'
  <1>1. /\ poolOf[i] = peers[c].room /\ i \notin used /\ used' = used \cup {i}
        /\ UNCHANGED <<rooms, row, poolOf, lastChallenge, tokenRoom, now>>
    BY DEF ConsumeChallenge, UnusedChallenges, MayFail
  <1>2. poolOf[i] \in rooms /\ poolOf[i] \in drawn /\ i <= lastChallenge
    BY <1>1 DEF Connected, PoolInv, NoOrphanRows, CredentialInv, DrawnInv
  <1>3. poolOf[i] # NoRoom
    BY <1>1 DEF Connected
  <1>4. i \notin guessed
    BY <1>1, <1>3 DEF ChallengeInv, SpentInv, Spent
  <1>5. \A d \in Conns : peers[d].expected # i
    BY <1>1, <1>3 DEF ChallengeInv, SpentInv
  <1>6. SpentInv'
    BY <1>1, <1>2, ChallengeEffect DEF ChallengeInv, SpentInv, Spent, ghostVars
  <1>7. OneGuessPerChallenge'
    BY <1>4, <1>5, ChallengeEffect DEF ChallengeInv, OneGuessPerChallenge, ghostVars
  <1>8. OneTokenPerChallenge' /\ TokensAreEarned'
    BY <1>1 DEF ChallengeInv, OneTokenPerChallenge, TokensAreEarned, ghostVars
  <1> QED BY <1>6, <1>7, <1>8 DEF ChallengeInv

\* New challenges have ids nobody holds or has answered yet.
LEMMA InsertKeeps ==
    ASSUME TypeOK, PoolInv, ChallengeInv, NEW r, NEW n \in Nat, AddChallenges(r, n),
           UNCHANGED <<peers, ghostVars>>
    PROVE  ChallengeInv'
  <1>1. /\ lastChallenge <= lastChallenge'
        /\ \A i \in ChallengeIds : i <= lastChallenge => poolOf'[i] = poolOf[i]
        /\ UNCHANGED <<rooms, row, used, tokenRoom, now>>
    BY StoreAssumption DEF AddChallenges, TypeOK, StoreTypeOK, ChallengeIds
  <1>2. used \subseteq ChallengeIds /\ guessed \subseteq ChallengeIds
        /\ lastChallenge \in Nat /\ lastChallenge' \in Nat /\ ChallengeIds \subseteq Nat
    BY <1>1, StoreAssumption DEF TypeOK, StoreTypeOK, ChallengeIds, AddChallenges
  <1>3. SpentInv'
    <2>1. \A i \in ChallengeIds : i <= lastChallenge =>
             i <= lastChallenge' /\ poolOf'[i] = poolOf[i]
      BY <1>1, StoreAssumption DEF AddChallenges, TypeOK, StoreTypeOK, ChallengeIds
    <2>2. \A i \in guessed' : Spent(i)'
      BY <1>1, <1>2, <2>1 DEF ChallengeInv, SpentInv, Spent, ghostVars
    <2>3. \A c \in Conns : peers'[c].expected \in ChallengeIds =>
             /\ peers'[c].expected <= lastChallenge'
             /\ peers'[c].room \in drawn'
             /\ peers'[c].room \in rooms' =>
                   /\ peers'[c].expected \in used'
                   /\ poolOf'[peers'[c].expected] = peers'[c].room
             /\ peers'[c].room \notin rooms' => poolOf'[peers'[c].expected] = NoRoom
      BY <1>1, <2>1 DEF ChallengeInv, SpentInv, ghostVars
    <2> QED
      BY <2>2, <2>3 DEF ChallengeInv, SpentInv, ghostVars
  <1>4. \A i \in used : i <= lastChallenge
    BY <1>2 DEF PoolInv, NoOrphanRows
  <1>5. TokensAreEarned'
    BY <1>1, <1>2, <1>4 DEF ChallengeInv, TokensAreEarned, ghostVars
  <1>6. OneTokenPerChallenge' /\ OneGuessPerChallenge'
    BY DEF ChallengeInv, OneTokenPerChallenge, OneGuessPerChallenge, ghostVars
  <1> QED BY <1>3, <1>5, <1>6 DEF ChallengeInv

\* The cascade spends every challenge of the room and drops its tokens.
LEMMA DeleteKeeps ==
    ASSUME TypeOK, ChallengeInv, NEW r \in RoomIds, DeleteRoom(r),
           UNCHANGED <<peers, ghostVars>>
    PROVE  ChallengeInv'
  <1>1. /\ rooms' = rooms \ {r} /\ lastChallenge' = lastChallenge
        /\ \A i \in ChallengeIds :
              poolOf'[i] = IF poolOf[i] = r THEN NoRoom ELSE poolOf[i]
        /\ \A i : i \in used' <=> i \in used /\ poolOf[i] # r
        /\ \A t \in Tokens :
              tokenRoom'[t] = IF tokenRoom[t] = r THEN NoRoom ELSE tokenRoom[t]
    BY DEF DeleteRoom
  <1>2. used \subseteq ChallengeIds /\ guessed \subseteq ChallengeIds /\ NoRoom # r
    BY StoreAssumption DEF TypeOK, StoreTypeOK
  <1>3. SpentInv'
    BY <1>1, <1>2 DEF ChallengeInv, SpentInv, Spent, ghostVars
  <1>4. TokensAreEarned'
    BY <1>1, <1>2 DEF ChallengeInv, TokensAreEarned, ghostVars
  <1>5. OneTokenPerChallenge' /\ OneGuessPerChallenge'
    BY DEF ChallengeInv, OneTokenPerChallenge, OneGuessPerChallenge, ghostVars
  <1> QED BY <1>3, <1>4, <1>5 DEF ChallengeInv

\* An answer spends its challenge; a right one is the first for its token.
LEMMA AnswerKeeps ==
    ASSUME TypeOK, ControlInv, PendingInv, ChallengeInv, NEW c \in Conns,
           NEW answer \in 0 .. MaxChallengeId, ChallengeResponse(c, answer)
    PROVE  ChallengeInv'
  <1> DEFINE e == peers[c].expected
             t == peers[c].pending
  <1>1. /\ peers'[c].expected = NoChallenge
        /\ \A d \in Conns : d # c => peers'[d] = peers[d]
        /\ guessed' = guessed \cup ({e} \cap ChallengeIds)
        /\ drawn' = drawn
    BY DEF ChallengeResponse, TypeOK, Peer
  <1>2. NoChallenge \notin ChallengeIds /\ guessed \subseteq ChallengeIds
    BY DEF NoChallenge, ChallengeIds, TypeOK
  <1>3. e \in ChallengeIds => Spent(e)
    BY DEF ChallengeInv, SpentInv, Spent
  <1>4. OneGuessPerChallenge'
    BY <1>1, <1>2 DEF ChallengeInv, OneGuessPerChallenge
  <1>5. CASE UNCHANGED <<storeVars, minted>>
    BY <1>1, <1>2, <1>3, <1>4, <1>5
       DEF ChallengeInv, SpentInv, Spent, OneTokenPerChallenge, TokensAreEarned,
           storeVars
  <1>6. CASE /\ e \in ChallengeIds /\ peers[c].room \in rooms
             /\ InsertAccessToken(t, peers[c].room)
             /\ minted' = [minted EXCEPT ![t] = e]
    <2>1. /\ UNCHANGED <<rooms, row, poolOf, used, lastChallenge, now>>
          /\ tokenRoom' = [tokenRoom EXCEPT ![t] = peers[c].room]
      BY <1>6 DEF InsertAccessToken
    <2>2. t \in Tokens
      BY <1>2, <1>6 DEF ControlInv
    <2>3. /\ minted'[t] = e /\ tokenRoom'[t] = peers[c].room
          /\ \A s \in Tokens : s # t => minted'[s] = minted[s] /\ tokenRoom'[s] = tokenRoom[s]
      BY <1>6, <2>1, <2>2 DEF TypeOK, StoreTypeOK
    <2>4. \A s \in Tokens : s # t => minted[s] # e
      BY <1>2, <1>6 DEF ChallengeInv, SpentInv, OneGuessPerChallenge
    <2>5. OneTokenPerChallenge'
      BY <2>2, <2>3, <2>4 DEF ChallengeInv, OneTokenPerChallenge
    <2>6. TokensAreEarned'
      BY <1>6, <2>1, <2>3 DEF ChallengeInv, SpentInv, TokensAreEarned
    <2>7. SpentInv'
      BY <1>1, <1>2, <1>3, <1>6, <2>1, <2>3 DEF ChallengeInv, SpentInv, Spent
    <2> QED BY <1>4, <2>5, <2>6, <2>7 DEF ChallengeInv
  <1> QED
    <2>1. ASSUME answer # NoChallenge, answer = e PROVE e \in ChallengeIds
      BY <2>1, StoreAssumption DEF NoChallenge, ChallengeIds
    <2> QED
      BY <1>5, <1>6, <2>1 DEF ChallengeResponse, TokenInsertSucceeds

LEMMA StepChallenge ==
    "consume" \notin Faults /\ TypeOK /\ ControlInv /\ PendingInv /\ CredentialInv /\ PoolInv
    /\ ChallengeInv /\ [Next]_vars => ChallengeInv'
  <1> SUFFICES ASSUME "consume" \notin Faults, TypeOK, ControlInv, PendingInv,
                      CredentialInv, PoolInv, ChallengeInv, [Next]_vars
               PROVE  ChallengeInv'
    OBVIOUS
  <1> USE DEF TypeOK, StoreTypeOK, ChallengeInv, SpentInv, Spent, OneTokenPerChallenge,
            OneGuessPerChallenge, TokensAreEarned, ChallengeIds
  <1>1. ASSUME NEW c \in Conns, NEW r \in RoomIds, WsOpen(c, r)
        PROVE  ChallengeInv'
    BY <1>1, StoreAssumption, ServerAssumption
       DEF WsOpen, Peer, NoChallenge, storeVars, ghostVars
  <1>2. ASSUME NEW c \in Conns, WsClose(c) PROVE ChallengeInv'
    BY <1>2, StoreAssumption, ServerAssumption
       DEF WsClose, NoPeer, Peer, NoChallenge, storeVars, ghostVars
  <1>3. ASSUME NEW c \in Conns, NEW t \in Tokens, HelloToken(c, t)
        PROVE  ChallengeInv'
    BY <1>3, StoreAssumption, ServerAssumption
       DEF HelloToken, storeVars, ghostVars
  <1>4. ASSUME NEW c \in Conns, HelloFind(c) PROVE ChallengeInv'
    BY <1>4, DecoyKeeps, ChallengeSame DEF HelloFind
  <1>5. ASSUME NEW c \in Conns, HelloCount(c) PROVE ChallengeInv'
    BY <1>5, DecoyKeeps, ChallengeSame DEF HelloCount
  <1>6. ASSUME NEW c \in Conns, HelloConsume(c) PROVE ChallengeInv'
    <2>1. CASE Challenge(c, Decoy) /\ UNCHANGED <<storeVars, ghostVars>>
      BY <2>1, DecoyKeeps
    <2>2. ASSUME NEW i \in ChallengeIds, ConsumeChallenge(i, peers[c].room),
                 Challenge(c, i), UNCHANGED ghostVars
          PROVE  ChallengeInv'
      BY <1>6, <2>2, ConsumeKeeps DEF HelloConsume, ControlInv, Connected
    <2> QED
      BY <1>6, <2>1, <2>2 DEF HelloConsume
  <1>7. ASSUME NEW c \in Conns, NEW answer \in 0 .. MaxChallengeId,
               ChallengeResponse(c, answer)
        PROVE  ChallengeInv'
    BY <1>7, AnswerKeeps
  <1>8. ASSUME NEW c \in Conns, BadFrame(c) PROVE ChallengeInv'
    BY <1>8, StoreAssumption, ServerAssumption
       DEF BadFrame, storeVars, ghostVars
  <1>9. ASSUME NEW c \in Conns, MarkJoined(c) PROVE ChallengeInv'
    BY <1>9, StoreAssumption, ServerAssumption
       DEF MarkJoined, Peer, storeVars, ghostVars
  <1>10. ASSUME NEW c \in Conns, FinishJoin(c) PROVE ChallengeInv'
    BY <1>10, StoreAssumption, ServerAssumption
       DEF FinishJoin, TouchRoom, storeVars, ghostVars
  <1>11. ASSUME NEW c \in Conns, SendMsg(c) PROVE ChallengeInv'
    BY <1>11, StoreAssumption, ServerAssumption
       DEF SendMsg, TouchRoom, connVars, storeVars, ghostVars
  <1>12. ASSUME NEW q \in Reqs, CreateCheck(q) PROVE ChallengeInv'
    BY <1>12, StoreAssumption, ServerAssumption
       DEF CreateCheck, connVars, storeVars, ghostVars
  <1>13. ASSUME NEW q \in Reqs, NEW r \in RoomIds, NEW password \in BOOLEAN,
                CreateInsert(q, r, password)
        PROVE  ChallengeInv'
    BY <1>13, StoreAssumption, ServerAssumption
       DEF CreateInsert, CreateRoom, connVars, storeVars, ghostVars
  <1>14. ASSUME NEW q \in Reqs, NEW r \in RoomIds, ActivateFind(q, r)
        PROVE  ChallengeInv'
    BY <1>14, StoreAssumption, ServerAssumption
       DEF ActivateFind, connVars, storeVars, ghostVars
  <1>15. ASSUME NEW q \in Reqs, ActivateInsert(q) PROVE ChallengeInv'
    <2>1. req[q].count \in Nat
      BY RecordTypes
    <2> QED
      BY <1>15, <2>1, InsertKeeps, ChallengeSame
         DEF ActivateInsert, InsertChallenges, connVars
  <1>16. ASSUME NEW q \in Reqs, ActivateCommit(q) PROVE ChallengeInv'
    BY <1>16, StoreAssumption, ServerAssumption
       DEF ActivateCommit, ActivateRoom, connVars, storeVars, ghostVars
  <1>17. ASSUME NEW q \in Reqs, NEW r \in RoomIds, NEW t \in Tokens, DeleteCheck(q,
                r, t)
        PROVE  ChallengeInv'
    BY <1>17, StoreAssumption, ServerAssumption
       DEF DeleteCheck, connVars, storeVars, ghostVars
  <1>18. ASSUME NEW q \in Reqs, DeleteClose(q) PROVE ChallengeInv'
    BY <1>18, StoreAssumption, ServerAssumption
       DEF DeleteClose, storeVars, ghostVars
  <1>19. ASSUME NEW q \in Reqs, DeleteRow(q) PROVE ChallengeInv'
    BY <1>19, DeleteKeeps, ChallengeSame DEF DeleteRow, DropRoom, ControlInv, connVars
  <1>20. ASSUME PurgeSelect PROVE ChallengeInv'
    BY <1>20, StoreAssumption, ServerAssumption
       DEF PurgeSelect, connVars, storeVars, ghostVars
  <1>21. ASSUME NEW r \in RoomIds, PurgeClose(r) PROVE ChallengeInv'
    BY <1>21, StoreAssumption, ServerAssumption
       DEF PurgeClose, storeVars, ghostVars
  <1>22. ASSUME PurgeDelete PROVE ChallengeInv'
    BY <1>22, DeleteKeeps, ChallengeSame DEF PurgeDelete, DropRoom, ControlInv,
       connVars
  <1>23. ASSUME PurgeRest PROVE ChallengeInv'
    BY <1>23, StoreAssumption, ServerAssumption
       DEF PurgeRest, connVars, storeVars, ghostVars
  <1>24. ASSUME Crash PROVE ChallengeInv'
    BY <1>24, StoreAssumption, ServerAssumption
       DEF Crash, NoPeer, Peer, NoChallenge, storeVars, ghostVars
  <1>25. ASSUME Tick PROVE ChallengeInv'
    BY <1>25, StoreAssumption, ServerAssumption
       DEF Tick, connVars, storeVars, ghostVars
  <1>26. CASE UNCHANGED vars
    BY <1>26, StoreAssumption, ServerAssumption DEF vars, connVars, ghostVars,
       storeVars
  <1>27. QED
    BY <1>1, <1>2, <1>3, <1>4, <1>5, <1>6, <1>7, <1>8, <1>9, <1>10, <1>11, <1>12,
       <1>13, <1>14, <1>15, <1>16, <1>17, <1>18, <1>19, <1>20, <1>21, <1>22, <1>23,
       <1>24, <1>25, <1>26
       DEF Next, ConnNext, ReqNext, PurgeNext

----------------------------------------------------------------------------
(* The cap on the number of rooms.                                         *)

LEMMA CapFinite == TypeOK => IsFiniteSet(rooms) /\ IsFiniteSet(Creating)
  BY FS_Subset, ServerAssumption DEF TypeOK, StoreTypeOK, Creating

LEMMA CapSame == RoomsCapOvershoot /\ UNCHANGED <<rooms, req>> => RoomsCapOvershoot'
  BY DEF RoomsCapOvershoot, CountRooms, Creating

LEMMA CapShrinks ==
    ASSUME TypeOK, RoomsCapOvershoot, rooms' \subseteq rooms, Creating' \subseteq Creating
    PROVE  RoomsCapOvershoot'
  <1>1. Cardinality(rooms') <= Cardinality(rooms)
        /\ Cardinality(Creating') <= Cardinality(Creating)
    BY CapFinite, FS_Subset
  <1>2. IsFiniteSet(rooms') /\ IsFiniteSet(Creating')
    BY CapFinite, FS_Subset
  <1>3. /\ Cardinality(rooms) \in Nat /\ Cardinality(rooms') \in Nat
        /\ Cardinality(Creating) \in Nat /\ Cardinality(Creating') \in Nat
        /\ Cardinality(Reqs) \in Nat
    BY <1>2, CapFinite, FS_CardinalityType, ServerAssumption
  <1> QED
    BY <1>1, <1>3, ServerAssumption DEF RoomsCapOvershoot, CountRooms

LEMMA StepCap ==
    TypeOK /\ RoomsCapOvershoot /\ [Next]_vars => RoomsCapOvershoot'
  <1> SUFFICES ASSUME TypeOK, RoomsCapOvershoot, [Next]_vars
               PROVE  RoomsCapOvershoot'
    OBVIOUS
  <1> USE DEF TypeOK
  <1>1. ASSUME NEW c \in Conns, NEW r \in RoomIds, WsOpen(c, r)
        PROVE  RoomsCapOvershoot'
    BY <1>1, CapSame DEF WsOpen, storeVars
  <1>2. ASSUME NEW c \in Conns, WsClose(c) PROVE RoomsCapOvershoot'
    BY <1>2, CapSame DEF WsClose, storeVars
  <1>3. ASSUME NEW c \in Conns, NEW t \in Tokens, HelloToken(c, t)
        PROVE  RoomsCapOvershoot'
    BY <1>3, CapSame DEF HelloToken, storeVars
  <1>4. ASSUME NEW c \in Conns, HelloFind(c) PROVE RoomsCapOvershoot'
    BY <1>4, CapSame DEF HelloFind, storeVars
  <1>5. ASSUME NEW c \in Conns, HelloCount(c) PROVE RoomsCapOvershoot'
    BY <1>5, CapSame DEF HelloCount, storeVars
  <1>6. ASSUME NEW c \in Conns, HelloConsume(c) PROVE RoomsCapOvershoot'
    BY <1>6, CapSame DEF HelloConsume, ConsumeChallenge, storeVars
  <1>7. ASSUME NEW c \in Conns, NEW answer \in 0 .. MaxChallengeId,
               ChallengeResponse(c, answer)
        PROVE  RoomsCapOvershoot'
    BY <1>7, CapSame DEF ChallengeResponse, InsertAccessToken, storeVars
  <1>8. ASSUME NEW c \in Conns, BadFrame(c) PROVE RoomsCapOvershoot'
    BY <1>8, CapSame DEF BadFrame, storeVars
  <1>9. ASSUME NEW c \in Conns, MarkJoined(c) PROVE RoomsCapOvershoot'
    BY <1>9, CapSame DEF MarkJoined, storeVars
  <1>10. ASSUME NEW c \in Conns, FinishJoin(c) PROVE RoomsCapOvershoot'
    BY <1>10, CapSame DEF FinishJoin, TouchRoom
  <1>11. ASSUME NEW c \in Conns, SendMsg(c) PROVE RoomsCapOvershoot'
    BY <1>11, CapSame DEF SendMsg, TouchRoom
  <1>12. ASSUME NEW q \in Reqs, CreateCheck(q) PROVE RoomsCapOvershoot'
    <2>1. CountRooms' = CountRooms /\ (TotalRoomsCap > 0 => CountRooms < TotalRoomsCap)
      BY <1>12, ServerAssumption DEF CreateCheck, UnderCap, CountRooms, storeVars
    <2>2. IsFiniteSet(Creating') /\ Cardinality(Creating') <= Cardinality(Reqs)
      BY FS_Subset, ServerAssumption DEF Creating
    <2>3. CountRooms \in Nat /\ Cardinality(Reqs) \in Nat /\ Cardinality(Creating') \in Nat
      BY <2>2, CapFinite, FS_CardinalityType, ServerAssumption DEF CountRooms
    <2> QED
      BY <2>1, <2>2, <2>3, ServerAssumption DEF RoomsCapOvershoot
  <1>13. ASSUME NEW q \in Reqs, NEW r \in RoomIds, NEW password \in BOOLEAN,
                CreateInsert(q, r, password)
        PROVE  RoomsCapOvershoot'
    <2>1. q \in Creating /\ Creating' = Creating \ {q}
      BY <1>13 DEF CreateInsert, Creating, NoReq, Request
    <2>2. Cardinality(Creating') = Cardinality(Creating) - 1
      BY <2>1, CapFinite, FS_RemoveElement
    <2>3. CountRooms' <= CountRooms + 1
      <3>1. CASE rooms' = rooms
        BY <3>1, CapFinite, FS_CardinalityType DEF CountRooms
      <3>2. CASE rooms' = rooms \cup {r}
        <4>1. IsFiniteSet(rooms) /\ Cardinality(rooms) \in Nat
          BY CapFinite, FS_CardinalityType
        <4>2. Cardinality(rooms') = IF r \in rooms THEN Cardinality(rooms)
                                                  ELSE Cardinality(rooms) + 1
          BY <3>2, <4>1, FS_AddElement
        <4> QED BY <4>1, <4>2 DEF CountRooms
      <3> QED
        BY <1>13, <3>1, <3>2 DEF CreateInsert, CreateRoom, storeVars
    <2>4. IsFiniteSet(rooms')
      BY <1>13, CapFinite, FS_AddElement DEF CreateInsert, CreateRoom, storeVars
    <2>5. /\ CountRooms \in Nat /\ CountRooms' \in Nat
          /\ Cardinality(Creating) \in Nat /\ Cardinality(Reqs) \in Nat
      BY <2>4, CapFinite, FS_CardinalityType, ServerAssumption DEF CountRooms
    <2> QED
      BY <2>2, <2>3, <2>5, ServerAssumption DEF RoomsCapOvershoot
  <1>14. ASSUME NEW q \in Reqs, NEW r \in RoomIds, ActivateFind(q, r)
        PROVE  RoomsCapOvershoot'
    <2>1. Creating' \subseteq Creating /\ rooms' = rooms
      BY <1>14 DEF ActivateFind, Creating, Request, storeVars
    <2> QED
      BY <2>1, CapShrinks
  <1>15. ASSUME NEW q \in Reqs, ActivateInsert(q) PROVE RoomsCapOvershoot'
    <2>1. Creating' \subseteq Creating /\ rooms' = rooms
      BY <1>15 DEF ActivateInsert, Creating, Request, InsertChallenges, AddChallenges, NoReq,
         storeVars
    <2> QED
      BY <2>1, CapShrinks
  <1>16. ASSUME NEW q \in Reqs, ActivateCommit(q) PROVE RoomsCapOvershoot'
    <2>1. Creating' \subseteq Creating /\ rooms' = rooms
      BY <1>16 DEF ActivateCommit, Creating, Request, ActivateRoom, NoReq, storeVars
    <2> QED
      BY <2>1, CapShrinks
  <1>17. ASSUME NEW q \in Reqs, NEW r \in RoomIds, NEW t \in Tokens, DeleteCheck(q,
                r, t)
        PROVE  RoomsCapOvershoot'
    <2>1. Creating' \subseteq Creating /\ rooms' = rooms
      BY <1>17 DEF DeleteCheck, Creating, Request, storeVars
    <2> QED
      BY <2>1, CapShrinks
  <1>18. ASSUME NEW q \in Reqs, DeleteClose(q) PROVE RoomsCapOvershoot'
    <2>1. Creating' \subseteq Creating /\ rooms' = rooms
      BY <1>18 DEF DeleteClose, Creating, Request, storeVars
    <2> QED
      BY <2>1, CapShrinks
  <1>19. ASSUME NEW q \in Reqs, DeleteRow(q) PROVE RoomsCapOvershoot'
    <2>1. Creating' \subseteq Creating /\ rooms' \subseteq rooms
      BY <1>19 DEF DeleteRow, DropRoom, DeleteRoom, Creating, NoReq, Request,
         storeVars
    <2> QED
      BY <2>1, CapShrinks
  <1>20. ASSUME PurgeSelect PROVE RoomsCapOvershoot'
    BY <1>20, CapSame DEF PurgeSelect, storeVars
  <1>21. ASSUME NEW r \in RoomIds, PurgeClose(r) PROVE RoomsCapOvershoot'
    BY <1>21, CapSame DEF PurgeClose, storeVars
  <1>22. ASSUME PurgeDelete PROVE RoomsCapOvershoot'
    <2>1. Creating' \subseteq Creating /\ rooms' \subseteq rooms
      BY <1>22 DEF PurgeDelete, DropRoom, DeleteRoom, Creating, storeVars
    <2> QED
      BY <2>1, CapShrinks
  <1>23. ASSUME PurgeRest PROVE RoomsCapOvershoot'
    BY <1>23, CapSame DEF PurgeRest, storeVars
  <1>24. ASSUME Crash PROVE RoomsCapOvershoot'
    <2>1. Creating' \subseteq Creating /\ rooms' = rooms
      BY <1>24 DEF Crash, Creating, NoReq, Request, storeVars
    <2> QED
      BY <2>1, CapShrinks
  <1>25. ASSUME Tick PROVE RoomsCapOvershoot'
    BY <1>25, CapSame DEF Tick
  <1>26. CASE UNCHANGED vars
    BY <1>26, CapSame DEF vars, connVars, ghostVars, storeVars
  <1>27. QED
    BY <1>1, <1>2, <1>3, <1>4, <1>5, <1>6, <1>7, <1>8, <1>9, <1>10, <1>11, <1>12,
       <1>13, <1>14, <1>15, <1>16, <1>17, <1>18, <1>19, <1>20, <1>21, <1>22, <1>23,
       <1>24, <1>25, <1>26
       DEF Next, ConnNext, ReqNext, PurgeNext

----------------------------------------------------------------------------
(* A room is activated after its pool is there.                            *)

PoolRows(r) == {i \in ChallengeIds : poolOf[i] = r}
HasPool(r) == Cardinality(PoolRows(r)) >= Required(r)

\* What an activation under way knows stays true of its room: neither the
\* columns that fix the size of the pool nor the pool's rows change while the
\* room is there, and a room that is gone does not come back.
ActivationInv ==
    /\ \A q \in Reqs : req[q].at \in {"insert", "activate"} => req[q].room \in drawn
    /\ \A q \in Reqs : req[q].at = "insert" /\ req[q].room \in rooms =>
          req[q].count = Required(req[q].room)
    /\ \A q \in Reqs : req[q].at = "activate" /\ req[q].room \in rooms => HasPool(req[q].room)
    /\ \A r \in rooms : row[r].activated => HasPool(r)

LEMMA PoolFinite == IsFiniteSet(ChallengeIds) /\ \A r : IsFiniteSet(PoolRows(r))
  <1>1. IsFiniteSet(ChallengeIds)
    BY FS_Interval, StoreAssumption DEF ChallengeIds
  <1> QED
    BY <1>1, FS_Subset DEF PoolRows

\* A pool that only grows stays large enough.
LEMMA PoolStays ==
    ASSUME TypeOK, NEW r \in rooms, HasPool(r), Required(r)' = Required(r),
           PoolRows(r) \subseteq PoolRows(r)'
    PROVE  HasPool(r)'
  <1>1. Cardinality(PoolRows(r)) <= Cardinality(PoolRows(r)')
    <2>1. IsFiniteSet(PoolRows(r)')
      BY PoolFinite, FS_Subset DEF PoolRows
    <2> QED
      BY <2>1, FS_Subset
  <1>2. Cardinality(PoolRows(r)) \in Nat /\ Cardinality(PoolRows(r)') \in Nat
    <2>1. IsFiniteSet(PoolRows(r)) /\ IsFiniteSet(PoolRows(r)')
      BY PoolFinite, FS_Subset DEF PoolRows
    <2> QED
      BY <2>1, FS_CardinalityType
  <1>3. Required(r) \in Nat
    BY ServerAssumption DEF Required, TypeOK, StoreTypeOK, RoomRow
  <1> QED
    BY <1>1, <1>2, <1>3 DEF HasPool

\* A step that founds no room, activates none and takes no row of a room that
\* stays.
KeepsPools ==
    /\ rooms' \subseteq rooms
    /\ \A r \in rooms' : /\ row'[r].maxParticipants = row[r].maxParticipants
                         /\ row'[r].requiresPassword = row[r].requiresPassword
                         /\ row'[r].activated = row[r].activated
                         /\ PoolRows(r) \subseteq PoolRows(r)'
    /\ drawn' = drawn

LEMMA PoolsKept ==
    ASSUME TypeOK, ActivationInv, KeepsPools,
           \A q \in Reqs : req'[q] = req[q] \/ req'[q].at \notin {"insert", "activate"}
    PROVE  ActivationInv'
  <1>1. \A r \in rooms' : r \in rooms /\ Required(r)' = Required(r)
    BY DEF KeepsPools, Required
  <1>2. \A r \in rooms' : HasPool(r) => HasPool(r)'
    BY <1>1, PoolStays DEF KeepsPools
  <1> QED
    BY <1>1, <1>2 DEF ActivationInv, KeepsPools

LEMMA PoolsSame == UNCHANGED <<storeVars, drawn>> => KeepsPools
  BY DEF KeepsPools, PoolRows, storeVars

LEMMA TouchKeepsPools ==
    ASSUME TypeOK, NEW r, TouchRoom(r), UNCHANGED drawn
    PROVE  KeepsPools
  <1>1. \A x \in rooms : /\ row'[x].maxParticipants = row[x].maxParticipants
                         /\ row'[x].requiresPassword = row[x].requiresPassword
                         /\ row'[x].activated = row[x].activated
    BY DEF TouchRoom, TypeOK, StoreTypeOK, RoomRow
  <1> QED
    BY <1>1 DEF TouchRoom, KeepsPools, PoolRows

LEMMA DropKeepsPools ==
    ASSUME TypeOK, NEW r, DropRoom(r), UNCHANGED drawn
    PROVE  KeepsPools
  <1>1. CASE UNCHANGED storeVars
    BY <1>1, PoolsSame
  <1>2. CASE DeleteRoom(r)
    <2>1. /\ rooms' = rooms \ {r}
          /\ \A x \in rooms' : row'[x] = row[x]
      BY <1>2 DEF DeleteRoom, TypeOK, StoreTypeOK
    <2>2. \A x \in rooms' : PoolRows(x) \subseteq PoolRows(x)'
      BY <1>2, <2>1 DEF DeleteRoom, PoolRows, TypeOK, StoreTypeOK
    <2> QED
      BY <2>1, <2>2 DEF KeepsPools
  <1> QED
    BY <1>1, <1>2 DEF DropRoom

\* The rows of one transaction are as many as it was told to insert.
LEMMA InsertFillsPool ==
    ASSUME TypeOK, PoolInv, NEW r \in RoomIds, NEW n \in Nat, AddChallenges(r, n)
    PROVE  /\ \A x \in RoomIds : PoolRows(x) \subseteq PoolRows(x)'
           /\ Cardinality(PoolRows(r)') >= n
  <1> DEFINE fresh == (lastChallenge + 1) .. (lastChallenge + n)
  <1>1. lastChallenge \in Nat /\ lastChallenge + n <= MaxChallengeId
    BY StoreAssumption DEF AddChallenges, TypeOK, StoreTypeOK
  <1>2. \A i \in ChallengeIds : poolOf'[i] = IF i \in fresh THEN r ELSE poolOf[i]
    BY <1>1, StoreAssumption DEF AddChallenges, ChallengeIds, TypeOK, StoreTypeOK
  <1>3. fresh \subseteq PoolRows(r)'
    BY <1>1, <1>2, StoreAssumption DEF PoolRows, ChallengeIds
  <1>4. \A i \in fresh : poolOf[i] = NoRoom
    BY <1>1, StoreAssumption DEF PoolInv, ChallengeIds
  <1>5. \A x \in RoomIds : PoolRows(x) \subseteq PoolRows(x)'
    BY <1>2, <1>4, StoreAssumption DEF PoolRows
  <1>6. IsFiniteSet(PoolRows(r)')
    BY PoolFinite, FS_Subset DEF PoolRows
  <1>7. Cardinality(fresh) = n
    BY <1>1, FS_Interval
  <1>8. Cardinality(fresh) <= Cardinality(PoolRows(r)')
    BY <1>3, <1>6, FS_Subset
  <1>9. Cardinality(PoolRows(r)') \in Nat
    BY <1>6, FS_CardinalityType
  <1> QED
    BY <1>5, <1>7, <1>8, <1>9

LEMMA StepActivation ==
    "commit" \notin Faults /\ TypeOK /\ ControlInv /\ DrawnInv /\ PoolInv /\ ActivationInv
       /\ [Next]_vars => ActivationInv'
  <1> SUFFICES ASSUME "commit" \notin Faults, TypeOK, ControlInv, DrawnInv, PoolInv,
                      ActivationInv, [Next]_vars
               PROVE  ActivationInv'
    OBVIOUS
  <1>1. ASSUME NEW c \in Conns, ConnNext(c) PROVE ActivationInv'
    <2>1. UNCHANGED <<req, drawn>>
      BY <1>1
         DEF ConnNext, WsOpen, WsClose, HelloToken, HelloFind, HelloCount, HelloConsume,
             ChallengeResponse, BadFrame, MarkJoined, FinishJoin, SendMsg, ghostVars
    <2>2. CASE UNCHANGED storeVars
      BY <2>1, <2>2, PoolsSame, PoolsKept
    <2>3. CASE FinishJoin(c) \/ SendMsg(c)
      BY <2>1, <2>3, TouchKeepsPools, PoolsKept DEF FinishJoin, SendMsg
    <2>4. CASE HelloConsume(c) \/ \E answer \in 0 .. MaxChallengeId : ChallengeResponse(c, answer)
      <3>1. UNCHANGED <<rooms, row, poolOf>>
        BY <2>4 DEF HelloConsume, ConsumeChallenge, ChallengeResponse, InsertAccessToken, storeVars
      <3>2. KeepsPools
        BY <2>1, <3>1 DEF KeepsPools, PoolRows
      <3> QED
        BY <2>1, <3>2, PoolsKept
    <2> QED
      BY <1>1, <2>2, <2>3, <2>4
         DEF ConnNext, WsOpen, WsClose, HelloToken, HelloFind, HelloCount, BadFrame, MarkJoined
  <1>2. ASSUME NEW q \in Reqs, CreateCheck(q) PROVE ActivationInv'
    <2>1. /\ req' = [req EXCEPT ![q] = Request("create", NoRoom, NoToken, 0)]
          /\ UNCHANGED <<storeVars, drawn>>
      BY <1>2 DEF CreateCheck, ghostVars
    <2> QED
      BY <2>1, PoolsSame, PoolsKept DEF Request, TypeOK
  <1>3. ASSUME NEW q \in Reqs, NEW r \in RoomIds, NEW password \in BOOLEAN,
               CreateInsert(q, r, password)
        PROVE  ActivationInv'
    <2>1. /\ r \notin drawn /\ drawn' = drawn \cup {r}
          /\ req' = [req EXCEPT ![q] = NoReq]
      BY <1>3 DEF CreateInsert
    <2>2. r \notin rooms
      BY <2>1 DEF DrawnInv
    <2>3. /\ rooms' \subseteq rooms \cup {r}
          /\ \A x \in rooms : row'[x] = row[x]
          /\ r \in rooms' => ~row'[r].activated
          /\ poolOf' = poolOf
      BY <1>3, <2>2 DEF CreateInsert, CreateRoom, storeVars, TypeOK, StoreTypeOK
    <2>4. \A x \in rooms : Required(x)' = Required(x) /\ PoolRows(x) \subseteq PoolRows(x)'
      BY <2>3 DEF Required, PoolRows
    <2>5. \A x \in rooms : HasPool(x) => HasPool(x)'
      BY <2>4, PoolStays
    <2>6. \A x \in Reqs : req'[x] = req[x] \/ req'[x].at = "none"
      BY <2>1 DEF TypeOK, NoReq, Request
    <2> QED
      BY <2>1, <2>2, <2>3, <2>4, <2>5, <2>6 DEF ActivationInv
  <1>4. ASSUME NEW q \in Reqs, NEW r \in RoomIds, ActivateFind(q, r) PROVE ActivationInv'
    <2>1. /\ r \in rooms /\ UNCHANGED <<storeVars, drawn>>
          /\ req' = [req EXCEPT ![q] = Request("insert", r, NoToken, Required(r))]
      BY <1>4 DEF ActivateFind, RoomExists, ghostVars
    <2>2. \A x \in rooms : Required(x)' = Required(x) /\ (HasPool(x) => HasPool(x)')
      BY <2>1 DEF storeVars, Required, HasPool, PoolRows
    <2>3. /\ \A x \in Reqs \ {q} : req'[x] = req[x]
          /\ req'[q].at = "insert" /\ req'[q].room = r /\ req'[q].count = Required(r)
      BY <2>1 DEF TypeOK, Request
    <2> QED
      BY <2>1, <2>2, <2>3 DEF ActivationInv, DrawnInv, storeVars
  <1>5. ASSUME NEW q \in Reqs, ActivateInsert(q) PROVE ActivationInv'
    <2>0. req[q].at = "insert" /\ UNCHANGED drawn
      BY <1>5 DEF ActivateInsert, ghostVars
    <2>1. PICK r \in RoomIds, n \in Nat : r = req[q].room /\ n = req[q].count
      BY <2>0, RecordTypes DEF ControlInv, TypeOK
    <2>2. CASE req' = [req EXCEPT ![q] = NoReq] /\ UNCHANGED storeVars
      BY <2>0, <2>2, PoolsSame, PoolsKept DEF NoReq, Request, TypeOK
    <2>3. CASE /\ AddChallenges(r, n)
               /\ req' = [req EXCEPT ![q] = Request("activate", r, NoToken, n)]
      <3>1. UNCHANGED <<rooms, row>>
        BY <2>3 DEF AddChallenges
      <3>2. /\ \A x \in RoomIds : PoolRows(x) \subseteq PoolRows(x)'
            /\ Cardinality(PoolRows(r)') >= n
        BY <2>1, <2>3, InsertFillsPool
      <3>3. \A x \in rooms : Required(x)' = Required(x) /\ (HasPool(x) => HasPool(x)')
        BY <3>1, <3>2, PoolStays DEF Required, TypeOK, StoreTypeOK
      <3>4. r \in rooms => HasPool(r)'
        BY <2>0, <2>1, <3>2, <3>3 DEF ActivationInv, HasPool
      <3>5. /\ \A x \in Reqs \ {q} : req'[x] = req[x]
            /\ req'[q].at = "activate" /\ req'[q].room = r
        BY <2>3 DEF TypeOK, Request
      <3> QED
        BY <2>0, <2>1, <3>1, <3>3, <3>4, <3>5 DEF ActivationInv
    <2> QED
      BY <1>5, <2>1, <2>2, <2>3 DEF ActivateInsert, InsertChallenges, MayFail
  <1>6. ASSUME NEW q \in Reqs, ActivateCommit(q) PROVE ActivationInv'
    <2> DEFINE r == req[q].room
    <2>1. /\ req' = [req EXCEPT ![q] = NoReq] /\ req[q].at = "activate" /\ UNCHANGED drawn
          /\ \A x \in Reqs : req'[x] = req[x] \/ req'[x].at = "none"
      BY <1>6 DEF ActivateCommit, NoReq, Request, ghostVars, TypeOK
    <2>2. CASE UNCHANGED storeVars
      BY <2>1, <2>2, PoolsSame, PoolsKept
    <2>3. CASE r \in rooms /\ ActivateRoom(r)
      <3>1. /\ UNCHANGED <<rooms, poolOf>>
            /\ \A x \in rooms : /\ row'[x].maxParticipants = row[x].maxParticipants
                                /\ row'[x].requiresPassword = row[x].requiresPassword
                                /\ x # r => row'[x].activated = row[x].activated
        BY <2>3 DEF ActivateRoom, TypeOK, StoreTypeOK, RoomRow
      <3>2. \A x \in rooms : Required(x)' = Required(x) /\ PoolRows(x) \subseteq PoolRows(x)'
        BY <3>1 DEF Required, PoolRows
      <3>3. \A x \in rooms : HasPool(x) => HasPool(x)'
        BY <3>2, PoolStays
      <3>4. HasPool(r)
        BY <2>1, <2>3 DEF ActivationInv
      <3> QED
        BY <2>1, <3>1, <3>2, <3>3, <3>4 DEF ActivationInv
    <2> QED
      BY <1>6, <2>2, <2>3 DEF ActivateCommit, ActivateSucceeds
  <1>7. ASSUME NEW q \in Reqs,
               \/ DeleteRow(q) \/ DeleteClose(q)
               \/ \E r \in RoomIds, t \in Tokens : DeleteCheck(q, r, t)
        PROVE  ActivationInv'
    <2>1. UNCHANGED drawn
      BY <1>7 DEF DeleteRow, DeleteClose, DeleteCheck, ghostVars
    <2>2. \A x \in Reqs : req'[x] = req[x] \/ req'[x].at \notin {"insert", "activate"}
      BY <1>7 DEF DeleteRow, DeleteClose, DeleteCheck, NoReq, Request, TypeOK
    <2>3. KeepsPools
      BY <1>7, <2>1, PoolsSame, DropKeepsPools DEF DeleteRow, DeleteClose, DeleteCheck
    <2> QED
      BY <2>2, <2>3, PoolsKept
  <1>8. CASE PurgeNext
    <2>1. UNCHANGED <<req, drawn>>
      BY <1>8 DEF PurgeNext, PurgeSelect, PurgeClose, PurgeDelete, PurgeRest, ghostVars
    <2>2. KeepsPools
      BY <1>8, <2>1, PoolsSame, DropKeepsPools
         DEF PurgeNext, PurgeSelect, PurgeClose, PurgeDelete, PurgeRest
    <2> QED
      BY <2>1, <2>2, PoolsKept
  <1>9. CASE Crash
    BY <1>9, PoolsSame, PoolsKept DEF Crash, NoReq, Request
  <1>10. CASE Tick
    <2>1. KeepsPools
      BY <1>10 DEF Tick, KeepsPools, PoolRows, ghostVars
    <2> QED
      BY <1>10, <2>1, PoolsKept DEF Tick
  <1>11. CASE UNCHANGED vars
    BY <1>11, PoolsSame, PoolsKept DEF vars, ghostVars
  <1> QED
    BY <1>1, <1>2, <1>3, <1>4, <1>5, <1>6, <1>7, <1>8, <1>9, <1>10, <1>11 DEF Next, ReqNext

----------------------------------------------------------------------------
(* The theorems.                                                           *)

\* The inductive invariant of the credentials.
SessionInv == TypeOK /\ ControlInv /\ PendingInv /\ CredentialInv /\ PoolInv

LEMMA InitSession == Init => SessionInv /\ ChallengeInv /\ RoomsCapOvershoot
  <1> SUFFICES ASSUME Init PROVE SessionInv /\ ChallengeInv /\ RoomsCapOvershoot
    OBVIOUS
  <1>1. TypeOK
    BY InitType
  <1>2. ControlInv
    BY DEF Init, ControlInv, Connected, NoPeer, Peer, Idle, Task, NoReq, Request,
       Asleep,
           Purging
  <1>3. PendingInv /\ PoolInv
    BY ServerAssumption
       DEF Init, StoreInit, PendingInv, PoolInv, NoOrphanRows, NoPeer, Peer
  <1>4. CredentialInv
    BY DEF Init, StoreInit, CredentialInv, DrawnInv, JoinedHoldsToken,
       DeleteIsAuthorised,
           NoPeer, Peer, Idle, Task, NoReq, Request
  <1>5. ChallengeInv
    BY DEF Init, StoreInit, ChallengeInv, SpentInv, OneTokenPerChallenge,
           OneGuessPerChallenge, TokensAreEarned, NoPeer, Peer, NoChallenge, ChallengeIds
  <1>6. Creating = {} /\ rooms = {}
    BY DEF Init, StoreInit, Creating, NoReq, Request
  <1>7. RoomsCapOvershoot
    BY <1>6, FS_EmptySet, FS_CardinalityType, ServerAssumption
       DEF RoomsCapOvershoot, CountRooms
  <1> QED BY <1>1, <1>2, <1>3, <1>4, <1>5, <1>7 DEF SessionInv

LEMMA StepSession == SessionInv /\ [Next]_vars => SessionInv'
  BY StepType, StepControl, StepPending, StepCredential, StepPool DEF SessionInv

LEMMA SessionHolds == Spec => []SessionInv
  BY InitSession, StepSession, PTL DEF Spec

\* Whoever is joined, or is about to be, holds a token of that room, unless
\* the room was deleted after the token was checked (webapi.cpp hello,
\* challenge_response, finalizeJoin), whatever writes fail.
THEOREM JoinedPeersHoldTokens == Spec => []JoinedHoldsToken
  <1>1. SessionInv => JoinedHoldsToken
    BY DEF SessionInv, CredentialInv
  <1> QED BY SessionHolds, <1>1, PTL

\* A DELETE past its check has a token of the room it is about to remove, or
\* the room is gone already (webapi.cpp DELETE).
THEOREM DeletesAreAuthorised == Spec => []DeleteIsAuthorised
  <1>1. SessionInv => DeleteIsAuthorised
    BY DEF SessionInv, CredentialInv
  <1> QED BY SessionHolds, <1>1, PTL

\* Challenge rows never outlive their room, whatever handlers race with the
\* deletion (db.cpp foreign keys; activate against DELETE and the purger).
THEOREM RowsAreNeverOrphaned == Spec => []NoOrphanRows
  <1>1. SessionInv => NoOrphanRows
    BY DEF SessionInv, PoolInv
  <1> QED BY SessionHolds, <1>1, PTL

\* If the UPDATE of consumeChallenge does not fail, the challenge pool is a
\* pool of one-time credentials.
LEMMA ChallengesHold ==
    ASSUME "consume" \notin Faults
    PROVE  Spec => []ChallengeInv
  <1>1. Init => SessionInv /\ ChallengeInv
    BY InitSession
  <1>2. SessionInv /\ ChallengeInv /\ [Next]_vars => SessionInv' /\ ChallengeInv'
    BY StepSession, StepChallenge DEF SessionInv
  <1> QED BY <1>1, <1>2, PTL DEF Spec

\* A challenge buys one token, across restarts and any interleaving, unless
\* its UPDATE fails (db.cpp consumeChallenge, webapi.cpp challenge_response).
THEOREM ChallengesAreOneTime ==
    ASSUME "consume" \notin Faults
    PROVE  Spec => []OneTokenPerChallenge
  <1>1. ChallengeInv => OneTokenPerChallenge
    BY DEF ChallengeInv
  <1> QED BY <1>1, ChallengesHold, PTL

\* A challenge takes one answer, right or wrong, and no two peers ever hold
\* the same one (webapi.cpp hello, challenge_response).
THEOREM GuessesAreBounded ==
    ASSUME "consume" \notin Faults
    PROVE  Spec => []OneGuessPerChallenge
  <1>1. ChallengeInv => OneGuessPerChallenge
    BY DEF ChallengeInv
  <1> QED BY <1>1, ChallengesHold, PTL

\* Every token row is backed by a consumed challenge of its own room, which
\* exists (webapi.cpp challenge_response, db.cpp deleteRoom's cascade).
THEOREM TokensStayEarned ==
    ASSUME "consume" \notin Faults
    PROVE  Spec => []TokensAreEarned
  <1>1. ChallengeInv => TokensAreEarned
    BY DEF ChallengeInv
  <1> QED BY <1>1, ChallengesHold, PTL

\* If the COMMIT of insertChallenges does not fail, a room is active only with
\* the whole pool its creator had to hand in, also when the server dies or
\* another write fails between the two writes (webapi.cpp activate).
THEOREM PoolsComeFirst ==
    ASSUME "commit" \notin Faults
    PROVE  Spec => []PoolBeforeActivation
  <1>1. Init => ActivationInv
    BY DEF Init, StoreInit, ActivationInv, NoReq, Request
  <1>2. SessionInv /\ ActivationInv /\ [Next]_vars => ActivationInv'
    BY StepActivation DEF SessionInv, CredentialInv
  <1>3. ActivationInv => PoolBeforeActivation
    BY DEF ActivationInv, PoolBeforeActivation, HasPool, PoolRows
  <1> QED
    BY <1>1, <1>2, <1>3, SessionHolds, PTL DEF Spec

\* The cap on rooms is exceeded by fewer rooms than there are requests in
\* flight (webapi.cpp POST /api/rooms).
THEOREM RoomsStayNearCap == Spec => []RoomsCapOvershoot
  BY InitType, InitSession, StepType, StepCap, PTL DEF Spec

=============================================================================
