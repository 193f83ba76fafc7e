------------------------ MODULE RoomRefinementProofs ------------------------
(***************************************************************************)
(* RoomServer implements RoomContract, for any constants: the initial      *)
(* states agree, and a step of the server is a step the contract allows    *)
(* or changes nothing the contract speaks of.                              *)
(***************************************************************************)
EXTENDS RoomRefinement, RoomServerProofs

\* A handler about to mark its peer joined does so for the first time, with a
\* token that was bought.
EntryInv ==
    \A c \in Conns : task[c].at = "mark" =>
        ~peers[c].joined /\ minted[task[c].token] # NoChallenge

RefinementInv == SessionInv /\ ChallengeInv /\ EntryInv

LEMMA InitEntry == Init => EntryInv
  BY DEF Init, EntryInv, Idle, Task

\* A connection whose handler, peer and token stay as they are.
LEMMA EntryKept ==
    ASSUME TypeOK, ControlInv, EntryInv,
           \A c \in Conns : \/ task'[c].at # "mark"
                            \/ task'[c] = task[c] /\ peers'[c].joined = peers[c].joined,
           \A t \in Tokens : minted[t] # NoChallenge => minted'[t] # NoChallenge
    PROVE  EntryInv'
  BY DEF EntryInv, ControlInv

LEMMA StepEntry ==
    ASSUME SessionInv, EntryInv, [Next]_vars
    PROVE  EntryInv'
  <1> USE DEF SessionInv
  <1>1. ASSUME NEW c \in Conns, \/ WsClose(c) \/ MarkJoined(c) \/ FinishJoin(c) \/ HelloFind(c)
                                \/ HelloCount(c) \/ HelloConsume(c)
        PROVE  EntryInv'
    <2>1. UNCHANGED minted
      BY <1>1
         DEF WsClose, MarkJoined, FinishJoin, HelloFind, HelloCount, HelloConsume, ghostVars
    <2>2. \A d \in Conns \ {c} : task'[d] = task[d] /\ peers'[d] = peers[d]
      BY <1>1
         DEF WsClose, MarkJoined, FinishJoin, HelloFind, HelloCount, HelloConsume, Challenge,
             TypeOK
    <2>3. task'[c].at # "mark"
      <3>1. CASE WsClose(c)
        BY <3>1 DEF WsClose, Task, Idle
      <3>4. CASE MarkJoined(c)
        BY <3>4 DEF MarkJoined, TypeOK, Task
      <3>5. CASE FinishJoin(c)
        BY <3>5 DEF FinishJoin, TypeOK, Task, Idle
      <3>2. CASE HelloFind(c) \/ HelloCount(c)
        BY <3>2 DEF HelloFind, HelloCount, Challenge, TypeOK, Task, Idle
      <3>3. CASE HelloConsume(c)
        BY <3>3 DEF HelloConsume, Challenge, TypeOK, Task, Idle
      <3> QED
        BY <1>1, <3>1, <3>2, <3>3, <3>4, <3>5
    <2> QED
      BY <2>1, <2>2, <2>3, EntryKept
  <1>2. ASSUME NEW c \in Conns, NEW r \in RoomIds, WsOpen(c, r) PROVE EntryInv'
    <2>1. /\ task[c].at # "mark" /\ UNCHANGED <<task, minted>>
          /\ \A d \in Conns \ {c} : peers'[d] = peers[d]
      BY <1>2 DEF WsOpen, ControlInv, TypeOK, ghostVars
    <2> QED
      BY <2>1, EntryKept
  <1>3. ASSUME NEW c \in Conns, NEW t \in Tokens, HelloToken(c, t) PROVE EntryInv'
    <2>1. CASE UNCHANGED <<task, peers, minted>>
      BY <2>1, EntryKept
    <2>2. CASE task' = [task EXCEPT ![c] = Task("mark", t, 0)] /\ RoomForToken(t) = peers[c].room
      <3>1. /\ task'[c].token = t /\ \A d \in Conns \ {c} : task'[d] = task[d]
            /\ ~peers[c].joined /\ peers[c].room # NoRoom /\ UNCHANGED <<peers, minted>>
        BY <1>3, <2>2 DEF HelloToken, Reading, Connected, TypeOK, Task, ghostVars
      <3>2. minted[t] # NoChallenge
        BY <2>2, <3>1 DEF RoomForToken, PendingInv
      <3> QED
        BY <3>1, <3>2 DEF EntryInv
    <2> QED
      BY <1>3, <2>1, <2>2 DEF HelloToken, ghostVars
  <1>4. ASSUME NEW c \in Conns, NEW answer \in 0 .. MaxChallengeId, ChallengeResponse(c, answer)
        PROVE  EntryInv'
    <2> DEFINE t == peers[c].pending
    <2>1. /\ ~peers[c].joined /\ \A d \in Conns : peers'[d].joined = peers[d].joined
      BY <1>4 DEF ChallengeResponse, TypeOK, Peer
    <2>2. CASE UNCHANGED <<minted, task>>
      BY <2>1, <2>2, EntryKept
    <2>3. CASE /\ answer # NoChallenge /\ answer = peers[c].expected
               /\ minted' = [minted EXCEPT ![peers[c].pending] = peers[c].expected]
               /\ task' = [task EXCEPT ![c] = Task("mark", peers[c].pending, 0)]
      <3>1. t \in Tokens
        BY <2>3 DEF ControlInv
      <3>2. /\ minted'[t] # NoChallenge
            /\ \A s \in Tokens : minted[s] # NoChallenge => minted'[s] # NoChallenge
        BY <2>3, <3>1 DEF TypeOK
      <3>3. task'[c].token = t /\ \A d \in Conns \ {c} : task'[d] = task[d]
        BY <2>3 DEF TypeOK, Task
      <3> QED
        BY <2>1, <3>2, <3>3 DEF EntryInv, ControlInv
    <2> QED
      BY <1>4, <2>2, <2>3 DEF ChallengeResponse
  <1>5. ASSUME NEW c \in Conns, BadFrame(c) \/ SendMsg(c) PROVE EntryInv'
    <2>1. UNCHANGED <<task, peers, minted>>
      BY <1>5 DEF BadFrame, SendMsg, connVars, ghostVars
    <2> QED
      BY <2>1, EntryKept
  <1>6. ASSUME NEW q \in Reqs, ReqNext(q) PROVE EntryInv'
    <2>1. UNCHANGED <<task, peers, minted>>
      BY <1>6
         DEF ReqNext, CreateCheck, CreateInsert, ActivateFind, ActivateInsert, ActivateCommit,
             DeleteCheck, DeleteClose, DeleteRow, connVars, ghostVars
    <2> QED
      BY <2>1, EntryKept
  <1>7. CASE PurgeNext \/ Tick \/ UNCHANGED vars
    <2>1. UNCHANGED <<task, peers, minted>>
      BY <1>7
         DEF PurgeNext, PurgeSelect, PurgeClose, PurgeDelete, PurgeRest, Tick, connVars,
             ghostVars, vars
    <2> QED
      BY <2>1, EntryKept
  <1>8. CASE Crash
    BY <1>8, EntryKept DEF Crash, Idle, Task
  <1> QED
    BY <1>1, <1>2, <1>3, <1>4, <1>5, <1>6, <1>7, <1>8 DEF Next, ConnNext

----------------------------------------------------------------------------
(* Steps of the server, as the contract sees them.                         *)

Places == [c \in Conns |-> peers[c].room]
Insides == [c \in Conns |-> IF peers[c].joined THEN peers[c].peerId ELSE NoToken]

\* The peers as the contract sees them: a step that keeps three fields.
SamePeers == \A c \in Conns : /\ peers'[c].room = peers[c].room
                              /\ peers'[c].joined = peers[c].joined
                              /\ peers'[c].peerId = peers[c].peerId

LEMMA PeersSeen ==
    /\ SamePeers => Places' = Places /\ Insides' = Insides
    /\ UNCHANGED peers => Places' = Places /\ Insides' = Insides
  BY DEF SamePeers, Places, Insides

LEMMA Stutter ==
    ASSUME UNCHANGED <<rooms, drawn, guessed, minted, tokenRoom>>, SamePeers \/ UNCHANGED peers
    PROVE  UNCHANGED Contract!contractVars
  BY PeersSeen DEF Contract!contractVars, Places, Insides

LEMMA ChallengeSeen ==
    ASSUME TypeOK, NEW c \in Conns, NEW i, Challenge(c, i)
    PROVE  SamePeers
  BY DEF TypeOK, Challenge, Peer, SamePeers

LEMMA InitSeen == Init => Contract!ContractInit
  BY DEF Init, StoreInit, Contract!ContractInit, NoPeer, Peer, NoChallenge

LEMMA OpenSeen ==
    ASSUME SessionInv, NEW c \in Conns, NEW r \in RoomIds, WsOpen(c, r)
    PROVE  Contract!Arrive(c, r)
  <1>1. /\ peers[c].room = NoRoom /\ ~peers[c].joined
        /\ peers' = [peers EXCEPT ![c] = Peer(r, FALSE, NoToken, NoToken, NoChallenge)]
        /\ UNCHANGED <<rooms, drawn, guessed, minted, tokenRoom>>
    BY DEF WsOpen, Connected, SessionInv, ControlInv, storeVars, ghostVars
  <1>2. Places' = [Places EXCEPT ![c] = r] /\ Insides' = Insides
    BY <1>1 DEF Places, Insides, SessionInv, TypeOK, Peer
  <1> QED
    BY <1>1, <1>2 DEF Contract!Arrive, Places, Insides

LEMMA CloseSeen ==
    ASSUME SessionInv, NEW c \in Conns, WsClose(c)
    PROVE  Contract!Depart({c})
  <1>1. /\ peers' = [peers EXCEPT ![c] = NoPeer]
        /\ UNCHANGED <<rooms, drawn, guessed, minted, tokenRoom>>
    BY DEF WsClose, storeVars, ghostVars
  <1>2. /\ Places' = [d \in Conns |-> IF d \in {c} THEN NoRoom ELSE Places[d]]
        /\ Insides' = [d \in Conns |-> IF d \in {c} THEN NoToken ELSE Insides[d]]
    BY <1>1 DEF Places, Insides, SessionInv, TypeOK, NoPeer, Peer
  <1> QED
    BY <1>1, <1>2 DEF Contract!Depart, Places, Insides

LEMMA CrashSeen == Crash => Contract!Depart(Conns)
  <1> SUFFICES ASSUME Crash PROVE Contract!Depart(Conns)
    OBVIOUS
  <1>1. /\ peers' = [c \in Conns |-> NoPeer]
        /\ UNCHANGED <<rooms, drawn, guessed, minted, tokenRoom>>
    BY DEF Crash, storeVars
  <1>2. /\ Places' = [d \in Conns |-> IF d \in Conns THEN NoRoom ELSE Places[d]]
        /\ Insides' = [d \in Conns |-> IF d \in Conns THEN NoToken ELSE Insides[d]]
    BY <1>1 DEF Places, Insides, NoPeer, Peer
  <1> QED
    BY <1>1, <1>2 DEF Contract!Depart, Places, Insides

\* An answer spends its challenge; a right one whose token is written admits.
LEMMA AnswerSeen ==
    ASSUME RefinementInv, NEW c \in Conns, NEW answer \in 0 .. MaxChallengeId,
           ChallengeResponse(c, answer)
    PROVE  \/ \E i \in ChallengeIds, t \in Tokens : Contract!Admit(c, i, t)
           \/ \E i \in ChallengeIds : Contract!Waste(i)
           \/ UNCHANGED Contract!contractVars
  <1> DEFINE e == peers[c].expected
             p == peers[c].pending
  <1>1. SamePeers
    BY DEF ChallengeResponse, RefinementInv, SessionInv, TypeOK, Peer, SamePeers
  <1>2. Places' = Places /\ Insides' = Insides
    BY <1>1, PeersSeen
  <1>3. e \in ChallengeIds => e \notin guessed
    BY DEF RefinementInv, ChallengeInv, OneGuessPerChallenge
  <1>4. guessed' = guessed \cup ({e} \cap ChallengeIds) /\ UNCHANGED drawn
    BY DEF ChallengeResponse
  <1>5. CASE UNCHANGED <<storeVars, minted>> /\ e \in ChallengeIds
    BY <1>2, <1>3, <1>4, <1>5 DEF Contract!Waste, Places, Insides, storeVars
  <1>6. CASE UNCHANGED <<storeVars, minted>> /\ e \notin ChallengeIds
    BY <1>1, <1>4, <1>6, Stutter DEF storeVars
  <1>7. CASE /\ answer # NoChallenge /\ answer = e /\ peers[c].room \in rooms
             /\ InsertAccessToken(p, peers[c].room)
             /\ minted' = [minted EXCEPT ![p] = e]
    <2>1. e \in ChallengeIds /\ e # NoChallenge
      BY <1>7, StoreAssumption DEF ChallengeIds, NoChallenge
    <2>2. p \in Tokens /\ minted[p] = NoChallenge
      BY <2>1 DEF RefinementInv, SessionInv, ControlInv, PendingInv
    <2>3. /\ UNCHANGED rooms
          /\ tokenRoom' = [tokenRoom EXCEPT ![p] = peers[c].room]
      BY <1>7 DEF InsertAccessToken
    <2>4. {t \in Tokens : minted'[t] # NoChallenge}
             = {t \in Tokens : minted[t] # NoChallenge} \cup {p}
      BY <1>7, <2>1, <2>2 DEF RefinementInv, SessionInv, TypeOK
    <2>5. peers[c].room \in RoomIds /\ peers[c].room # NoRoom
      BY <1>7, StoreAssumption DEF RefinementInv, SessionInv, TypeOK, StoreTypeOK
    <2>6. PICK i \in ChallengeIds, t \in Tokens : i = e /\ t = p
      BY <2>1, <2>2
    <2>7. Contract!Admit(c, i, t)
      BY <1>2, <1>3, <1>4, <1>7, <2>1, <2>2, <2>3, <2>4, <2>5, <2>6
         DEF Contract!Admit, Places, Insides
    <2> QED
      BY <2>7
  <1> QED
    BY <1>5, <1>6, <1>7 DEF ChallengeResponse, TokenInsertSucceeds

LEMMA JoinSeen ==
    ASSUME RefinementInv, NEW c \in Conns, MarkJoined(c)
    PROVE  \E t \in Tokens : Contract!Enter(c, t)
  <1> USE DEF RefinementInv, SessionInv
  <1>1. /\ task[c].at = "mark"
        /\ peers' = [peers EXCEPT ![c] =
                        Peer(@.room, TRUE, task[c].token, @.pending, @.expected)]
        /\ UNCHANGED <<rooms, drawn, guessed, minted, tokenRoom>>
    BY DEF MarkJoined, storeVars, ghostVars
  <1>2. PICK t \in Tokens : t = task[c].token
    BY <1>1 DEF ControlInv
  <1>8. peers[c].room # NoRoom
    BY <1>1 DEF ControlInv, Connected
  <1>3. ~peers[c].joined /\ minted[t] # NoChallenge
    BY <1>1, <1>2 DEF EntryInv
  <1>4. tokenRoom[t] = peers[c].room \/ peers[c].room \notin rooms
    BY <1>1, <1>2 DEF CredentialInv, JoinedHoldsToken
  <1>5. peers[c].room \in drawn /\ peers[c].room \in RoomIds
    BY <1>1 DEF CredentialInv, DrawnInv, TypeOK
  <1>6. Places' = Places /\ Insides' = [Insides EXCEPT ![c] = t]
    BY <1>1, <1>2 DEF Places, Insides, TypeOK, Peer
  <1>7. Contract!Enter(c, t)
    BY <1>1, <1>2, <1>3, <1>4, <1>5, <1>6, <1>8 DEF Contract!Enter, Places, Insides
  <1> QED
    BY <1>7

LEMMA CreateSeen ==
    ASSUME SessionInv, NEW q \in Reqs, NEW r \in RoomIds, NEW password \in BOOLEAN,
           CreateInsert(q, r, password)
    PROVE  Contract!Found(r)
  <1> DEFINE Life == [x \in RoomIds |-> IF x \in rooms THEN "live"
                                        ELSE IF x \in drawn THEN "gone" ELSE "new"]
  <1>1. r \notin drawn /\ r \notin rooms /\ drawn' = drawn \cup {r}
    BY DEF CreateInsert, SessionInv, CredentialInv, DrawnInv
  <1>2. rooms' = rooms \/ rooms' = rooms \cup {r}
    BY DEF CreateInsert, CreateRoom, storeVars
  <1>3. UNCHANGED <<guessed, minted, tokenRoom, peers>>
    BY DEF CreateInsert, CreateRoom, storeVars, connVars
  <1>4. \E state \in {"live", "gone"} : Life' = [Life EXCEPT ![r] = state]
    <2>1. CASE rooms' = rooms
      BY <1>1, <2>1
    <2>2. CASE rooms' = rooms \cup {r}
      BY <1>1, <2>2
    <2> QED
      BY <1>2, <2>1, <2>2
  <1>5. Life[r] = "new"
    BY <1>1
  <1> QED
    BY <1>3, <1>4, <1>5 DEF Contract!Found

\* A deletion ends the room, or finds it gone with its tokens.
LEMMA DropSeen ==
    ASSUME SessionInv, NEW r \in RoomIds, DropRoom(r),
           UNCHANGED <<drawn, guessed, minted, peers>>
    PROVE  Contract!End(r) \/ UNCHANGED Contract!contractVars
  <1> DEFINE Life == [x \in RoomIds |-> IF x \in rooms THEN "live"
                                        ELSE IF x \in drawn THEN "gone" ELSE "new"]
  <1>1. CASE UNCHANGED storeVars
    BY <1>1, Stutter DEF storeVars
  <1>2. CASE DeleteRoom(r) /\ r \in rooms
    <2>1. /\ rooms' = rooms \ {r}
          /\ tokenRoom' = [t \in Tokens |-> IF tokenRoom[t] = r THEN NoRoom ELSE tokenRoom[t]]
      BY <1>2 DEF DeleteRoom
    <2>2. r \in drawn
      BY <1>2 DEF SessionInv, CredentialInv, DrawnInv
    <2>3. Life[r] = "live" /\ Life' = [Life EXCEPT ![r] = "gone"]
      BY <1>2, <2>1, <2>2
    <2> QED
      BY <2>1, <2>3 DEF Contract!End
  <1>3. CASE DeleteRoom(r) /\ r \notin rooms
    <2>1. /\ rooms' = rooms
          /\ tokenRoom' = [t \in Tokens |-> IF tokenRoom[t] = r THEN NoRoom ELSE tokenRoom[t]]
      BY <1>3 DEF DeleteRoom
    <2>2. \A t \in Tokens : tokenRoom[t] # r
      BY <1>3, StoreAssumption DEF SessionInv, PendingInv
    <2>3. tokenRoom' = tokenRoom
      BY <2>1, <2>2 DEF SessionInv, TypeOK, StoreTypeOK
    <2> QED
      BY <2>1, <2>3, Stutter
  <1> QED
    BY <1>1, <1>2, <1>3 DEF DropRoom

LEMMA StepSeen ==
    ASSUME RefinementInv, [Next]_vars
    PROVE  [Contract!ContractNext]_(Contract!contractVars)
  <1> USE DEF Contract!ContractNext
  <1>1. ASSUME NEW c \in Conns, NEW r \in RoomIds, WsOpen(c, r)
        PROVE  [Contract!ContractNext]_(Contract!contractVars)
    BY <1>1, OpenSeen DEF RefinementInv
  <1>2. ASSUME NEW c \in Conns, WsClose(c)
        PROVE  [Contract!ContractNext]_(Contract!contractVars)
    BY <1>2, CloseSeen DEF RefinementInv
  <1>3. ASSUME NEW c \in Conns,
               HelloFind(c) \/ HelloCount(c) \/ HelloConsume(c) \/ BadFrame(c) \/ FinishJoin(c)
               \/ SendMsg(c) \/ \E t \in Tokens : HelloToken(c, t)
        PROVE  [Contract!ContractNext]_(Contract!contractVars)
    <2>1. UNCHANGED <<rooms, drawn, guessed, minted, tokenRoom>>
      BY <1>3
         DEF HelloFind, HelloCount, HelloConsume, BadFrame, FinishJoin, SendMsg, HelloToken,
             TouchRoom, ConsumeChallenge, storeVars, ghostVars
    <2>2. SamePeers \/ UNCHANGED peers
      BY <1>3, ChallengeSeen
         DEF HelloFind, HelloCount, HelloConsume, BadFrame, FinishJoin, SendMsg, HelloToken,
             connVars, RefinementInv, SessionInv
    <2> QED
      BY <2>1, <2>2, Stutter
  <1>4. ASSUME NEW c \in Conns, NEW answer \in 0 .. MaxChallengeId, ChallengeResponse(c, answer)
        PROVE  [Contract!ContractNext]_(Contract!contractVars)
    BY <1>4, AnswerSeen
  <1>5. ASSUME NEW c \in Conns, MarkJoined(c)
        PROVE  [Contract!ContractNext]_(Contract!contractVars)
    BY <1>5, JoinSeen
  <1>6. ASSUME NEW q \in Reqs, NEW r \in RoomIds, NEW password \in BOOLEAN,
               CreateInsert(q, r, password)
        PROVE  [Contract!ContractNext]_(Contract!contractVars)
    BY <1>6, CreateSeen DEF RefinementInv
  <1>7. ASSUME NEW q \in Reqs,
               \/ CreateCheck(q) \/ ActivateInsert(q) \/ ActivateCommit(q) \/ DeleteClose(q)
               \/ \E r \in RoomIds : ActivateFind(q, r)
               \/ \E r \in RoomIds, t \in Tokens : DeleteCheck(q, r, t)
        PROVE  [Contract!ContractNext]_(Contract!contractVars)
    <2>1. UNCHANGED <<rooms, drawn, guessed, minted, tokenRoom, peers>>
      BY <1>7
         DEF CreateCheck, ActivateInsert, ActivateCommit, DeleteClose, ActivateFind, DeleteCheck,
             InsertChallenges, AddChallenges, ActivateRoom, storeVars, connVars, ghostVars
    <2> QED
      BY <2>1, Stutter
  <1>8. ASSUME NEW q \in Reqs, DeleteRow(q)
        PROVE  [Contract!ContractNext]_(Contract!contractVars)
    <2>1. PICK r \in RoomIds : r = req[q].room
      BY <1>8 DEF DeleteRow, RefinementInv, SessionInv, ControlInv
    <2>2. DropRoom(r) /\ UNCHANGED <<drawn, guessed, minted, peers>>
      BY <1>8, <2>1 DEF DeleteRow, connVars, ghostVars
    <2> QED
      BY <2>2, DropSeen DEF RefinementInv
  <1>9. CASE PurgeDelete
    <2>1. PICK r \in RoomIds : r = purge.cur
      BY <1>9 DEF PurgeDelete, RefinementInv, SessionInv, ControlInv
    <2>2. DropRoom(r) /\ UNCHANGED <<drawn, guessed, minted, peers>>
      BY <1>9, <2>1 DEF PurgeDelete, connVars, ghostVars
    <2> QED
      BY <2>2, DropSeen DEF RefinementInv
  <1>10. CASE PurgeSelect \/ PurgeRest \/ (\E r \in RoomIds : PurgeClose(r)) \/ Tick
              \/ UNCHANGED vars
    <2>1. UNCHANGED <<rooms, drawn, guessed, minted, tokenRoom, peers>>
      BY <1>10 DEF PurgeSelect, PurgeRest, PurgeClose, Tick, vars, storeVars, connVars, ghostVars
    <2> QED
      BY <2>1, Stutter
  <1>11. CASE Crash
    BY <1>11, CrashSeen
  <1> QED
    BY <1>1, <1>2, <1>3, <1>4, <1>5, <1>6, <1>7, <1>8, <1>9, <1>10, <1>11
       DEF Next, ConnNext, ReqNext, PurgeNext

\* Whatever the interleaving of handlers, requests, the purge thread, crashes
\* and failing writes, a room keeps its contract: an id lives once, a
\* challenge is spent once, a connection comes in with a bought token of its
\* room, and a room's tokens end with it; only the UPDATE of consumeChallenge
\* must not fail (webapi.cpp, db.cpp, room.cpp, main.cpp purger).
THEOREM ServerKeepsContract ==
    ASSUME "consume" \notin Faults
    PROVE  Spec => ImplementsContract
  <1>1. Init => RefinementInv
    BY InitSession, InitEntry DEF RefinementInv
  <1>2. RefinementInv /\ [Next]_vars => RefinementInv'
    BY StepSession, StepChallenge, StepEntry DEF RefinementInv, SessionInv
  <1>3. Init => Contract!ContractInit
    BY InitSeen
  <1>4. RefinementInv /\ [Next]_vars => [Contract!ContractNext]_(Contract!contractVars)
    BY StepSeen
  <1> QED
    BY <1>1, <1>2, <1>3, <1>4, PTL DEF Spec, ImplementsContract, Contract!ContractSpec

=============================================================================
