----------------------------- MODULE RoomStore -----------------------------
(***************************************************************************)
(* The SQLite store of src/src/db.cpp: the tables rooms, challenges and    *)
(* access_tokens, which survive a restart of the server.  Every method of  *)
(* class Database holds one mutex from its first statement to its return,  *)
(* so each is one atomic step here: an action on the store's variables, or *)
(* a state function when it only reads.                                    *)
(*                                                                         *)
(* A row is abstracted to the columns the server's control depends on.  A  *)
(* challenge triple is its row id: the plaintext a joiner must return is   *)
(* identified with the id of the challenge it belongs to.                  *)
(***************************************************************************)
EXTENDS Naturals, FiniteSets

CONSTANTS
    RoomIds,        \* room ids util::randomRoomId can draw
    Tokens,         \* access tokens util::randomTokenHex can draw
    MaxChallengeId, \* bound: challenge rows ever inserted
    Faults,         \* the writes SQLite may fail (full disk, I/O error)
    NoRoom          \* a room_id column of a row that does not exist

ASSUME StoreAssumption ==
    /\ MaxChallengeId \in Nat
    /\ NoRoom \notin RoomIds

VARIABLES
    rooms,          \* ids of the rows of table rooms
    row,            \* their other columns
    poolOf,         \* challenges.room_id by challenges.id
    used,           \* ids of the challenges with used = 1
    lastChallenge,  \* AUTOINCREMENT counter: the highest id ever given out
    tokenRoom,      \* access_tokens.room_id by token
    now             \* the system clock, read by strftime('now') (external)

storeVars == <<rooms, row, poolOf, used, lastChallenge, tokenRoom, now>>

ChallengeIds == 1 .. MaxChallengeId

RoomRow == [activated: BOOLEAN, requiresPassword: BOOLEAN,
            maxParticipants: Nat, lastActiveAt: Nat]

EmptyRow == [activated |-> FALSE, requiresPassword |-> FALSE,
             maxParticipants |-> 0, lastActiveAt |-> 0]

StoreTypeOK ==
    /\ rooms \subseteq RoomIds
    /\ row \in [RoomIds -> RoomRow]
    /\ poolOf \in [ChallengeIds -> RoomIds \cup {NoRoom}]
    /\ used \subseteq ChallengeIds
    /\ lastChallenge \in 0 .. MaxChallengeId
    /\ tokenRoom \in [Tokens -> RoomIds \cup {NoRoom}]
    /\ now \in Nat

\* The schema on an empty database file.
StoreInit ==
    /\ rooms = {}
    /\ row = [r \in RoomIds |-> EmptyRow]
    /\ poolOf = [i \in ChallengeIds |-> NoRoom]
    /\ used = {}
    /\ lastChallenge = 0
    /\ tokenRoom = [t \in Tokens |-> NoRoom]
    /\ now = 0

----------------------------------------------------------------------------
(* Reads.                                                                  *)

\* findRoom: is there a row?  Its columns are row[r].
RoomExists(r) == r \in rooms

CountRooms == Cardinality(rooms)

\* roomForToken: the owner, or NoRoom for an unknown token.
RoomForToken(t) == tokenRoom[t]

UnusedChallenges(r) == {i \in ChallengeIds : poolOf[i] = r /\ i \notin used}

\* roomsIdleSince(now - ttl): last_active_at < now - ttl.  The caller reads
\* the clock just before the call; seconds do not pass in between here.
RoomsIdleSince(ttl) == {r \in rooms : row[r].lastActiveAt + ttl < now}

----------------------------------------------------------------------------
(* Writes.  A failed write leaves the store as it was; the caller sees     *)
(* `false', or `true' where the code does not look at the result (the      *)
(* faults "commit", "consume" and "delete").                               *)

MayFail(write) == write \in Faults

\* The caller stamps the row from the clock just before the call.
CreateRoom(r, capacity, password) ==
    /\ rooms' = rooms \cup {r}
    /\ row' = [row EXCEPT ![r] = [activated |-> FALSE,
                                  requiresPassword |-> password,
                                  maxParticipants |-> capacity,
                                  lastActiveAt |-> now]]
    /\ UNCHANGED <<poolOf, used, lastChallenge, tokenRoom, now>>

TouchRoom(r) ==
    /\ row' = IF r \in rooms THEN [row EXCEPT ![r].lastActiveAt = now] ELSE row
    /\ UNCHANGED <<rooms, poolOf, used, lastChallenge, tokenRoom, now>>

\* activateRoom returns sqlite3_changes() > 0: it reports a missing row.
ActivateSucceeds(r) == r \in rooms

ActivateRoom(r) ==
    /\ row' = [row EXCEPT ![r].activated = TRUE, ![r].lastActiveAt = now]
    /\ UNCHANGED <<rooms, poolOf, used, lastChallenge, tokenRoom, now>>

\* Mutant of DeleteRoom: access_tokens does not cascade.
DeleteRoomKeepsTokens(r) ==
    /\ rooms' = rooms \ {r}
    /\ row' = [row EXCEPT ![r] = EmptyRow]
    /\ poolOf' = [i \in ChallengeIds |-> IF poolOf[i] = r THEN NoRoom ELSE poolOf[i]]
    /\ used' = {i \in used : poolOf[i] # r}
    /\ UNCHANGED <<lastChallenge, tokenRoom, now>>

\* ON DELETE CASCADE removes the challenges and the tokens of the room.
DeleteRoom(r) ==
    /\ rooms' = rooms \ {r}
    /\ row' = [row EXCEPT ![r] = EmptyRow]
    /\ poolOf' = [i \in ChallengeIds |-> IF poolOf[i] = r THEN NoRoom ELSE poolOf[i]]
    /\ used' = {i \in used : poolOf[i] # r}
    /\ tokenRoom' = [t \in Tokens |-> IF tokenRoom[t] = r THEN NoRoom ELSE tokenRoom[t]]
    /\ UNCHANGED <<lastChallenge, now>>

\* Mutant of InsertSucceeds: PRAGMA foreign_keys is off.
InsertUnchecked(r, n) == TRUE

\* One transaction; the foreign key refuses rows for a room that is gone.
InsertSucceeds(r, n) == r \in rooms \/ n = 0

\* The rows of one pool, with the next ids of the counter.
AddChallenges(r, n) ==
    /\ lastChallenge + n <= MaxChallengeId
    /\ lastChallenge' = lastChallenge + n
    /\ poolOf' = [i \in ChallengeIds |->
                    IF lastChallenge < i /\ i <= lastChallenge + n THEN r ELSE poolOf[i]]
    /\ UNCHANGED <<rooms, row, used, tokenRoom, now>>

\* The result of COMMIT is not looked at: when it fails SQLite rolls the
\* rows back, and the caller is told that they are there.
InsertChallenges(r, n) ==
    \/ AddChallenges(r, n)
    \/ MayFail("commit") /\ UNCHANGED storeVars

\* Mutant of ConsumeChallenge: the triple is read and not marked.
ConsumeChallengeUnmarked(i, r) ==
    /\ i \in UnusedChallenges(r)
    /\ \A j \in UnusedChallenges(r) : i <= j
    /\ UNCHANGED storeVars

\* The unused challenge with the lowest id, marked used in one transaction.
\* The result of the UPDATE is not looked at: when it fails the triple is
\* returned all the same and stays unused.
ConsumeChallenge(i, r) ==
    /\ i \in UnusedChallenges(r)
    /\ \A j \in UnusedChallenges(r) : i <= j
    /\ \/ used' = used \cup {i}
       \/ MayFail("consume") /\ used' = used
    /\ UNCHANGED <<rooms, row, poolOf, lastChallenge, tokenRoom, now>>

\* Mutant of TokenInsertSucceeds: PRAGMA foreign_keys is off.
TokenInsertUnchecked(r) == TRUE

\* The foreign key refuses a token for a room that is gone.
TokenInsertSucceeds(r) == r \in rooms

InsertAccessToken(t, r) ==
    /\ tokenRoom' = [tokenRoom EXCEPT ![t] = r]
    /\ UNCHANGED <<rooms, row, poolOf, used, lastChallenge, now>>

=============================================================================
