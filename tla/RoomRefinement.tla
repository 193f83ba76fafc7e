--------------------------- MODULE RoomRefinement ---------------------------
(***************************************************************************)
(* RoomServer implements RoomContract: the tables of the server, and where *)
(* its handlers are, seen as the promise they keep.                        *)
(***************************************************************************)
EXTENDS RoomServer

Contract == INSTANCE RoomContract WITH
    Challenges <- ChallengeIds,
    life <- [r \in RoomIds |-> IF r \in rooms THEN "live" ELSE IF r \in drawn THEN "gone" ELSE "new"],
    spent <- guessed,
    sold <- {t \in Tokens : minted[t] # NoChallenge},
    owner <- tokenRoom,
    at <- [c \in Conns |-> peers[c].room],
    inside <- [c \in Conns |-> IF peers[c].joined THEN peers[c].peerId ELSE NoToken]

\* Every behaviour of the server keeps the contract of a room: whatever the
\* interleaving of handlers, requests, the purge thread and failing writes, a
\* step that changes what the contract speaks of is one the contract allows
\* (webapi.cpp onmessage, POST and DELETE of rooms; db.cpp; main.cpp purger).
ImplementsContract == Contract!ContractSpec

=============================================================================
