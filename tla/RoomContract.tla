---------------------------- MODULE RoomContract ----------------------------
(***************************************************************************)
(* What the server promises to those who share a room, with no handler, no *)
(* table and no schedule in it.  A room id lives once: it is new, then     *)
(* live, then gone.  A challenge of a live room can be spent once, on a    *)
(* token of that room or on a wrong answer.  A connection comes in with a  *)
(* token of the room it is at.  When a room goes, its tokens go with it.   *)
(*                                                                         *)
(* The one thing the server may do late is to let a peer in whose token    *)
(* was good when it was looked at: the room may be gone by then.           *)
(***************************************************************************)
EXTENDS Naturals

CONSTANTS RoomIds, Challenges, Tokens, Conns, NoRoom, NoToken

VARIABLES
    life,       \* "new", "live" or "gone", by room id
    spent,      \* the challenges that took their answer
    sold,       \* the tokens that were ever given out
    owner,      \* the room a token opens, NoRoom for none
    at,         \* the room a connection is at, NoRoom for none
    inside      \* the token a connection came in with, NoToken outside

contractVars == <<life, spent, sold, owner, at, inside>>

ContractInit ==
    /\ life = [r \in RoomIds |-> "new"]
    /\ spent = {}
    /\ sold = {}
    /\ owner = [t \in Tokens |-> NoRoom]
    /\ at = [c \in Conns |-> NoRoom]
    /\ inside = [c \in Conns |-> NoToken]

\* A room comes into being, or its id is lost to a failed write.
Found(r) ==
    /\ life[r] = "new"
    /\ \E state \in {"live", "gone"} : life' = [life EXCEPT ![r] = state]
    /\ UNCHANGED <<spent, sold, owner, at, inside>>

\* The end of a room is the end of its tokens, and of no others.
End(r) ==
    /\ life[r] = "live"
    /\ life' = [life EXCEPT ![r] = "gone"]
    /\ owner' = [t \in Tokens |-> IF owner[t] = r THEN NoRoom ELSE owner[t]]
    /\ UNCHANGED <<spent, sold, at, inside>>

\* A right answer to a challenge that took none before buys a new token of
\* the room the answer came from.
Admit(c, i, t) ==
    /\ at[c] # NoRoom /\ life[at[c]] = "live"
    /\ i \notin spent /\ t \notin sold
    /\ spent' = spent \cup {i}
    /\ sold' = sold \cup {t}
    /\ owner' = [owner EXCEPT ![t] = at[c]]
    /\ UNCHANGED <<life, at, inside>>

\* A wrong answer, or a right one that came too late, costs the challenge.
Waste(i) ==
    /\ i \notin spent
    /\ spent' = spent \cup {i}
    /\ UNCHANGED <<life, sold, owner, at, inside>>

Arrive(c, r) ==
    /\ at[c] = NoRoom
    /\ at' = [at EXCEPT ![c] = r]
    /\ UNCHANGED <<life, spent, sold, owner, inside>>

Enter(c, t) ==
    /\ at[c] # NoRoom /\ inside[c] = NoToken
    /\ t \in sold
    /\ owner[t] = at[c] \/ life[at[c]] = "gone"
    /\ inside' = [inside EXCEPT ![c] = t]
    /\ UNCHANGED <<life, spent, sold, owner, at>>

\* Connections end, one of them or all at once.
Depart(S) ==
    /\ at' = [c \in Conns |-> IF c \in S THEN NoRoom ELSE at[c]]
    /\ inside' = [c \in Conns |-> IF c \in S THEN NoToken ELSE inside[c]]
    /\ UNCHANGED <<life, spent, sold, owner>>

ContractNext ==
    \/ \E r \in RoomIds : Found(r) \/ End(r)
    \/ \E c \in Conns, i \in Challenges, t \in Tokens : Admit(c, i, t)
    \/ \E i \in Challenges : Waste(i)
    \/ \E c \in Conns, r \in RoomIds : Arrive(c, r)
    \/ \E c \in Conns, t \in Tokens : Enter(c, t)
    \/ \E S \in SUBSET Conns : Depart(S)

ContractSpec == ContractInit /\ [][ContractNext]_contractVars

=============================================================================
