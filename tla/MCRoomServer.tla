---------------------------- MODULE MCRoomServer ----------------------------
(***************************************************************************)
(* RoomServer for TLC.  Connections, requests, room ids and tokens are     *)
(* interchangeable model values, so the safety runs use their symmetry.    *)
(***************************************************************************)
EXTENDS RoomRefinement, TLC

Symmetry == Permutations(Conns) \cup Permutations(Reqs)
            \cup Permutations(RoomIds) \cup Permutations(Tokens)

=============================================================================
