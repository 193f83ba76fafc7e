--------------------------- MODULE MCWsConnection ---------------------------
(***************************************************************************)
(* The instance of WsConnection that TLC checks: connections and io        *)
(* threads are interchangeable.                                            *)
(***************************************************************************)
EXTENDS WsConnection, TLC

Symmetry == Permutations(Conns) \cup Permutations(IoThreads)

=============================================================================
