------------------------------ MODULE MCRelay ------------------------------
(***************************************************************************)
(* Relay for TLC.  Connections are interchangeable model values.           *)
(***************************************************************************)
EXTENDS Relay, TLC

Symmetry == Permutations(Conns)

=============================================================================
