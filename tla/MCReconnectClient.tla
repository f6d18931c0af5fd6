------------------------- MODULE MCReconnectClient -------------------------
(***************************************************************************)
(* Finite instances of ReconnectClient for TLC.                            *)
(***************************************************************************)
EXTENDS ReconnectClient, TLC

\* A session of its own for the initial stopCh, and one to move to.
ASSUME EnoughIdentities == Cardinality(Sessions) >= 2 /\ Cardinality(Conns) >= 2

ClientSymmetry == Permutations(Sessions) \cup Permutations(Conns)
=============================================================================
