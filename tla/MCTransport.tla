---------------------------- MODULE MCTransport ----------------------------
(* An instance of Transport for TLC. *)
EXTENDS TransportInv, TLC

Threads == Permutations(Worker)
=============================================================================
