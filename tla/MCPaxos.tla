------------------------------ MODULE MCPaxos ------------------------------
(* Instances of Paxos for TLC. *)
EXTENDS PaxosInv

\* Three nodes, so that a majority is two and one may fail.
Three == 1..3
=============================================================================
