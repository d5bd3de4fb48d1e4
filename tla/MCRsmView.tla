----------------------------- MODULE MCRsmView -----------------------------
(* An instance of RsmView for TLC. *)
EXTENDS RsmView
=============================================================================
