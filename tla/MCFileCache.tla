---------------------------- MODULE MCFileCache ----------------------------
(* Instances of FileCache for TLC. *)
EXTENDS FileInv, TLC

\* Clients, names and fresh file numbers are interchangeable.
Symmetry == Permutations(Client) \cup Permutations(Name) \cup Permutations(File)
=============================================================================
