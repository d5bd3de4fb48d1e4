---------------------------- MODULE MCLockCache ----------------------------
(* Instances of LockCache for TLC: which client each thread calls. *)
EXTENDS LockInv, TLC

CONSTANT Other    \* the thread that calls client 2; the others share client 1

TwoAndOne == [t \in Thread |-> IF t = Other THEN 2 ELSE 1]
AllOfOne == [t \in Thread |-> 1]

\* The threads of client 1 are alike.
Sharers == Permutations(Thread \ {Other})
=============================================================================
