---------------------------- MODULE MCLockPlain -----------------------------
(***************************************************************************)
(* The tests of lock_tester with three threads and as many workers, and    *)
(* lock_demo beside them.                                                  *)
(***************************************************************************)
EXTENDS LockPlainInv

CONSTANT Demo

MCScript == [t \in Thread |-> IF t = Demo THEN lock_demo ELSE test3[t]]

\* What the proofs about LockPlain assume of the scripts.
ASSUME MCTester == Tester /\ Proper
=============================================================================
