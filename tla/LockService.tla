---------------------------- MODULE LockService ----------------------------
(***************************************************************************)
(* What a thread sees of a lock service: it asks for a lock, at some time  *)
(* has it, which nobody else does, and gives it back.                      *)
(***************************************************************************)
CONSTANTS Thread, Lock, NoLock

VARIABLES
    want,  \* the lock a thread is waiting for, or NoLock
    held   \* the locks it has

svars == <<want, held>>

Init == want = [t \in Thread |-> NoLock] /\ held = [t \in Thread |-> {}]

Ask(t, l) ==
    /\ want[t] = NoLock
    /\ l \notin held[t]
    /\ want' = [want EXCEPT ![t] = l]
    /\ UNCHANGED held

Get(t, l) ==
    /\ want[t] = l
    /\ \A u \in Thread : l \notin held[u]
    /\ held' = [held EXCEPT ![t] = @ \cup {l}]
    /\ want' = [want EXCEPT ![t] = NoLock]

GiveBack(t, l) ==
    /\ want[t] = NoLock
    /\ l \in held[t]
    /\ held' = [held EXCEPT ![t] = @ \ {l}]
    /\ UNCHANGED want

Next == \E t \in Thread, l \in Lock : Ask(t, l) \/ Get(t, l) \/ GiveBack(t, l)

Spec == Init /\ [][Next]_svars
=============================================================================
