------------------------------ MODULE LockInv ------------------------------
(***************************************************************************)
(* The inductive invariant behind mutual exclusion in LockCache, and the   *)
(* mapping under which LockCache implements LockService.                   *)
(***************************************************************************)
EXTENDS LockCache

\* The releaser of c has handed l back and waits for the answer.
Returned(c, l) == relpc[c] = "reply" /\ rlock[c] = l

\* Client c may let its threads use l without asking the server.
Owns(c, l) ==
    \/ lstatus[c][l] \in {"FREE", "LOCKED"}
    \/ lstatus[c][l] = "RELEASING" /\ ~ Returned(c, l)
    \/ \E t \in Thread : clientOf[t] = c /\ lid[t] = l /\ pc[t] = "ok"

\* The server has given l to c under c's current number.
Allocated(c, l) == isAllocated[l] /\ holder[l] = c /\ seqNo[l] = seq_num[c][l]

\* One thread per client fetches a lock, one thread per client uses it.
ThreadInv ==
    \A t \in Thread :
        /\ pc[t] \in Fetching => lstatus[clientOf[t]][lid[t]] = "ACQUIRING"
        /\ \A l \in held[t] : lstatus[clientOf[t]][l] = "LOCKED"
        /\ \A u \in Thread : t # u /\ clientOf[t] = clientOf[u] =>
             /\ held[t] \cap held[u] = {}
             /\ pc[t] \in Fetching /\ pc[u] \in Fetching => lid[t] # lid[u]

ReleaserInv ==
    \A c \in Client :
        relpc[c] \in {"call", "reply"} => lstatus[c][rlock[c]] = "RELEASING"

\* Whoever owns a lock was granted its current number, and a number granted
\* and not handed back is what the server has the lock allocated under.
OwnerInv ==
    \A c \in Client, l \in Lock :
        /\ clientLockSeqMap[c][l] <= seq_num[c][l]
        /\ Owns(c, l) => clientLockSeqMap[c][l] = seq_num[c][l]
        /\ clientLockSeqMap[c][l] = seq_num[c][l] /\ ~ Returned(c, l) => Allocated(c, l)

\* A copy is never ahead of its client, and a copied release is behind it.
LateInv ==
    /\ \A m \in late :
         /\ m.op = "acquire" => m.seq <= seq_num[m.client][m.lid]
         /\ m.op = "release" => m.seq < seq_num[m.client][m.lid]
    /\ \A m \in checked : m.seq <= seq_num[m.client][m.lid]

\* The inductive invariant, which copies of old calls do not disturb.
LockInvariant == TypeOK /\ ThreadInv /\ ReleaserInv /\ OwnerInv /\ LateInv

\* Without copies of acquires, what the server has out is with a client that
\* still works under that number and has not sent it back; the server forgets
\* the number when it has the lock; and no revoke is queued for a number that
\* was not yet granted.
AllocationInv ==
    /\ checked = {} /\ \A m \in late : m.op # "acquire"
    /\ \A m \in late : m.op = "release" => 0 < m.seq
    /\ \A l \in Lock : isAllocated[l] \/ seqNo[l] = 0
    /\ \A c \in Client, l \in Lock :
         /\ 0 < seq_num[c][l]
         /\ srevoke[c][l] <= clientLockSeqMap[c][l]
         /\ isAllocated[l] /\ holder[l] = c =>
              seq_num[c][l] = seqNo[l] /\ ~ Returned(c, l)

-----------------------------------------------------------------------------
\* A thread inside acquire wants the lock it was called for.
NoLock == -1
want == [t \in Thread |-> IF pc[t] = "idle" THEN NoLock ELSE lid[t]]

Service == INSTANCE LockService

\* To its threads the cache is a lock service: a grant, from the server or out
\* of the cache, is only ever of a lock that no thread of any client has.
ImplementsService == Service!Spec
=============================================================================
