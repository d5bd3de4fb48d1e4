----------------------------- MODULE LockCache -----------------------------
(***************************************************************************)
(* The caching lock service: lock_client_cache.cc, with its application    *)
(* threads, its releaser thread and its revoke and retry handlers, against *)
(* lock_server_cache.cc, with its acquire and release handlers and its     *)
(* revoker and retryer threads.                                            *)
(*                                                                         *)
(* Code under a mutex is one step.  A remote call is a step of the callee  *)
(* and, where the caller's state changes, a later step that handles the    *)
(* answer, so calls and answers of different threads overtake each other.  *)
(* A map entry that does not exist is the value the code reads or creates  *)
(* in its place: sequence number 0, an empty set, status NONE with number  *)
(* 1.  `late' holds second copies of calls already answered, left behind   *)
(* by a retransmission; the RPC layer can run such a copy as a new call.   *)
(***************************************************************************)
EXTENDS Integers, FiniteSets

CONSTANTS
    Client,       \* the lock clients
    Thread,       \* application threads,
    clientOf,     \* ... and the client each one calls
    Lock,         \* lock ids, in the order in which a thread nests them
    MaxAcquires,  \* bound on the acquires of all threads together
    MaxHeld,      \* how many locks a thread may hold at a time
    MaxLate,      \* bound on the copies in flight
    LateOps,      \* the calls that may leave a copy behind
    UninitRelease \* what has_release may hold when the server has started

Ops == {"acquire", "release", "revoke", "retry"}

ASSUME ClientAssumption == clientOf \in [Thread -> Client] /\ Client # {}
ASSUME LockAssumption == Lock \subseteq Nat /\ Lock # {}
ASSUME LockBoundAssumption == /\ MaxAcquires \in Nat /\ MaxHeld \in Nat
                              /\ MaxLate \in Nat /\ LateOps \subseteq Ops
ASSUME UninitReleaseAssumption == UninitRelease \subseteq Nat /\ UninitRelease # {}

VARIABLES
    (* lock_client_cache *)
    lstatus, seq_num,  \* lockMap: status and current sequence number
    revokeMap,         \* number under which a lock is wanted back, 0 if it is not
    retryMap,          \* a retry came that no acquire has used yet
    (* application threads *)
    pc, lid,           \* where acquire is, and the lock it is for
    held,              \* the locks whose acquire has returned
    acquires,          \* number of acquires called so far
    (* releaser thread *)
    relpc, rlock,      \* where it is, and the lock it is releasing
    batch,             \* its snapshot of revokeMap, less what is done
    (* lock_server_cache *)
    isAllocated, holder, seqNo,  \* lockAllocationMap
    clientLockSeqMap,            \* last number granted to a client
    srevoke, sretry,             \* its revokeMap and retryMap
    has_release,                 \* releases the retryer has not seen
    revoking, retrying,          \* the snapshots of revoker and retryer
    (* network *)
    late,              \* copies of calls that were answered
    checked            \* copied acquires past the unlocked test

statusVars == <<lstatus, seq_num>>
threadVars == <<pc, lid, held, acquires>>
relVars    == <<relpc, rlock, batch>>
allocVars  == <<isAllocated, holder, seqNo, clientLockSeqMap>>
queueVars  == <<srevoke, sretry, has_release>>
sendVars   == <<revoking, retrying>>
netVars    == <<late, checked>>
serverVars == <<allocVars, queueVars, sendVars>>
vars == <<statusVars, revokeMap, retryMap, threadVars, relVars, serverVars, netVars>>

Status == {"NONE", "FREE", "LOCKED", "ACQUIRING", "RELEASING"}

\* Threads inside acquire: at the switch; asleep on cv; about to call the
\* server; past its unlocked test; with OK or RETRY on the way back; asleep on
\* rtr_cv; and awake again.
Acquiring == {"switch", "wait", "ping", "locked", "ok", "again", "rtrwait", "woken"}

\* The thread that took it upon itself to fetch the lock from the server.
Fetching == {"ping", "locked", "ok", "again", "rtrwait", "woken"}

ThreadsOf(c) == {t \in Thread : clientOf[t] = c}

\* ConditionVar::signal on cv or rtr_cv: one sleeper, if there is any, wakes.
Signal(c, asleep, awake) ==
    LET sleepers == {t \in ThreadsOf(c) : pc[t] = asleep}
    IN  IF sleepers = {} THEN UNCHANGED pc
        ELSE \E t \in sleepers : pc' = [pc EXCEPT ![t] = awake]

\* ConditionVar::signal on the client's rvk_cv.
WakeReleaser(c) ==
    relpc' = [relpc EXCEPT ![c] = IF relpc[c] = "asleep" THEN "top" ELSE relpc[c]]

\* The caller has its answer; a second copy of the call may be left behind.
Leave(o, c, l, s) ==
    \/ UNCHANGED late
    \/ /\ o \in LateOps
       /\ Cardinality(late \cup checked) < MaxLate
       /\ late' = late \cup {[op |-> o, client |-> c, lid |-> l, seq |-> s]}

-----------------------------------------------------------------------------
(* Handlers of the server *)

\* The test at the head of acquire, made without the mutex.
AlreadyHandled(c, l, s) == s <= clientLockSeqMap[c][l]

\* The rest of acquire: hand the lock out ...
Grant(c, l, s) ==
    /\ ~ isAllocated[l]
    /\ isAllocated' = [isAllocated EXCEPT ![l] = TRUE]
    /\ holder' = [holder EXCEPT ![l] = c]
    /\ seqNo' = [seqNo EXCEPT ![l] = s]
    /\ clientLockSeqMap' = [clientLockSeqMap EXCEPT ![c][l] = s]
    /\ UNCHANGED queueVars

\* mutant: the holder is not asked to give the lock back
RefuseSilent(c, l) ==
    /\ isAllocated[l]
    /\ sretry' = [sretry EXCEPT ![l] = @ \cup {c}]
    /\ UNCHANGED <<allocVars, srevoke, has_release>>

\* ... or remember whom to retry (add_Retry_Request) and from whom to revoke
\* (add_Revoke_Request).
Refuse(c, l) ==
    /\ isAllocated[l]
    /\ sretry' = [sretry EXCEPT ![l] = @ \cup {c}]
    /\ srevoke' = [srevoke EXCEPT ![holder[l]][l] = clientLockSeqMap[holder[l]][l]]
    /\ UNCHANGED <<allocVars, has_release>>

\* mutant: the retryer is not told
ServerReleaseSilent(c, l, s) ==
    /\ isAllocated' = [isAllocated EXCEPT ![l] = @ /\ ~ (s = seqNo[l] /\ c = holder[l])]
    /\ UNCHANGED <<holder, seqNo, clientLockSeqMap, queueVars>>

\* release: a request that is not the holder's, with its number, is ignored.
ServerRelease(c, l, s) ==
    IF s = seqNo[l] /\ c = holder[l]
    THEN /\ isAllocated' = [isAllocated EXCEPT ![l] = FALSE]
         /\ seqNo' = [seqNo EXCEPT ![l] = 0]
         /\ has_release' = has_release + 1
         /\ UNCHANGED <<holder, clientLockSeqMap, srevoke, sretry>>
    ELSE UNCHANGED <<allocVars, queueVars>>

-----------------------------------------------------------------------------
(* Handlers of the client *)

\* mutant: ignores that a thread may be using the lock
RevokeAnyway(c, l, s) ==
    IF (revokeMap[c][l] = 0 \/ s > revokeMap[c][l]) /\ seq_num[c][l] = s
    THEN /\ revokeMap' = [revokeMap EXCEPT ![c][l] = s]
         /\ lstatus' = [lstatus EXCEPT ![c][l] = "RELEASING"]
         /\ WakeReleaser(c)
    ELSE UNCHANGED <<revokeMap, lstatus, relpc>>

Revoke(c, l, s) ==
    IF (revokeMap[c][l] = 0 \/ s > revokeMap[c][l]) /\ seq_num[c][l] = s
    THEN /\ revokeMap' = [revokeMap EXCEPT ![c][l] = s]
         /\ IF lstatus[c][l] = "FREE"
            THEN /\ lstatus' = [lstatus EXCEPT ![c][l] = "RELEASING"]
                 /\ WakeReleaser(c)
            ELSE UNCHANGED <<lstatus, relpc>>
    ELSE UNCHANGED <<revokeMap, lstatus, relpc>>

Retry(c, l) ==
    /\ retryMap' = [retryMap EXCEPT ![c][l] = TRUE]
    /\ Signal(c, "rtrwait", "woken")

-----------------------------------------------------------------------------
(* Application threads *)

\* acquire is called; a thread that holds locks nests a larger one.
Acquire(t, l) ==
    /\ pc[t] = "idle"
    /\ acquires < MaxAcquires
    /\ Cardinality(held[t]) < MaxHeld
    /\ \A k \in held[t] : k < l
    /\ pc' = [pc EXCEPT ![t] = "switch"]
    /\ lid' = [lid EXCEPT ![t] = l]
    /\ acquires' = acquires + 1
    /\ UNCHANGED <<statusVars, revokeMap, retryMap, held, relVars, serverVars, netVars>>

\* The switch of acquire.  The status it reads without the mutex only picks
\* the branch, which reads it again under the mutex and goes round the loop if
\* it changed.
SwitchNone(t) ==
    LET c == clientOf[t]  l == lid[t] IN
    /\ pc[t] = "switch"
    /\ lstatus[c][l] = "NONE"
    /\ lstatus' = [lstatus EXCEPT ![c][l] = "ACQUIRING"]
    /\ pc' = [pc EXCEPT ![t] = "ping"]
    /\ UNCHANGED <<seq_num, revokeMap, retryMap, lid, held, acquires, relVars,
                   serverVars, netVars>>

SwitchFree(t) ==
    LET c == clientOf[t]  l == lid[t] IN
    /\ pc[t] = "switch"
    /\ lstatus[c][l] = "FREE"
    /\ lstatus' = [lstatus EXCEPT ![c][l] = "LOCKED"]
    /\ pc' = [pc EXCEPT ![t] = "idle"]
    /\ held' = [held EXCEPT ![t] = @ \cup {l}]
    /\ UNCHANGED <<seq_num, revokeMap, retryMap, lid, acquires, relVars,
                   serverVars, netVars>>

SwitchWait(t) ==
    /\ pc[t] = "switch"
    /\ lstatus[clientOf[t]][lid[t]] \notin {"NONE", "FREE"}
    /\ pc' = [pc EXCEPT ![t] = "wait"]
    /\ UNCHANGED <<statusVars, revokeMap, retryMap, lid, held, acquires, relVars,
                   serverVars, netVars>>

\* The server runs the acquire that pingLock sent, first without the mutex ...
PingCheck(t) ==
    LET c == clientOf[t]  l == lid[t] IN
    /\ pc[t] = "ping"
    /\ pc' = [pc EXCEPT ![t] = IF AlreadyHandled(c, l, seq_num[c][l])
                               THEN "ok" ELSE "locked"]
    /\ UNCHANGED <<statusVars, revokeMap, retryMap, lid, held, acquires, relVars,
                   serverVars, netVars>>

\* ... then with it.
PingGrant(t) ==
    LET c == clientOf[t]  l == lid[t] IN
    /\ pc[t] = "locked"
    /\ Grant(c, l, seq_num[c][l])
    /\ pc' = [pc EXCEPT ![t] = "ok"]
    /\ UNCHANGED <<statusVars, revokeMap, retryMap, lid, held, acquires, relVars,
                   sendVars, netVars>>

PingRefuse(t) ==
    /\ pc[t] = "locked"
    /\ Refuse(clientOf[t], lid[t])
    /\ pc' = [pc EXCEPT ![t] = "again"]
    /\ UNCHANGED <<statusVars, revokeMap, retryMap, lid, held, acquires, relVars,
                   sendVars, netVars>>

\* OK arrives and acquire returns.
PingOK(t) ==
    LET c == clientOf[t]  l == lid[t] IN
    /\ pc[t] = "ok"
    /\ lstatus' = [lstatus EXCEPT ![c][l] = "LOCKED"]
    /\ pc' = [pc EXCEPT ![t] = "idle"]
    /\ held' = [held EXCEPT ![t] = @ \cup {l}]
    /\ Leave("acquire", c, l, seq_num[c][l])
    /\ UNCHANGED <<seq_num, revokeMap, retryMap, lid, acquires, relVars, serverVars,
                   checked>>

\* RETRY arrives: ask again at once if the retry call came first, else sleep.
PingAgain(t) ==
    LET c == clientOf[t]  l == lid[t] IN
    /\ pc[t] = "again"
    /\ IF retryMap[c][l]
       THEN /\ pc' = [pc EXCEPT ![t] = "ping"]
            /\ retryMap' = [retryMap EXCEPT ![c][l] = FALSE]
       ELSE pc' = [pc EXCEPT ![t] = "rtrwait"] /\ UNCHANGED retryMap
    /\ Leave("acquire", c, l, seq_num[c][l])
    /\ UNCHANGED <<statusVars, revokeMap, lid, held, acquires, relVars, serverVars,
                   checked>>

\* A sleeper on rtr_cv asks again: it was woken, whichever lock the retry was
\* for, or timedWait gave up after three seconds.
RetryWake(t) ==
    /\ pc[t] \in {"woken", "rtrwait"}
    /\ pc' = [pc EXCEPT ![t] = "ping"]
    /\ retryMap' = [retryMap EXCEPT ![clientOf[t]][lid[t]] = FALSE]
    /\ UNCHANGED <<statusVars, revokeMap, lid, held, acquires, relVars, serverVars,
                   netVars>>

\* mutant: wakes a thread only if one is asleep on this very lock, though others
\* may have slept through the release of theirs
ReleaseIfWanted(t, l) ==
    LET c == clientOf[t] IN
    /\ pc[t] = "idle"
    /\ l \in held[t]
    /\ held' = [held EXCEPT ![t] = @ \ {l}]
    /\ IF revokeMap[c][l] # 0 /\ revokeMap[c][l] = seq_num[c][l]
       THEN /\ lstatus' = [lstatus EXCEPT ![c][l] = "RELEASING"]
            /\ WakeReleaser(c)
            /\ UNCHANGED pc
       ELSE /\ lstatus' = [lstatus EXCEPT ![c][l] = "FREE"]
            /\ IF \E u \in Thread : clientOf[u] = c /\ pc[u] = "wait" /\ lid[u] = l
               THEN Signal(c, "wait", "switch") ELSE UNCHANGED pc
            /\ UNCHANGED relpc
    /\ UNCHANGED <<seq_num, revokeMap, retryMap, lid, acquires, rlock, batch,
                   serverVars, netVars>>

\* release: keep the lock for the other threads, unless it was revoked.
Release(t, l) ==
    LET c == clientOf[t] IN
    /\ pc[t] = "idle"
    /\ l \in held[t]
    /\ held' = [held EXCEPT ![t] = @ \ {l}]
    /\ IF revokeMap[c][l] # 0 /\ revokeMap[c][l] = seq_num[c][l]
       THEN /\ lstatus' = [lstatus EXCEPT ![c][l] = "RELEASING"]
            /\ WakeReleaser(c)
            /\ UNCHANGED pc
       ELSE /\ lstatus' = [lstatus EXCEPT ![c][l] = "FREE"]
            /\ Signal(c, "wait", "switch")
            /\ UNCHANGED relpc
    /\ UNCHANGED <<seq_num, revokeMap, retryMap, lid, acquires, rlock, batch,
                   serverVars, netVars>>

-----------------------------------------------------------------------------
(* The releaser thread of a client *)

ReleaserSleep(c) ==
    /\ relpc[c] = "top"
    /\ \A l \in Lock : revokeMap[c][l] = 0
    /\ relpc' = [relpc EXCEPT ![c] = "asleep"]
    /\ UNCHANGED <<statusVars, revokeMap, retryMap, threadVars, rlock, batch,
                   serverVars, netVars>>

ReleaserSnapshot(c) ==
    /\ relpc[c] = "top"
    /\ \E l \in Lock : revokeMap[c][l] # 0
    /\ relpc' = [relpc EXCEPT ![c] = "scan"]
    /\ batch' = [batch EXCEPT ![c] = revokeMap[c]]
    /\ UNCHANGED <<statusVars, revokeMap, retryMap, threadVars, rlock, serverVars,
                   netVars>>

\* mutant: hands back a lock that a thread uses again
ReleasableInUse(c, l) == seq_num[c][l] = batch[c][l]

Releasable(c, l) == seq_num[c][l] = batch[c][l] /\ lstatus[c][l] = "RELEASING"

\* Still in use, or handed back already: not this time.
ReleaserSkip(c, l) ==
    /\ relpc[c] = "scan"
    /\ batch[c][l] # 0
    /\ ~ Releasable(c, l)
    /\ batch' = [batch EXCEPT ![c][l] = 0]
    /\ UNCHANGED <<statusVars, revokeMap, retryMap, threadVars, relpc, rlock,
                   serverVars, netVars>>

\* mutant: the lock is written off before the server has it back
ReleaserCallEarly(c, l) ==
    /\ relpc[c] = "scan"
    /\ batch[c][l] # 0
    /\ Releasable(c, l)
    /\ relpc' = [relpc EXCEPT ![c] = "call"]
    /\ rlock' = [rlock EXCEPT ![c] = l]
    /\ seq_num' = [seq_num EXCEPT ![c][l] = @ + 1]
    /\ UNCHANGED <<lstatus, revokeMap, retryMap, threadVars, batch, serverVars, netVars>>

ReleaserCall(c, l) ==
    /\ relpc[c] = "scan"
    /\ batch[c][l] # 0
    /\ Releasable(c, l)
    /\ relpc' = [relpc EXCEPT ![c] = "call"]
    /\ rlock' = [rlock EXCEPT ![c] = l]
    /\ UNCHANGED <<statusVars, revokeMap, retryMap, threadVars, batch, serverVars,
                   netVars>>

\* The server runs the release.
ReleaserRelease(c) ==
    /\ relpc[c] = "call"
    /\ ServerRelease(c, rlock[c], seq_num[c][rlock[c]])
    /\ relpc' = [relpc EXCEPT ![c] = "reply"]
    /\ UNCHANGED <<statusVars, revokeMap, retryMap, threadVars, rlock, batch,
                   sendVars, netVars>>

\* mutant: the next acquire uses the old number again
ReleaserDoneSameSeq(c) ==
    LET l == rlock[c] IN
    /\ relpc[c] = "reply"
    /\ lstatus' = [lstatus EXCEPT ![c][l] = "NONE"]
    /\ Signal(c, "wait", "switch")
    /\ relpc' = [relpc EXCEPT ![c] = "scan"]
    /\ batch' = [batch EXCEPT ![c][l] = 0]
    /\ Leave("release", c, l, seq_num[c][l])
    /\ UNCHANGED <<seq_num, revokeMap, retryMap, lid, held, acquires, rlock,
                   serverVars, checked>>

ReleaserDone(c) ==
    LET l == rlock[c] IN
    /\ relpc[c] = "reply"
    /\ lstatus' = [lstatus EXCEPT ![c][l] = "NONE"]
    /\ seq_num' = [seq_num EXCEPT ![c][l] = @ + 1]
    /\ Signal(c, "wait", "switch")
    /\ relpc' = [relpc EXCEPT ![c] = "scan"]
    /\ batch' = [batch EXCEPT ![c][l] = 0]
    /\ Leave("release", c, l, seq_num[c][l])
    /\ UNCHANGED <<revokeMap, retryMap, lid, held, acquires, rlock, serverVars,
                   checked>>

\* A bug: an entry with the current number is taken for an old one.
StaleAndCurrent(c) == {l \in Lock : 0 < revokeMap[c][l] /\ revokeMap[c][l] <= seq_num[c][l]}

Stale(c) == {l \in Lock : 0 < revokeMap[c][l] /\ revokeMap[c][l] < seq_num[c][l]}

\* The loop that erases stale entries goes on from an iterator to the entry it
\* has just erased: after the first one it may find any of the others, or none.
ReleaserCleanup(c) ==
    /\ relpc[c] = "scan"
    /\ \A l \in Lock : batch[c][l] = 0
    /\ relpc' = [relpc EXCEPT ![c] = "top"]
    /\ \E gone \in SUBSET Stale(c) :
         /\ Stale(c) # {} => gone # {}
         /\ revokeMap' = [revokeMap EXCEPT ![c] =
                [l \in Lock |-> IF l \in gone THEN 0 ELSE revokeMap[c][l]]]
    /\ UNCHANGED <<statusVars, retryMap, threadVars, rlock, batch, serverVars, netVars>>

-----------------------------------------------------------------------------
(* The revoker and retryer threads of the server *)

RevokerTake ==
    /\ \A c \in Client, l \in Lock : revoking[c][l] = 0
    /\ \E c \in Client, l \in Lock : srevoke[c][l] # 0
    /\ revoking' = srevoke
    /\ srevoke' = [c \in Client |-> [l \in Lock |-> 0]]
    /\ UNCHANGED <<statusVars, revokeMap, retryMap, threadVars, relVars, allocVars,
                   sretry, has_release, retrying, netVars>>

RevokerCall(c, l) ==
    /\ revoking[c][l] # 0
    /\ Revoke(c, l, revoking[c][l])
    /\ revoking' = [revoking EXCEPT ![c][l] = 0]
    /\ Leave("revoke", c, l, revoking[c][l])
    /\ UNCHANGED <<seq_num, retryMap, threadVars, rlock, batch, allocVars, queueVars,
                   retrying, checked>>

\* mutant: does not wait for a release
RetryerTakeAlways ==
    /\ \A l \in Lock : retrying[l] = {}
    /\ retrying' = sretry
    /\ sretry' = [l \in Lock |-> {}]
    /\ has_release' = has_release - 1
    /\ UNCHANGED <<statusVars, revokeMap, retryMap, threadVars, relVars, allocVars,
                   srevoke, revoking, netVars>>

RetryerTake ==
    /\ \A l \in Lock : retrying[l] = {}
    /\ has_release > 0
    /\ retrying' = sretry
    /\ sretry' = [l \in Lock |-> {}]
    /\ has_release' = has_release - 1
    /\ UNCHANGED <<statusVars, revokeMap, retryMap, threadVars, relVars, allocVars,
                   srevoke, revoking, netVars>>

RetryerCall(c, l) ==
    /\ c \in retrying[l]
    /\ Retry(c, l)
    /\ retrying' = [retrying EXCEPT ![l] = @ \ {c}]
    /\ Leave("retry", c, l, 0)
    /\ UNCHANGED <<statusVars, revokeMap, lid, held, acquires, relVars, allocVars,
                   queueVars, revoking, checked>>

-----------------------------------------------------------------------------
(* Copies of calls that were answered long ago *)

LateRelease(m) ==
    /\ m \in late /\ m.op = "release"
    /\ ServerRelease(m.client, m.lid, m.seq)
    /\ late' = late \ {m}
    /\ UNCHANGED <<statusVars, revokeMap, retryMap, threadVars, relVars, sendVars,
                   checked>>

LateRevoke(m) ==
    /\ m \in late /\ m.op = "revoke"
    /\ Revoke(m.client, m.lid, m.seq)
    /\ late' = late \ {m}
    /\ UNCHANGED <<seq_num, retryMap, threadVars, rlock, batch, serverVars, checked>>

LateRetry(m) ==
    /\ m \in late /\ m.op = "retry"
    /\ Retry(m.client, m.lid)
    /\ late' = late \ {m}
    /\ UNCHANGED <<statusVars, revokeMap, lid, held, acquires, relVars, serverVars,
                   checked>>

LateCheck(m) ==
    /\ m \in late /\ m.op = "acquire"
    /\ late' = late \ {m}
    /\ checked' = IF AlreadyHandled(m.client, m.lid, m.seq)
                  THEN checked ELSE checked \cup {m}
    /\ UNCHANGED <<statusVars, revokeMap, retryMap, threadVars, relVars, serverVars>>

LateAcquire(m) ==
    /\ m \in checked
    /\ Grant(m.client, m.lid, m.seq) \/ Refuse(m.client, m.lid)
    /\ checked' = checked \ {m}
    /\ UNCHANGED <<statusVars, revokeMap, retryMap, threadVars, relVars, sendVars,
                   late>>

-----------------------------------------------------------------------------
\* The constructor starts the retryer before it sets has_release to 0, so the
\* thread may count the uninitialised value down and leave what it likes.
Init ==
    /\ lstatus = [c \in Client |-> [l \in Lock |-> "NONE"]]
    /\ seq_num = [c \in Client |-> [l \in Lock |-> 1]]
    /\ revokeMap = [c \in Client |-> [l \in Lock |-> 0]]
    /\ retryMap = [c \in Client |-> [l \in Lock |-> FALSE]]
    /\ pc = [t \in Thread |-> "idle"]
    /\ lid = [t \in Thread |-> CHOOSE l \in Lock : TRUE]
    /\ held = [t \in Thread |-> {}]
    /\ acquires = 0
    /\ relpc = [c \in Client |-> "top"]
    /\ rlock = [c \in Client |-> CHOOSE l \in Lock : TRUE]
    /\ batch = [c \in Client |-> [l \in Lock |-> 0]]
    /\ isAllocated = [l \in Lock |-> FALSE]
    /\ holder = [l \in Lock |-> CHOOSE c \in Client : TRUE]
    /\ seqNo = [l \in Lock |-> 0]
    /\ clientLockSeqMap = [c \in Client |-> [l \in Lock |-> 0]]
    /\ srevoke = [c \in Client |-> [l \in Lock |-> 0]]
    /\ sretry = [l \in Lock |-> {}]
    /\ has_release \in UninitRelease
    /\ revoking = [c \in Client |-> [l \in Lock |-> 0]]
    /\ retrying = [l \in Lock |-> {}]
    /\ late = {}
    /\ checked = {}

AcquireStep(t) ==
    \/ SwitchNone(t) \/ SwitchFree(t) \/ SwitchWait(t)
    \/ PingCheck(t) \/ PingGrant(t) \/ PingRefuse(t) \/ PingOK(t)
    \/ PingAgain(t) \/ RetryWake(t)

ThreadStep(t) == AcquireStep(t) \/ \E l \in Lock : Release(t, l)

ReleaserStep(c) ==
    \/ ReleaserSleep(c) \/ ReleaserSnapshot(c)
    \/ \E l \in Lock : ReleaserSkip(c, l) \/ ReleaserCall(c, l)
    \/ ReleaserRelease(c) \/ ReleaserDone(c) \/ ReleaserCleanup(c)

RevokerStep == RevokerTake \/ \E c \in Client, l \in Lock : RevokerCall(c, l)

RetryerStep == RetryerTake \/ \E c \in Client, l \in Lock : RetryerCall(c, l)

LateStep ==
    \/ \E m \in late : LateRelease(m) \/ LateRevoke(m) \/ LateRetry(m) \/ LateCheck(m)
    \/ \E m \in checked : LateAcquire(m)

Next ==
    \/ \E t \in Thread : ThreadStep(t) \/ \E l \in Lock : Acquire(t, l)
    \/ \E c \in Client : ReleaserStep(c)
    \/ RevokerStep \/ RetryerStep
    \/ LateStep

Spec == Init /\ [][Next]_vars

\* Threads are scheduled, calls return, timedWait times out, and whoever holds
\* a lock releases it.  Copies need never run.
Fairness ==
    /\ \A t \in Thread : WF_vars(ThreadStep(t))
    /\ \A c \in Client : WF_vars(ReleaserStep(c))
    /\ WF_vars(RevokerStep)
    /\ WF_vars(RetryerStep)

FairSpec == Spec /\ Fairness

-----------------------------------------------------------------------------
Call == [op : Ops, client : Client, lid : Lock, seq : Nat]

\* The variables have their types; at most one copy per call that left one.
TypeOK ==
    /\ lstatus \in [Client -> [Lock -> Status]]
    /\ seq_num \in [Client -> [Lock -> Nat]]
    /\ revokeMap \in [Client -> [Lock -> Nat]]
    /\ retryMap \in [Client -> [Lock -> BOOLEAN]]
    /\ pc \in [Thread -> Acquiring \cup {"idle"}]
    /\ lid \in [Thread -> Lock]
    /\ held \in [Thread -> SUBSET Lock]
    /\ acquires \in Nat
    /\ relpc \in [Client -> {"top", "asleep", "scan", "call", "reply"}]
    /\ rlock \in [Client -> Lock]
    /\ batch \in [Client -> [Lock -> Nat]]
    /\ isAllocated \in [Lock -> BOOLEAN]
    /\ holder \in [Lock -> Client]
    /\ seqNo \in [Lock -> Nat]
    /\ clientLockSeqMap \in [Client -> [Lock -> Nat]]
    /\ srevoke \in [Client -> [Lock -> Nat]]
    /\ sretry \in [Lock -> SUBSET Client]
    /\ has_release \in Nat
    /\ revoking \in [Client -> [Lock -> Nat]]
    /\ retrying \in [Lock -> SUBSET Client]
    /\ late \subseteq Call
    /\ checked \subseteq Call

\* No two threads, of one client or of two, are ever both back from acquire of
\* one lock without having called release (check_grant of lock_tester.cc).
MutualExclusion ==
    \A t, u \in Thread : t # u => held[t] \cap held[u] = {}

\* No assertion of the two programs fails: release finds its lock LOCKED; the
\* server finds a lock it is given back allocated; and an acquire about to be
\* refused finds no revoke queued for the holder with a number above the one it
\* was granted (add_Revoke_Request: "Revoke req is not greater than one client
\* is serving").  With a copy of an acquire this last one can fail.
AssertsHold ==
    /\ \A t \in Thread : \A l \in held[t] : lstatus[clientOf[t]][l] = "LOCKED"
    /\ \A c \in Client :
         relpc[c] = "call" /\ holder[rlock[c]] = c
           /\ seqNo[rlock[c]] = seq_num[c][rlock[c]] => isAllocated[rlock[c]]
    /\ \A m \in late :
         m.op = "release" /\ holder[m.lid] = m.client /\ seqNo[m.lid] = m.seq
           => isAllocated[m.lid]
    /\ \A l \in {lid[t] : t \in {u \in Thread : pc[u] = "locked"}}
               \cup {m.lid : m \in checked} :
         isAllocated[l] =>
            clientLockSeqMap[holder[l]][l] >= srevoke[holder[l]][l]

\* A lock the server believes to be out under some number is with the client
\* of that name, which still works under that number: so a revoke for it is
\* never ignored as old, and the lock can be had back.
HolderIsCurrent ==
    \A l \in Lock : isAllocated[l] => seq_num[holder[l]][l] = seqNo[l]

\* A lock that a client is to give back is given back: the revoke it was set
\* RELEASING for stays in revokeMap until then, whatever other locks the client
\* holds and whichever stale entries releaser erases meanwhile, and releaser is
\* awake (revoke, releaser).
RevokeKept ==
    \A c \in Client, l \in Lock :
        lstatus[c][l] = "RELEASING" =>
            relpc[c] # "asleep" /\ revokeMap[c][l] = seq_num[c][l]

\* Every acquire returns.
AcquireReturns == \A t \in Thread : pc[t] \in Acquiring ~> pc[t] = "idle"

\* A client that was refused a lock is sent a retry call for it (lock_client_cache.h:
\* "at some point later, the server sends the thread a retry RPC").
RetrySent ==
    \A c \in Client, l \in Lock : c \in sretry[l] ~> c \in retrying[l]

=============================================================================
