-------------------------- MODULE LockCacheProofs --------------------------
(***************************************************************************)
(* Proofs about LockCache for any clients, threads, locks and bounds: type *)
(* correctness, mutual exclusion, and that it implements LockService.      *)
(***************************************************************************)
EXTENDS LockInv, TLAPS

USE ClientAssumption

-----------------------------------------------------------------------------
(* What the helpers do *)

LEMMA UpdateType ==
  ASSUME NEW S, NEW f \in [Client -> [Lock -> S]], NEW c \in Client, NEW l \in Lock,
         NEW x \in S
  PROVE  [f EXCEPT ![c][l] = x] \in [Client -> [Lock -> S]]
OBVIOUS

LEMMA SignalEffect ==
  ASSUME TypeOK, NEW c \in Client, NEW a, NEW b \in Acquiring, Signal(c, a, b)
  PROVE  /\ pc' \in [Thread -> Acquiring \cup {"idle"}]
         /\ \A t \in Thread : pc'[t] = pc[t] \/ (pc[t] = a /\ pc'[t] = b)
<1>1. CASE {t \in ThreadsOf(c) : pc[t] = a} = {}
  BY <1>1 DEF Signal, TypeOK
<1>2. CASE {t \in ThreadsOf(c) : pc[t] = a} # {}
  <2>1. PICK t \in ThreadsOf(c) : pc[t] = a /\ pc' = [pc EXCEPT ![t] = b]
    BY <1>2 DEF Signal
  <2>2. t \in Thread
    BY DEF ThreadsOf
  <2>3. QED BY <2>1, <2>2 DEF TypeOK
<1>3. QED BY <1>1, <1>2

LEMMA WakeReleaserEffect ==
  ASSUME TypeOK, NEW c \in Client, WakeReleaser(c)
  PROVE  /\ relpc' \in [Client -> {"top", "asleep", "scan", "call", "reply"}]
         /\ \A d \in Client : (relpc'[d] = relpc[d])
                              \/ (relpc[d] = "asleep" /\ relpc'[d] = "top")
BY DEF TypeOK, WakeReleaser

LEMMA LeaveEffect ==
  ASSUME TypeOK, NEW o \in Ops, NEW c \in Client, NEW l \in Lock, NEW s \in Nat,
         Leave(o, c, l, s)
  PROVE  /\ late' \subseteq Call
         /\ \A m \in late' : m \in late \/
              (m.op = o /\ m.client = c /\ m.lid = l /\ m.seq = s)
BY DEF TypeOK, Leave, Call

-----------------------------------------------------------------------------
(* Initial states *)

LEMMA InitInv == Init => LockInvariant
<1> SUFFICES ASSUME Init PROVE LockInvariant
  OBVIOUS
<1>1. (CHOOSE l \in Lock : TRUE) \in Lock
  BY LockAssumption
<1>2. (CHOOSE c \in Client : TRUE) \in Client
  BY ClientAssumption
<1>3. TypeOK
  BY <1>1, <1>2, UninitReleaseAssumption DEF Init, TypeOK, Status, Acquiring, Call
<1>4. ThreadInv /\ ReleaserInv /\ LateInv
  BY DEF Init, ThreadInv, ReleaserInv, LateInv, Fetching
<1>5. OwnerInv
  BY DEF Init, OwnerInv, Owns, Returned
<1>6. QED
  BY <1>3, <1>4, <1>5 DEF LockInvariant

-----------------------------------------------------------------------------
(* Type correctness *)

LEMMA GrantType ==
  ASSUME TypeOK, NEW c \in Client, NEW l \in Lock, NEW s \in Nat, Grant(c, l, s)
  PROVE  /\ isAllocated' \in [Lock -> BOOLEAN] /\ holder' \in [Lock -> Client]
         /\ seqNo' \in [Lock -> Nat]
         /\ clientLockSeqMap' \in [Client -> [Lock -> Nat]]
         /\ UNCHANGED queueVars
BY DEF TypeOK, Grant

LEMMA RefuseType ==
  ASSUME TypeOK, NEW c \in Client, NEW l \in Lock, Refuse(c, l)
  PROVE  /\ srevoke' \in [Client -> [Lock -> Nat]]
         /\ sretry' \in [Lock -> SUBSET Client]
         /\ UNCHANGED <<allocVars, has_release>>
<1>1. srevoke' \in [Client -> [Lock -> Nat]]
  BY DEF TypeOK, Refuse
<1>2. sretry' \in [Lock -> SUBSET Client]
  BY DEF TypeOK, Refuse
<1>3. QED BY <1>1, <1>2 DEF Refuse

LEMMA ServerReleaseType ==
  ASSUME TypeOK, NEW c \in Client, NEW l \in Lock, NEW s \in Nat, ServerRelease(c, l, s)
  PROVE  /\ isAllocated' \in [Lock -> BOOLEAN] /\ seqNo' \in [Lock -> Nat]
         /\ has_release' \in Nat
         /\ UNCHANGED <<holder, clientLockSeqMap, srevoke, sretry>>
<1>1. CASE s = seqNo[l] /\ c = holder[l]
  <2>1. isAllocated' \in [Lock -> BOOLEAN]
    BY <1>1 DEF TypeOK, ServerRelease
  <2>2. has_release' \in Nat
    BY <1>1 DEF TypeOK, ServerRelease
  <2>3. seqNo' \in [Lock -> Nat]
    <3>1. seqNo \in [Lock -> Nat] /\ seqNo' = [seqNo EXCEPT ![l] = 0]
      BY <1>1 DEF TypeOK, ServerRelease
    <3>2. QED BY <3>1
  <2>4. QED BY <1>1, <2>1, <2>2, <2>3 DEF ServerRelease
<1>2. CASE ~ (s = seqNo[l] /\ c = holder[l])
  BY <1>2 DEF TypeOK, ServerRelease, allocVars, queueVars
<1>3. QED BY <1>1, <1>2

LEMMA RevokeType ==
  ASSUME TypeOK, NEW c \in Client, NEW l \in Lock, NEW s \in Nat, Revoke(c, l, s)
  PROVE  /\ revokeMap' \in [Client -> [Lock -> Nat]]
         /\ lstatus' \in [Client -> [Lock -> Status]]
         /\ relpc' \in [Client -> {"top", "asleep", "scan", "call", "reply"}]
<1>1. CASE UNCHANGED <<revokeMap, lstatus, relpc>>
  BY <1>1 DEF TypeOK
<1>2. CASE ~ UNCHANGED <<revokeMap, lstatus, relpc>>
  <2>1. revokeMap' = [revokeMap EXCEPT ![c][l] = s]
    BY <1>2 DEF Revoke
  <2>2. \/ UNCHANGED <<lstatus, relpc>>
        \/ lstatus' = [lstatus EXCEPT ![c][l] = "RELEASING"] /\ WakeReleaser(c)
    BY <1>2 DEF Revoke
  <2>3. "RELEASING" \in Status
    BY DEF Status
  <2>4. revokeMap' \in [Client -> [Lock -> Nat]]
    BY <2>1 DEF TypeOK
  <2>5. lstatus' \in [Client -> [Lock -> Status]]
    <3>1. lstatus \in [Client -> [Lock -> Status]]
      BY DEF TypeOK
    <3>2. [lstatus EXCEPT ![c][l] = "RELEASING"] \in [Client -> [Lock -> Status]]
      BY <2>3, <3>1, UpdateType, Zenon
    <3>3. QED BY <2>2, <3>1, <3>2
  <2>6. relpc' \in [Client -> {"top", "asleep", "scan", "call", "reply"}]
    BY <2>2, WakeReleaserEffect DEF TypeOK
  <2>7. QED BY <2>4, <2>5, <2>6
<1>3. QED BY <1>1, <1>2

LEMMA RetryType ==
  ASSUME TypeOK, NEW c \in Client, NEW l \in Lock, Retry(c, l)
  PROVE  /\ retryMap' \in [Client -> [Lock -> BOOLEAN]]
         /\ pc' \in [Thread -> Acquiring \cup {"idle"}]
<1>1. retryMap' \in [Client -> [Lock -> BOOLEAN]]
  BY DEF TypeOK, Retry
<1>2. pc' \in [Thread -> Acquiring \cup {"idle"}]
  BY SignalEffect DEF Retry, Acquiring
<1>3. QED BY <1>1, <1>2

LEMMA ThreadType ==
  ASSUME TypeOK, NEW t \in Thread,
         ThreadStep(t) \/ \E l \in Lock : Acquire(t, l)
  PROVE  TypeOK'
<1> USE DEF statusVars, threadVars, relVars, serverVars, allocVars, queueVars,
            sendVars, netVars
<1> DEFINE c == clientOf[t]
<1>b. /\ \A a \in {"idle", "switch", "wait", "ping", "locked", "ok", "again",
                   "rtrwait", "woken"} : a \in Acquiring \cup {"idle"}
      /\ \A a \in {"NONE", "FREE", "LOCKED", "ACQUIRING", "RELEASING"} : a \in Status
  BY DEF Acquiring, Status
<1>0. c \in Client /\ lid[t] \in Lock /\ seq_num[c][lid[t]] \in Nat
  BY DEF TypeOK
<1>1. ASSUME NEW l \in Lock, Acquire(t, l) PROVE TypeOK'
  BY <1>0, <1>b, <1>1 DEF TypeOK, Acquire
<1>2. CASE SwitchNone(t)
  BY <1>0, <1>b, <1>2 DEF TypeOK, SwitchNone
<1>3. CASE SwitchFree(t)
  BY <1>0, <1>b, <1>3 DEF TypeOK, SwitchFree
<1>4. CASE SwitchWait(t)
  BY <1>0, <1>b, <1>4 DEF TypeOK, SwitchWait
<1>5. CASE PingCheck(t)
  BY <1>0, <1>b, <1>5 DEF TypeOK, PingCheck
<1>6. CASE PingGrant(t)
  <2>1. /\ isAllocated' \in [Lock -> BOOLEAN] /\ holder' \in [Lock -> Client]
        /\ seqNo' \in [Lock -> Nat]
        /\ clientLockSeqMap' \in [Client -> [Lock -> Nat]]
        /\ UNCHANGED queueVars
    BY <1>0, <1>b, <1>6, GrantType DEF PingGrant
  <2>2. QED BY <1>0, <1>b, <1>6, <2>1 DEF TypeOK, PingGrant
<1>7. CASE PingRefuse(t)
  <2>1. /\ srevoke' \in [Client -> [Lock -> Nat]]
        /\ sretry' \in [Lock -> SUBSET Client]
        /\ UNCHANGED <<allocVars, has_release>>
    BY <1>0, <1>b, <1>7, RefuseType DEF PingRefuse
  <2>2. QED BY <1>0, <1>b, <1>7, <2>1 DEF TypeOK, PingRefuse
<1>8. CASE PingOK(t)
  <2>1. late' \subseteq Call
    BY <1>0, <1>b, <1>8, LeaveEffect DEF PingOK, Ops
  <2>2. QED BY <1>0, <1>b, <1>8, <2>1 DEF TypeOK, PingOK
<1>9. CASE PingAgain(t)
  <2>1. late' \subseteq Call
    BY <1>0, <1>b, <1>9, LeaveEffect DEF PingAgain, Ops
  <2>2. retryMap' \in [Client -> [Lock -> BOOLEAN]]
    <3>1. \/ UNCHANGED retryMap
          \/ retryMap' = [retryMap EXCEPT ![c][lid[t]] = FALSE]
      BY <1>9 DEF PingAgain
    <3>2. retryMap \in [Client -> [Lock -> BOOLEAN]]
      BY DEF TypeOK
    <3>3. [retryMap EXCEPT ![c][lid[t]] = FALSE] \in [Client -> [Lock -> BOOLEAN]]
      BY <1>0, <3>2, UpdateType, Zenon
    <3>4. QED BY <3>1, <3>2, <3>3
  <2>3. pc' \in [Thread -> Acquiring \cup {"idle"}]
    BY <1>0, <1>b, <1>9 DEF TypeOK, PingAgain
  <2>4. QED BY <1>0, <1>b, <1>9, <2>1, <2>2, <2>3 DEF TypeOK, PingAgain
<1>10. CASE RetryWake(t)
  BY <1>0, <1>b, <1>10 DEF TypeOK, RetryWake
<1>11. ASSUME NEW l \in Lock, Release(t, l) PROVE TypeOK'
  <2>1. lstatus' \in [Client -> [Lock -> Status]]
    <3>1. \/ lstatus' = [lstatus EXCEPT ![c][l] = "RELEASING"]
          \/ lstatus' = [lstatus EXCEPT ![c][l] = "FREE"]
      BY <1>11 DEF Release
    <3>2. lstatus \in [Client -> [Lock -> Status]]
      BY DEF TypeOK
    <3>3. /\ [lstatus EXCEPT ![c][l] = "RELEASING"] \in [Client -> [Lock -> Status]]
          /\ [lstatus EXCEPT ![c][l] = "FREE"] \in [Client -> [Lock -> Status]]
      BY <1>0, <1>b, <3>2, UpdateType, Zenon
    <3>4. QED BY <3>1, <3>3
  <2>2. pc' \in [Thread -> Acquiring \cup {"idle"}]
    BY <1>0, <1>b, <1>11, SignalEffect DEF TypeOK, Release, Acquiring
  <2>3. relpc' \in [Client -> {"top", "asleep", "scan", "call", "reply"}]
    BY <1>0, <1>b, <1>11, WakeReleaserEffect DEF TypeOK, Release
  <2>4. held' \in [Thread -> SUBSET Lock]
    BY <1>11 DEF TypeOK, Release
  <2>5. QED BY <1>11, <2>1, <2>2, <2>3, <2>4 DEF TypeOK, Release
<1>12. QED
  BY <1>1, <1>2, <1>3, <1>4, <1>5, <1>6, <1>7, <1>8, <1>9, <1>10, <1>11
     DEF ThreadStep, AcquireStep

LEMMA ReleaserType ==
  ASSUME TypeOK, NEW c \in Client, ReleaserStep(c)
  PROVE  TypeOK'
<1> USE DEF statusVars, threadVars, relVars, serverVars, allocVars, queueVars,
            sendVars, netVars
<1>0. rlock[c] \in Lock /\ seq_num[c][rlock[c]] \in Nat
  BY DEF TypeOK
<1>1. CASE ReleaserSleep(c)
  BY <1>1 DEF TypeOK, ReleaserSleep
<1>2. CASE ReleaserSnapshot(c)
  BY <1>2 DEF TypeOK, ReleaserSnapshot
<1>3. ASSUME NEW l \in Lock, ReleaserSkip(c, l) PROVE TypeOK'
  BY <1>3 DEF TypeOK, ReleaserSkip
<1>4. ASSUME NEW l \in Lock, ReleaserCall(c, l) PROVE TypeOK'
  BY <1>4 DEF TypeOK, ReleaserCall
<1>5. CASE ReleaserRelease(c)
  <2>1. /\ isAllocated' \in [Lock -> BOOLEAN] /\ seqNo' \in [Lock -> Nat]
        /\ has_release' \in Nat
        /\ UNCHANGED <<holder, clientLockSeqMap, srevoke, sretry>>
    BY <1>0, <1>5, ServerReleaseType DEF ReleaserRelease
  <2>2. QED BY <1>5, <2>1 DEF TypeOK, ReleaserRelease
<1>6. CASE ReleaserDone(c)
  <2>1. late' \subseteq Call
    BY <1>0, <1>6, LeaveEffect DEF ReleaserDone, Ops
  <2>2. pc' \in [Thread -> Acquiring \cup {"idle"}]
    BY <1>6, SignalEffect DEF ReleaserDone, Acquiring
  <2>3. lstatus' \in [Client -> [Lock -> Status]]
    BY <1>0, <1>6, UpdateType DEF TypeOK, ReleaserDone, Status
  <2>4. seq_num' \in [Client -> [Lock -> Nat]]
    BY <1>0, <1>6 DEF TypeOK, ReleaserDone
  <2>5. batch' \in [Client -> [Lock -> Nat]]
    BY <1>0, <1>6 DEF TypeOK, ReleaserDone
  <2>6. QED BY <1>6, <2>1, <2>2, <2>3, <2>4, <2>5 DEF TypeOK, ReleaserDone
<1>7. CASE ReleaserCleanup(c)
  <2>1. revokeMap' \in [Client -> [Lock -> Nat]]
    BY <1>7 DEF TypeOK, ReleaserCleanup
  <2>2. QED BY <1>7, <2>1 DEF TypeOK, ReleaserCleanup
<1>8. QED
  BY <1>1, <1>2, <1>3, <1>4, <1>5, <1>6, <1>7 DEF ReleaserStep

LEMMA ServerType ==
  ASSUME TypeOK, RevokerStep \/ RetryerStep
  PROVE  TypeOK'
<1> USE DEF statusVars, threadVars, relVars, serverVars, allocVars, queueVars,
            sendVars, netVars
<1>1. CASE RevokerTake
  BY <1>1 DEF TypeOK, RevokerTake
<1>2. ASSUME NEW c \in Client, NEW l \in Lock, RevokerCall(c, l) PROVE TypeOK'
  <2>0. revoking[c][l] \in Nat
    BY DEF TypeOK
  <2>1. /\ revokeMap' \in [Client -> [Lock -> Nat]]
        /\ lstatus' \in [Client -> [Lock -> Status]]
        /\ relpc' \in [Client -> {"top", "asleep", "scan", "call", "reply"}]
    BY <1>2, <2>0, RevokeType DEF RevokerCall
  <2>2. late' \subseteq Call
    BY <1>2, <2>0, LeaveEffect DEF RevokerCall, Ops
  <2>3. revoking' \in [Client -> [Lock -> Nat]]
    BY <1>2 DEF TypeOK, RevokerCall
  <2>4. QED BY <1>2, <2>1, <2>2, <2>3 DEF TypeOK, RevokerCall
<1>3. CASE RetryerTake
  BY <1>3 DEF TypeOK, RetryerTake
<1>4. ASSUME NEW c \in Client, NEW l \in Lock, RetryerCall(c, l) PROVE TypeOK'
  <2>1. /\ retryMap' \in [Client -> [Lock -> BOOLEAN]]
        /\ pc' \in [Thread -> Acquiring \cup {"idle"}]
    BY <1>4, RetryType DEF RetryerCall
  <2>2. late' \subseteq Call
    BY <1>4, LeaveEffect DEF RetryerCall, Ops
  <2>3. retrying' \in [Lock -> SUBSET Client]
    BY <1>4 DEF TypeOK, RetryerCall
  <2>4. QED BY <1>4, <2>1, <2>2, <2>3 DEF TypeOK, RetryerCall
<1>5. QED
  BY <1>1, <1>2, <1>3, <1>4 DEF RevokerStep, RetryerStep

LEMMA LateType ==
  ASSUME TypeOK, LateStep
  PROVE  TypeOK'
<1> USE DEF statusVars, threadVars, relVars, serverVars, allocVars, queueVars,
            sendVars, netVars
<1>0. \A m \in late \cup checked : m.client \in Client /\ m.lid \in Lock /\ m.seq \in Nat
  BY DEF TypeOK, Call
<1>1. ASSUME NEW m \in late, LateRelease(m) PROVE TypeOK'
  <2>1. /\ isAllocated' \in [Lock -> BOOLEAN] /\ seqNo' \in [Lock -> Nat]
        /\ has_release' \in Nat
        /\ UNCHANGED <<holder, clientLockSeqMap, srevoke, sretry>>
    BY <1>0, <1>1, ServerReleaseType DEF LateRelease
  <2>2. QED BY <1>1, <2>1 DEF TypeOK, LateRelease
<1>2. ASSUME NEW m \in late, LateRevoke(m) PROVE TypeOK'
  <2>1. /\ revokeMap' \in [Client -> [Lock -> Nat]]
        /\ lstatus' \in [Client -> [Lock -> Status]]
        /\ relpc' \in [Client -> {"top", "asleep", "scan", "call", "reply"}]
    BY <1>0, <1>2, RevokeType DEF LateRevoke
  <2>2. QED BY <1>2, <2>1 DEF TypeOK, LateRevoke
<1>3. ASSUME NEW m \in late, LateRetry(m) PROVE TypeOK'
  <2>1. /\ retryMap' \in [Client -> [Lock -> BOOLEAN]]
        /\ pc' \in [Thread -> Acquiring \cup {"idle"}]
    BY <1>0, <1>3, RetryType DEF LateRetry
  <2>2. QED BY <1>3, <2>1 DEF TypeOK, LateRetry
<1>4. ASSUME NEW m \in late, LateCheck(m) PROVE TypeOK'
  BY <1>4 DEF TypeOK, LateCheck
<1>5. ASSUME NEW m \in checked, LateAcquire(m) PROVE TypeOK'
  <2>1. CASE Grant(m.client, m.lid, m.seq)
    <3>1. /\ isAllocated' \in [Lock -> BOOLEAN] /\ holder' \in [Lock -> Client]
          /\ seqNo' \in [Lock -> Nat]
          /\ clientLockSeqMap' \in [Client -> [Lock -> Nat]]
          /\ UNCHANGED queueVars
      BY <1>0, <2>1, GrantType
    <3>2. QED BY <1>5, <3>1 DEF TypeOK, LateAcquire
  <2>2. CASE Refuse(m.client, m.lid)
    <3>1. /\ srevoke' \in [Client -> [Lock -> Nat]]
          /\ sretry' \in [Lock -> SUBSET Client]
          /\ UNCHANGED <<allocVars, has_release>>
      BY <1>0, <2>2, RefuseType
    <3>2. QED BY <1>5, <3>1 DEF TypeOK, LateAcquire
  <2>3. QED BY <1>5, <2>1, <2>2 DEF LateAcquire
<1>6. QED
  BY <1>1, <1>2, <1>3, <1>4, <1>5 DEF LateStep

LEMMA TypeStep == TypeOK /\ [Next]_vars => TypeOK'
<1>1. ASSUME TypeOK, UNCHANGED vars PROVE TypeOK'
  BY <1>1 DEF TypeOK, vars, statusVars, threadVars, relVars, serverVars, allocVars,
              queueVars, sendVars, netVars
<1>2. QED
  BY <1>1, ThreadType, ReleaserType, ServerType, LateType DEF Next

-----------------------------------------------------------------------------
(* Copies of old calls *)

LEMMA LateStepInv ==
  ASSUME LockInvariant, [Next]_vars
  PROVE  LateInv'
<1> USE DEF LockInvariant
<1>0. TypeOK /\ TypeOK' /\ LateInv
  BY TypeStep
<1>1. \A m \in late \cup checked : m.client \in Client /\ m.lid \in Lock /\ m.seq \in Nat
  BY <1>0 DEF TypeOK, Call
<1>2. ASSUME UNCHANGED <<seq_num, checked>>, NEW o \in Ops, NEW c \in Client,
             NEW l \in Lock, NEW s \in Nat, Leave(o, c, l, s),
             o = "acquire" => s <= seq_num[c][l], o # "release"
      PROVE  LateInv'
  <2>1. \A m \in late' : m \in late \/
            (m.op = o /\ m.client = c /\ m.lid = l /\ m.seq = s)
    BY <1>0, <1>2, LeaveEffect
  <2>2. QED BY <1>0, <1>2, <2>1 DEF LateInv
<1>3. ASSUME UNCHANGED seq_num, late' \subseteq late, checked' \subseteq checked
      PROVE  LateInv'
  BY <1>0, <1>3 DEF LateInv
<1>4. ASSUME NEW t \in Thread, ThreadStep(t) \/ \E l \in Lock : Acquire(t, l)
      PROVE  LateInv'
  <2>0. /\ clientOf[t] \in Client /\ lid[t] \in Lock
        /\ seq_num[clientOf[t]][lid[t]] \in Nat
    BY <1>0 DEF TypeOK
  <2>1. CASE PingOK(t) \/ PingAgain(t)
    <3>1. /\ UNCHANGED <<seq_num, checked>>
          /\ Leave("acquire", clientOf[t], lid[t], seq_num[clientOf[t]][lid[t]])
      BY <2>1 DEF PingOK, PingAgain, statusVars
    <3>2. seq_num[clientOf[t]][lid[t]] <= seq_num[clientOf[t]][lid[t]]
      BY <2>0
    <3>3. QED BY <1>2, <2>0, <3>1, <3>2 DEF Ops
  <2>2. CASE ~ (PingOK(t) \/ PingAgain(t))
    <3>1. UNCHANGED <<seq_num, late, checked>>
      BY <1>4, <2>2 DEF ThreadStep, AcquireStep, Acquire, SwitchNone, SwitchFree,
         SwitchWait, PingCheck, PingGrant, PingRefuse, RetryWake, Release,
         statusVars, netVars
    <3>2. QED BY <1>3, <3>1
  <2>3. QED BY <2>1, <2>2
<1>5. ASSUME NEW c \in Client, ReleaserStep(c) PROVE LateInv'
  <2>1. CASE ReleaserDone(c)
    <3> DEFINE k == rlock[c]
    <3>0. /\ k \in Lock /\ seq_num[c][k] \in Nat
          /\ seq_num \in [Client -> [Lock -> Nat]] /\ seq_num' \in [Client -> [Lock -> Nat]]
      BY <1>0 DEF TypeOK
    <3>1. \A m \in late' : m \in late \/
              (m.op = "release" /\ m.client = c /\ m.lid = k /\ m.seq = seq_num[c][k])
      BY <1>0, <2>1, <3>0, LeaveEffect DEF ReleaserDone, Ops
    <3>2. /\ seq_num'[c][k] = seq_num[c][k] + 1
          /\ \A d \in Client, l \in Lock : seq_num[d][l] <= seq_num'[d][l]
      BY <2>1, <3>0 DEF ReleaserDone
    <3>3. checked' = checked
      BY <2>1 DEF ReleaserDone
    <3>4. \A m \in checked' : m.seq <= seq_num'[m.client][m.lid]
      <4>1. TAKE m \in checked'
      <4>2. /\ m.seq <= seq_num[m.client][m.lid]
            /\ seq_num[m.client][m.lid] <= seq_num'[m.client][m.lid]
        BY <1>0, <1>1, <3>2, <3>3 DEF LateInv
      <4>3. /\ m.seq \in Nat /\ seq_num[m.client][m.lid] \in Nat
            /\ seq_num'[m.client][m.lid] \in Nat
        BY <1>1, <3>0, <3>3
      <4>4. QED BY <4>2, <4>3
    <3>5. ASSUME NEW m \in late', m \in late
          PROVE  /\ m.op = "acquire" => m.seq <= seq_num'[m.client][m.lid]
                 /\ m.op = "release" => m.seq < seq_num'[m.client][m.lid]
      <4>1. /\ m.op = "acquire" => m.seq <= seq_num[m.client][m.lid]
            /\ m.op = "release" => m.seq < seq_num[m.client][m.lid]
            /\ seq_num[m.client][m.lid] <= seq_num'[m.client][m.lid]
        BY <1>0, <1>1, <3>2, <3>5 DEF LateInv
      <4>2. /\ m.seq \in Nat /\ seq_num[m.client][m.lid] \in Nat
            /\ seq_num'[m.client][m.lid] \in Nat
        BY <1>1, <3>0, <3>5
      <4>3. QED BY <4>1, <4>2
    <3>6. ASSUME NEW m \in late', m \notin late
          PROVE  /\ m.op = "acquire" => m.seq <= seq_num'[m.client][m.lid]
                 /\ m.op = "release" => m.seq < seq_num'[m.client][m.lid]
      BY <3>0, <3>1, <3>2, <3>6
    <3>7. QED BY <3>4, <3>5, <3>6 DEF LateInv
  <2>2. CASE ~ ReleaserDone(c)
    <3>1. UNCHANGED <<seq_num, late, checked>>
      BY <1>5, <2>2 DEF ReleaserStep, ReleaserSleep, ReleaserSnapshot, ReleaserSkip,
         ReleaserCall, ReleaserRelease, ReleaserCleanup, statusVars, netVars
    <3>2. QED BY <1>3, <3>1
  <2>3. QED BY <2>1, <2>2
<1>6. CASE RevokerStep
  <2>1. CASE RevokerTake
    BY <1>3, <2>1 DEF RevokerTake, statusVars, netVars
  <2>2. ASSUME NEW c \in Client, NEW l \in Lock, RevokerCall(c, l) PROVE LateInv'
    <3>1. revoking[c][l] \in Nat
      BY <1>0 DEF TypeOK
    <3>2. Leave("revoke", c, l, revoking[c][l]) /\ UNCHANGED <<seq_num, checked>>
      BY <2>2 DEF RevokerCall
    <3>3. QED BY <1>2, <3>1, <3>2 DEF Ops
  <2>3. QED BY <1>6, <2>1, <2>2 DEF RevokerStep
<1>7. CASE RetryerStep
  <2>1. CASE RetryerTake
    BY <1>3, <2>1 DEF RetryerTake, statusVars, netVars
  <2>2. ASSUME NEW c \in Client, NEW l \in Lock, RetryerCall(c, l) PROVE LateInv'
    BY <1>2, <2>2 DEF RetryerCall, statusVars, Ops
  <2>3. QED BY <1>7, <2>1, <2>2 DEF RetryerStep
<1>8. CASE LateStep
  <2>1. ASSUME NEW m \in late, LateRelease(m) \/ LateRevoke(m) \/ LateRetry(m)
        PROVE  LateInv'
    BY <1>3, <2>1 DEF LateRelease, LateRevoke, LateRetry, statusVars
  <2>2. ASSUME NEW m \in late, LateCheck(m) PROVE LateInv'
    BY <1>0, <2>2 DEF LateCheck, LateInv, statusVars
  <2>3. ASSUME NEW m \in checked, LateAcquire(m) PROVE LateInv'
    BY <1>3, <2>3 DEF LateAcquire, statusVars
  <2>4. QED BY <1>8, <2>1, <2>2, <2>3 DEF LateStep
<1>9. CASE UNCHANGED vars
  BY <1>3, <1>9 DEF vars, statusVars, netVars
<1>10. QED
  BY <1>4, <1>5, <1>6, <1>7, <1>8, <1>9 DEF Next

-----------------------------------------------------------------------------
(* Threads, releasers and owners *)

LEMMA Frame ==
  ASSUME LockInvariant,
         UNCHANGED <<lstatus, seq_num, held, rlock, isAllocated, holder, seqNo,
                     clientLockSeqMap>>,
         \A c \in Client : /\ relpc'[c] \in {"call", "reply"} => relpc'[c] = relpc[c]
                           /\ relpc[c] = "reply" => relpc'[c] = "reply",
         \A t \in Thread : /\ pc'[t] \in Fetching => pc[t] \in Fetching /\ lid'[t] = lid[t]
                           /\ pc'[t] = "ok" => pc[t] = "ok"
  PROVE  ThreadInv' /\ ReleaserInv' /\ OwnerInv'
<1>1. ThreadInv'
  BY DEF LockInvariant, ThreadInv
<1>2. ReleaserInv'
  BY DEF LockInvariant, ReleaserInv
<1>3. \A c \in Client, l \in Lock :
         /\ Returned(c, l)' <=> Returned(c, l)
         /\ Owns(c, l)' => Owns(c, l)
         /\ Allocated(c, l)' <=> Allocated(c, l)
  BY DEF Returned, Owns, Allocated, Fetching
<1>4. OwnerInv'
  BY <1>3 DEF LockInvariant, OwnerInv
<1>5. QED BY <1>1, <1>2, <1>4

LEMMA OwnerFrame ==
  ASSUME OwnerInv,
         UNCHANGED <<seq_num, isAllocated, holder, seqNo, clientLockSeqMap>>,
         \A c \in Client, l \in Lock :
            (Returned(c, l) => Returned(c, l)') /\ (Owns(c, l)' => Owns(c, l))
  PROVE  OwnerInv'
BY DEF OwnerInv, Allocated

LEMMA SwitchNoneInv ==
  ASSUME LockInvariant, NEW t \in Thread, SwitchNone(t)
  PROVE  ThreadInv' /\ ReleaserInv' /\ OwnerInv'
<1> DEFINE c == clientOf[t]
           k == lid[t]
<1> USE DEF LockInvariant, statusVars, relVars, serverVars, allocVars
<1>0. /\ c \in Client /\ k \in Lock /\ lstatus \in [Client -> [Lock -> Status]]
      /\ pc \in [Thread -> Acquiring \cup {"idle"}] /\ held \in [Thread -> SUBSET Lock]
      /\ rlock \in [Client -> Lock]
  BY DEF TypeOK
<1>1. /\ \A d \in Client, l \in Lock :
           lstatus'[d][l] = IF d = c /\ l = k THEN "ACQUIRING" ELSE lstatus[d][l]
      /\ \A u \in Thread : pc'[u] = IF u = t THEN "ping" ELSE pc[u]
      /\ lstatus[c][k] = "NONE"
      /\ UNCHANGED <<seq_num, lid, held, relpc, rlock, isAllocated, holder, seqNo,
                     clientLockSeqMap>>
  BY <1>0 DEF SwitchNone
<1>2. ThreadInv'
  <2>1. \A u \in Thread :
          /\ pc'[u] \in Fetching => lstatus'[clientOf[u]][lid'[u]] = "ACQUIRING"
          /\ clientOf[u] = c /\ lid[u] = k => pc[u] \notin Fetching
    BY <1>0, <1>1 DEF ThreadInv, Fetching, TypeOK
  <2>2. \A u \in Thread : \A l \in held'[u] : lstatus'[clientOf[u]][l] = "LOCKED"
    BY <1>0, <1>1 DEF ThreadInv
  <2>3. \A u, w \in Thread : u # w /\ clientOf[u] = clientOf[w] =>
          /\ held'[u] \cap held'[w] = {}
          /\ pc'[u] \in Fetching /\ pc'[w] \in Fetching => lid'[u] # lid'[w]
    BY <1>1, <2>1 DEF ThreadInv
  <2>4. QED BY <2>1, <2>2, <2>3 DEF ThreadInv
<1>3. ReleaserInv'
  BY <1>0, <1>1 DEF ReleaserInv
<1>4. \A d \in Client, l \in Lock :
          (Returned(d, l) => Returned(d, l)') /\ (Owns(d, l)' => Owns(d, l))
  BY <1>0, <1>1 DEF Owns, Returned
<1>5. OwnerInv'
  BY <1>1, <1>4, OwnerFrame
<1>6. QED BY <1>2, <1>3, <1>5

LEMMA GetInv ==
  ASSUME LockInvariant, NEW t \in Thread, SwitchFree(t) \/ PingOK(t)
  PROVE  ThreadInv' /\ ReleaserInv' /\ OwnerInv'
<1> DEFINE c == clientOf[t]
           k == lid[t]
<1> USE DEF LockInvariant
<1>0. /\ c \in Client /\ k \in Lock /\ lstatus \in [Client -> [Lock -> Status]]
      /\ pc \in [Thread -> Acquiring \cup {"idle"}] /\ held \in [Thread -> SUBSET Lock]
      /\ rlock \in [Client -> Lock]
  BY DEF TypeOK
<1>1. /\ \A d \in Client, l \in Lock :
           lstatus'[d][l] = IF d = c /\ l = k THEN "LOCKED" ELSE lstatus[d][l]
      /\ \A u \in Thread : /\ pc'[u] = IF u = t THEN "idle" ELSE pc[u]
                           /\ held'[u] = IF u = t THEN held[t] \cup {k} ELSE held[u]
      /\ UNCHANGED <<seq_num, lid, relpc, rlock, isAllocated, holder, seqNo,
                     clientLockSeqMap>>
  <2>1. CASE SwitchFree(t)
    BY <1>0, <2>1 DEF SwitchFree, relVars, serverVars, allocVars
  <2>2. CASE PingOK(t)
    BY <1>0, <2>2 DEF PingOK, relVars, serverVars, allocVars
  <2>3. QED BY <2>1, <2>2
<1>2. \/ lstatus[c][k] = "FREE"
      \/ lstatus[c][k] = "ACQUIRING" /\ pc[t] = "ok"
  BY DEF SwitchFree, PingOK, ThreadInv, Fetching
<1>3. ThreadInv'
  <2>1. \A u \in Thread : u # t /\ clientOf[u] = c /\ lid[u] = k => pc[u] \notin Fetching
    BY <1>2 DEF ThreadInv, Fetching
  <2>2. \A u \in Thread : clientOf[u] = c => k \notin held[u]
    BY <1>2 DEF ThreadInv
  <2>3. \A u \in Thread : clientOf[u] \in Client /\ lid[u] \in Lock /\ held[u] \subseteq Lock
    BY DEF TypeOK
  <2>4. ASSUME NEW u \in Thread, pc'[u] \in Fetching
        PROVE  lstatus'[clientOf[u]][lid'[u]] = "ACQUIRING"
    BY <1>1, <2>1, <2>3, <2>4 DEF ThreadInv, Fetching
  <2>5. ASSUME NEW u \in Thread, NEW l \in held'[u]
        PROVE  lstatus'[clientOf[u]][l] = "LOCKED"
    <3>1. CASE u = t /\ l = k
      BY <1>0, <1>1, <3>1
    <3>2. CASE ~ (u = t /\ l = k)
      <4>1. l \in held[u] /\ l \in Lock
        BY <1>1, <2>3, <2>5, <3>2
      <4>2. QED BY <1>1, <2>3, <4>1 DEF ThreadInv
    <3>3. QED BY <3>1, <3>2
  <2>6. ASSUME NEW u \in Thread, NEW w \in Thread, u # w, clientOf[u] = clientOf[w]
        PROVE  /\ held'[u] \cap held'[w] = {}
               /\ pc'[u] \in Fetching /\ pc'[w] \in Fetching => lid'[u] # lid'[w]
    <3>1. held'[u] \cap held'[w] = {}
      BY <1>1, <2>2, <2>6 DEF ThreadInv
    <3>2. pc'[u] \in Fetching /\ pc'[w] \in Fetching => lid'[u] # lid'[w]
      BY <1>1, <2>6 DEF ThreadInv, Fetching
    <3>3. QED BY <3>1, <3>2
  <2>7. QED BY <2>4, <2>5, <2>6 DEF ThreadInv
<1>4. ReleaserInv'
  BY <1>0, <1>1, <1>2 DEF ReleaserInv
<1>5. \A d \in Client, l \in Lock :
          (Returned(d, l) => Returned(d, l)') /\ (Owns(d, l)' => Owns(d, l))
  BY <1>0, <1>1, <1>2 DEF Owns, Returned
<1>6. OwnerInv'
  BY <1>1, <1>5, OwnerFrame
<1>7. QED BY <1>3, <1>4, <1>6

LEMMA PingCheckInv ==
  ASSUME LockInvariant, NEW t \in Thread, PingCheck(t)
  PROVE  ThreadInv' /\ ReleaserInv' /\ OwnerInv'
<1> DEFINE c == clientOf[t]
           k == lid[t]
<1> USE DEF LockInvariant, statusVars, relVars, serverVars, allocVars
<1>0. /\ c \in Client /\ k \in Lock /\ seq_num[c][k] \in Nat
      /\ clientLockSeqMap[c][k] \in Nat
      /\ pc \in [Thread -> Acquiring \cup {"idle"}] /\ pc[t] = "ping"
  BY DEF TypeOK, PingCheck
<1>1. UNCHANGED <<lstatus, seq_num, lid, held, relpc, rlock, isAllocated, holder, seqNo,
                  clientLockSeqMap>>
  BY DEF PingCheck
<1>2. CASE AlreadyHandled(c, k, seq_num[c][k])
  <2>1. \A u \in Thread : pc'[u] = IF u = t THEN "ok" ELSE pc[u]
    BY <1>0, <1>2 DEF PingCheck
  <2>2. ThreadInv' /\ ReleaserInv'
    BY <1>0, <1>1, <2>1 DEF ThreadInv, ReleaserInv, Fetching
  <2>3. clientLockSeqMap[c][k] = seq_num[c][k]
    BY <1>0, <1>2 DEF AlreadyHandled, OwnerInv
  <2>4. \A d \in Client, l \in Lock :
            /\ Returned(d, l)' <=> Returned(d, l)
            /\ Owns(d, l)' => Owns(d, l) \/ (d = c /\ l = k)
            /\ Allocated(d, l)' <=> Allocated(d, l)
    BY <1>1, <2>1 DEF Returned, Owns, Allocated
  <2>5. OwnerInv'
    BY <1>1, <2>3, <2>4 DEF OwnerInv
  <2>6. QED BY <2>2, <2>5
<1>3. CASE ~ AlreadyHandled(c, k, seq_num[c][k])
  <2>1. \A u \in Thread : pc'[u] = IF u = t THEN "locked" ELSE pc[u]
    BY <1>0, <1>3 DEF PingCheck
  <2>2. QED BY <1>0, <1>1, <2>1, Frame DEF Fetching
<1>4. QED BY <1>2, <1>3

LEMMA GrantInv ==
  ASSUME LockInvariant, NEW c \in Client, NEW k \in Lock, NEW s \in Nat,
         Grant(c, k, s), s <= seq_num[c][k],
         UNCHANGED <<lstatus, seq_num, lid, held, relpc, rlock>>,
         \A u \in Thread : /\ pc'[u] # pc[u] => pc[u] = "locked" /\ pc'[u] = "ok"
                           /\ pc'[u] # pc[u] => clientOf[u] = c /\ lid[u] = k
                                                /\ s = seq_num[c][k]
  PROVE  ThreadInv' /\ ReleaserInv' /\ OwnerInv'
<1> USE DEF LockInvariant
<1>0. /\ isAllocated \in [Lock -> BOOLEAN] /\ holder \in [Lock -> Client]
      /\ seqNo \in [Lock -> Nat] /\ seq_num \in [Client -> [Lock -> Nat]]
      /\ clientLockSeqMap \in [Client -> [Lock -> Nat]]
  BY DEF TypeOK
<1>1. ThreadInv' /\ ReleaserInv'
  BY DEF ThreadInv, ReleaserInv, Fetching
<1>2. /\ ~ isAllocated[k]
      /\ \A l \in Lock : /\ isAllocated'[l] = IF l = k THEN TRUE ELSE isAllocated[l]
                         /\ holder'[l] = IF l = k THEN c ELSE holder[l]
                         /\ seqNo'[l] = IF l = k THEN s ELSE seqNo[l]
      /\ \A d \in Client, l \in Lock :
           clientLockSeqMap'[d][l] = IF d = c /\ l = k THEN s ELSE clientLockSeqMap[d][l]
  BY <1>0 DEF Grant
<1>3. \A d \in Client : ~ Owns(d, k)
                        /\ (clientLockSeqMap[d][k] = seq_num[d][k] => Returned(d, k))
  <2>1. TAKE d \in Client
  <2>2. clientLockSeqMap[d][k] = seq_num[d][k] => Returned(d, k)
    BY <1>2 DEF OwnerInv, Allocated
  <2>3. Returned(d, k) => ~ Owns(d, k)
    BY DEF ReleaserInv, ThreadInv, Returned, Owns, Fetching
  <2>4. QED BY <2>2, <2>3 DEF OwnerInv
<1>4. \A d \in Client, l \in Lock :
         /\ Returned(d, l)' <=> Returned(d, l)
         /\ Owns(d, l)' => Owns(d, l) \/ (d = c /\ l = k /\ s = seq_num[c][k])
         /\ l # k => (Allocated(d, l)' <=> Allocated(d, l))
         /\ d = c /\ l = k /\ s = seq_num[c][k] => Allocated(d, l)'
  <2>1. TAKE d \in Client, l \in Lock
  <2>2. Returned(d, l)' <=> Returned(d, l)
    BY DEF Returned
  <2>3. Owns(d, l)' => Owns(d, l) \/ (d = c /\ l = k /\ s = seq_num[c][k])
    BY DEF Owns, Returned
  <2>4. /\ l # k => (Allocated(d, l)' <=> Allocated(d, l))
        /\ d = c /\ l = k /\ s = seq_num[c][k] => Allocated(d, l)'
    BY <1>2 DEF Allocated
  <2>5. QED BY <2>2, <2>3, <2>4
<1>5. OwnerInv'
  BY <1>0, <1>2, <1>3, <1>4 DEF OwnerInv
<1>6. QED BY <1>1, <1>5

LEMMA ReleaseInv ==
  ASSUME LockInvariant, NEW t \in Thread, NEW k \in Lock, Release(t, k)
  PROVE  ThreadInv' /\ ReleaserInv' /\ OwnerInv'
<1> DEFINE c == clientOf[t]
<1> USE DEF LockInvariant
<1>0. /\ c \in Client /\ lstatus \in [Client -> [Lock -> Status]]
      /\ held \in [Thread -> SUBSET Lock] /\ rlock \in [Client -> Lock]
      /\ \A u \in Thread : clientOf[u] \in Client /\ lid[u] \in Lock /\ held[u] \subseteq Lock
  BY DEF TypeOK
<1>1. PICK s \in {"FREE", "RELEASING"} : lstatus' = [lstatus EXCEPT ![c][k] = s]
  BY DEF Release
<1>2. /\ \A d \in Client, l \in Lock :
           lstatus'[d][l] = IF d = c /\ l = k THEN s ELSE lstatus[d][l]
      /\ \A u \in Thread : held'[u] = IF u = t THEN held[t] \ {k} ELSE held[u]
      /\ k \in held[t] /\ pc[t] = "idle"
      /\ UNCHANGED <<seq_num, lid, rlock, isAllocated, holder, seqNo, clientLockSeqMap>>
  BY <1>0, <1>1 DEF Release, serverVars, allocVars
<1>3. \A u \in Thread : pc'[u] = pc[u] \/ (pc[u] = "wait" /\ pc'[u] = "switch")
  BY <1>0, SignalEffect DEF Release, Acquiring
<1>4. \A d \in Client : relpc'[d] = relpc[d] \/ (relpc[d] = "asleep" /\ relpc'[d] = "top")
  BY <1>0, WakeReleaserEffect DEF Release
<1>5. lstatus[c][k] = "LOCKED"
  BY <1>2 DEF ThreadInv
<1>6. ThreadInv'
  <2>1. ASSUME NEW u \in Thread, pc'[u] \in Fetching
        PROVE  pc[u] \in Fetching /\ lstatus'[clientOf[u]][lid'[u]] = "ACQUIRING"
    BY <1>0, <1>2, <1>3, <1>5, <2>1 DEF ThreadInv, Fetching
  <2>2. ASSUME NEW u \in Thread, NEW l \in held'[u]
        PROVE  lstatus'[clientOf[u]][l] = "LOCKED"
    <3>1. l \in held[u] /\ l \in Lock /\ (u = t => l # k)
      BY <1>0, <1>2, <2>2
    <3>2. ~ (clientOf[u] = c /\ l = k)
      BY <1>2, <3>1 DEF ThreadInv
    <3>3. QED BY <1>0, <1>2, <3>1, <3>2 DEF ThreadInv
  <2>3. ASSUME NEW u \in Thread, NEW w \in Thread, u # w, clientOf[u] = clientOf[w]
        PROVE  /\ held'[u] \cap held'[w] = {}
               /\ pc'[u] \in Fetching /\ pc'[w] \in Fetching => lid'[u] # lid'[w]
    <3>1. held'[u] \subseteq held[u] /\ held'[w] \subseteq held[w]
      BY <1>2
    <3>2. QED BY <1>2, <2>1, <2>3, <3>1 DEF ThreadInv
  <2>4. QED BY <2>1, <2>2, <2>3 DEF ThreadInv
<1>7. ReleaserInv'
  BY <1>0, <1>2, <1>4, <1>5 DEF ReleaserInv
<1>8. \A d \in Client, l \in Lock :
          (Returned(d, l) => Returned(d, l)') /\ (Owns(d, l)' => Owns(d, l))
  <2>1. TAKE d \in Client, l \in Lock
  <2>2. Returned(d, l)' <=> Returned(d, l)
    BY <1>2, <1>4 DEF Returned
  <2>3. \A u \in Thread : pc'[u] = "ok" => pc[u] = "ok"
    BY <1>3
  <2>4. CASE d = c /\ l = k
    BY <1>5, <2>2, <2>4 DEF Owns
  <2>5. CASE ~ (d = c /\ l = k)
    BY <1>2, <2>2, <2>3, <2>5 DEF Owns
  <2>6. QED BY <2>2, <2>4, <2>5
<1>9. OwnerInv'
  BY <1>2, <1>8, OwnerFrame
<1>10. QED BY <1>6, <1>7, <1>9

LEMMA RevokeInv ==
  ASSUME LockInvariant, NEW c \in Client, NEW k \in Lock, NEW s \in Nat, Revoke(c, k, s),
         UNCHANGED <<seq_num, pc, lid, held, rlock, isAllocated, holder, seqNo,
                     clientLockSeqMap>>
  PROVE  ThreadInv' /\ ReleaserInv' /\ OwnerInv'
<1> USE DEF LockInvariant
<1>1. CASE UNCHANGED <<lstatus, relpc>>
  BY <1>1, Frame
<1>2. CASE ~ UNCHANGED <<lstatus, relpc>>
  <2>0. /\ lstatus \in [Client -> [Lock -> Status]] /\ rlock \in [Client -> Lock]
        /\ \A u \in Thread : /\ clientOf[u] \in Client /\ lid[u] \in Lock
                             /\ held[u] \subseteq Lock
    BY DEF TypeOK
  <2>1. /\ lstatus[c][k] = "FREE" /\ WakeReleaser(c)
        /\ lstatus' = [lstatus EXCEPT ![c][k] = "RELEASING"]
    BY <1>2 DEF Revoke
  <2>2. \A d \in Client, l \in Lock :
           lstatus'[d][l] = IF d = c /\ l = k THEN "RELEASING" ELSE lstatus[d][l]
    BY <2>0, <2>1
  <2>3. \A d \in Client : relpc'[d] = relpc[d]
                          \/ (relpc[d] = "asleep" /\ relpc'[d] = "top")
    BY <2>1, WakeReleaserEffect
  <2>4. ThreadInv'
    <3>1. \A u \in Thread : pc'[u] \in Fetching =>
              lstatus'[clientOf[u]][lid'[u]] = "ACQUIRING"
      BY <2>0, <2>1, <2>2 DEF ThreadInv
    <3>2. \A u \in Thread : \A l \in held'[u] : lstatus'[clientOf[u]][l] = "LOCKED"
      BY <2>0, <2>1, <2>2 DEF ThreadInv
    <3>3. QED BY <3>1, <3>2 DEF ThreadInv
  <2>5. ReleaserInv'
    BY <2>0, <2>1, <2>2, <2>3 DEF ReleaserInv
  <2>6. \A d \in Client, l \in Lock :
            (Returned(d, l) => Returned(d, l)') /\ (Owns(d, l)' => Owns(d, l))
    BY <2>0, <2>1, <2>2, <2>3 DEF Owns, Returned
  <2>7. OwnerInv'
    BY <2>6, OwnerFrame
  <2>8. QED BY <2>4, <2>5, <2>7
<1>3. QED BY <1>1, <1>2

LEMMA ReleaserCallInv ==
  ASSUME LockInvariant, NEW c \in Client, NEW k \in Lock, ReleaserCall(c, k)
  PROVE  ThreadInv' /\ ReleaserInv' /\ OwnerInv'
<1> USE DEF LockInvariant
<1>0. /\ relpc \in [Client -> {"top", "asleep", "scan", "call", "reply"}]
      /\ rlock \in [Client -> Lock]
  BY DEF TypeOK
<1>1. /\ \A d \in Client : /\ relpc'[d] = IF d = c THEN "call" ELSE relpc[d]
                           /\ rlock'[d] = IF d = c THEN k ELSE rlock[d]
      /\ relpc[c] = "scan" /\ lstatus[c][k] = "RELEASING"
      /\ UNCHANGED <<lstatus, seq_num, pc, lid, held, isAllocated, holder, seqNo,
                     clientLockSeqMap>>
  BY <1>0 DEF ReleaserCall, Releasable, statusVars, threadVars, serverVars, allocVars
<1>2. ThreadInv'
  BY <1>1 DEF ThreadInv
<1>3. ReleaserInv'
  BY <1>0, <1>1 DEF ReleaserInv
<1>4. \A d \in Client, l \in Lock :
          (Returned(d, l) => Returned(d, l)') /\ (Owns(d, l)' => Owns(d, l))
  BY <1>0, <1>1 DEF Owns, Returned
<1>5. OwnerInv'
  BY <1>1, <1>4, OwnerFrame
<1>6. QED BY <1>2, <1>3, <1>5

LEMMA ReleaserReleaseInv ==
  ASSUME LockInvariant, NEW c \in Client, ReleaserRelease(c)
  PROVE  ThreadInv' /\ ReleaserInv' /\ OwnerInv'
<1> DEFINE k == rlock[c]
<1> USE DEF LockInvariant
<1>0. /\ relpc \in [Client -> {"top", "asleep", "scan", "call", "reply"}]
      /\ k \in Lock /\ isAllocated \in [Lock -> BOOLEAN] /\ seqNo \in [Lock -> Nat]
  BY DEF TypeOK
<1>1. /\ \A d \in Client : relpc'[d] = IF d = c THEN "reply" ELSE relpc[d]
      /\ relpc[c] = "call" /\ ServerRelease(c, k, seq_num[c][k])
      /\ UNCHANGED <<lstatus, seq_num, pc, lid, held, rlock>>
  BY <1>0 DEF ReleaserRelease, statusVars, threadVars
<1>2. lstatus[c][k] = "RELEASING" /\ ~ Returned(c, k)
  BY <1>1 DEF ReleaserInv, Returned
<1>3. Allocated(c, k)
  BY <1>0, <1>2 DEF Owns, OwnerInv
<1>4. /\ \A l \in Lock : /\ l # k => isAllocated'[l] = isAllocated[l]
                         /\ l # k => seqNo'[l] = seqNo[l]
      /\ UNCHANGED <<holder, clientLockSeqMap>>
  BY <1>0, <1>1, <1>3 DEF ServerRelease, Allocated
<1>5. ThreadInv'
  BY <1>1 DEF ThreadInv
<1>6. ReleaserInv'
  BY <1>0, <1>1, <1>2 DEF ReleaserInv
<1>7. \A d \in Client, l \in Lock :
         /\ Returned(d, l)' <=> (Returned(d, l) \/ (d = c /\ l = k))
         /\ Owns(d, l)' => Owns(d, l)
         /\ l # k => (Allocated(d, l)' <=> Allocated(d, l))
         /\ Allocated(d, k) => d = c
  <2>1. TAKE d \in Client, l \in Lock
  <2>2. Returned(d, l)' <=> (Returned(d, l) \/ (d = c /\ l = k))
    BY <1>0, <1>1 DEF Returned
  <2>3. Owns(d, l)' => Owns(d, l)
    BY <1>1, <2>2 DEF Owns
  <2>4. l # k => (Allocated(d, l)' <=> Allocated(d, l))
    BY <1>1, <1>4 DEF Allocated
  <2>5. Allocated(d, k) => d = c
    BY <1>3 DEF Allocated
  <2>6. QED BY <2>2, <2>3, <2>4, <2>5
<1>8. OwnerInv'
  BY <1>0, <1>1, <1>4, <1>7 DEF OwnerInv
<1>9. QED BY <1>5, <1>6, <1>8

LEMMA ReleaserDoneInv ==
  ASSUME LockInvariant, NEW c \in Client, ReleaserDone(c)
  PROVE  ThreadInv' /\ ReleaserInv' /\ OwnerInv'
<1> USE DEF LockInvariant
<1>k. PICK k \in Lock : k = rlock[c]
  BY DEF TypeOK
<1>0. /\ relpc \in [Client -> {"top", "asleep", "scan", "call", "reply"}]
      /\ rlock \in [Client -> Lock] /\ lstatus \in [Client -> [Lock -> Status]]
      /\ seq_num \in [Client -> [Lock -> Nat]]
      /\ clientLockSeqMap \in [Client -> [Lock -> Nat]]
      /\ \A u \in Thread : clientOf[u] \in Client /\ lid[u] \in Lock /\ held[u] \subseteq Lock
  BY DEF TypeOK
<1>1. /\ \A d \in Client : relpc'[d] = IF d = c THEN "scan" ELSE relpc[d]
      /\ \A d \in Client, l \in Lock :
           /\ lstatus'[d][l] = IF d = c /\ l = k THEN "NONE" ELSE lstatus[d][l]
           /\ seq_num'[d][l] = IF d = c /\ l = k THEN seq_num[c][k] + 1 ELSE seq_num[d][l]
      /\ relpc[c] = "reply"
      /\ UNCHANGED <<lid, held, rlock, isAllocated, holder, seqNo, clientLockSeqMap>>
  BY <1>0, <1>k DEF ReleaserDone, serverVars, allocVars
<1>2. lstatus[c][k] = "RELEASING"
  BY <1>1, <1>k DEF ReleaserInv
<1>3. \A u \in Thread : pc'[u] = pc[u] \/ (pc[u] = "wait" /\ pc'[u] = "switch")
  BY SignalEffect DEF ReleaserDone, Acquiring
<1>4. ThreadInv'
  <2>1. ASSUME NEW u \in Thread, pc'[u] \in Fetching
        PROVE  pc[u] \in Fetching /\ lstatus'[clientOf[u]][lid'[u]] = "ACQUIRING"
    <3>1. pc[u] \in Fetching
      BY <1>3, <2>1 DEF Fetching
    <3>2. lstatus[clientOf[u]][lid[u]] = "ACQUIRING"
      BY <3>1 DEF ThreadInv
    <3>3. QED BY <1>0, <1>1, <1>2, <3>1, <3>2
  <2>2. ASSUME NEW u \in Thread, NEW l \in held'[u]
        PROVE  lstatus'[clientOf[u]][l] = "LOCKED"
    <3>1. l \in Lock /\ lstatus[clientOf[u]][l] = "LOCKED"
      BY <1>0, <1>1, <2>2 DEF ThreadInv
    <3>2. QED BY <1>0, <1>1, <1>2, <3>1
  <2>3. QED BY <1>1, <2>1, <2>2 DEF ThreadInv
<1>5. ReleaserInv'
  BY <1>0, <1>1, <1>k DEF ReleaserInv
<1>6. \A d \in Client, l \in Lock : ~ (d = c /\ l = k) =>
         /\ Returned(d, l)' <=> Returned(d, l)
         /\ Owns(d, l)' => Owns(d, l)
         /\ Allocated(d, l)' <=> Allocated(d, l)
  <2>1. TAKE d \in Client, l \in Lock
  <2>2. HAVE ~ (d = c /\ l = k)
  <2>3. Returned(d, l)' <=> Returned(d, l)
    BY <1>1, <1>k, <2>2 DEF Returned
  <2>4. Owns(d, l)' => Owns(d, l)
    BY <1>1, <1>3, <2>2, <2>3 DEF Owns
  <2>5. Allocated(d, l)' <=> Allocated(d, l)
    BY <1>1, <2>2 DEF Allocated
  <2>6. QED BY <2>3, <2>4, <2>5
<1>7. ~ Owns(c, k)'
  <2>1. \A u \in Thread : clientOf[u] = c /\ lid[u] = k => pc[u] # "ok"
    BY <1>2 DEF ThreadInv, Fetching
  <2>2. lstatus'[c][k] = "NONE"
    BY <1>1
  <2>3. QED BY <1>1, <1>3, <2>1, <2>2 DEF Owns
<1>8. clientLockSeqMap'[c][k] < seq_num'[c][k]
  BY <1>0, <1>1 DEF OwnerInv
<1>9. OwnerInv'
  <2>1. ASSUME NEW d \in Client, NEW l \in Lock
        PROVE  /\ clientLockSeqMap'[d][l] <= seq_num'[d][l]
               /\ Owns(d, l)' => clientLockSeqMap'[d][l] = seq_num'[d][l]
               /\ clientLockSeqMap'[d][l] = seq_num'[d][l] /\ ~ Returned(d, l)'
                    => Allocated(d, l)'
    <3>1. CASE d = c /\ l = k
      <4>1. clientLockSeqMap'[c][k] \in Nat /\ seq_num'[c][k] \in Nat
        BY <1>0, <1>1
      <4>2. QED BY <1>7, <1>8, <3>1, <4>1
    <3>2. CASE ~ (d = c /\ l = k)
      BY <1>1, <1>6, <3>2 DEF OwnerInv
    <3>3. QED BY <3>1, <3>2
  <2>2. QED BY <2>1 DEF OwnerInv
<1>10. QED BY <1>4, <1>5, <1>9

LEMMA LateReleaseInv ==
  ASSUME LockInvariant, NEW m \in late, LateRelease(m)
  PROVE  ThreadInv' /\ ReleaserInv' /\ OwnerInv'
<1> USE DEF LockInvariant
<1>0. /\ m.client \in Client /\ m.lid \in Lock /\ m.seq \in Nat
      /\ isAllocated \in [Lock -> BOOLEAN] /\ seqNo \in [Lock -> Nat]
      /\ seq_num \in [Client -> [Lock -> Nat]]
  BY DEF TypeOK, Call
<1>1. /\ m.op = "release" /\ ServerRelease(m.client, m.lid, m.seq)
      /\ UNCHANGED <<lstatus, seq_num, pc, lid, held, relpc, rlock>>
  BY DEF LateRelease, statusVars, threadVars, relVars
<1>2. CASE ~ (m.seq = seqNo[m.lid] /\ m.client = holder[m.lid])
  <2>1. UNCHANGED <<isAllocated, holder, seqNo, clientLockSeqMap>>
    BY <1>1, <1>2 DEF ServerRelease, allocVars
  <2>2. QED BY <1>1, <2>1, Frame
<1>3. CASE m.seq = seqNo[m.lid] /\ m.client = holder[m.lid]
  <2>1. /\ \A l \in Lock : l # m.lid => /\ isAllocated'[l] = isAllocated[l]
                                        /\ seqNo'[l] = seqNo[l]
        /\ UNCHANGED <<holder, clientLockSeqMap>>
    BY <1>0, <1>1, <1>3 DEF ServerRelease
  <2>2. m.seq < seq_num[m.client][m.lid]
    BY <1>1 DEF LateInv
  <2>3. \A d \in Client : ~ Allocated(d, m.lid)
    BY <1>0, <1>3, <2>2 DEF Allocated
  <2>4. \A d \in Client, l \in Lock :
           /\ Returned(d, l)' <=> Returned(d, l)
           /\ Owns(d, l)' <=> Owns(d, l)
           /\ l # m.lid => (Allocated(d, l)' <=> Allocated(d, l))
    BY <1>1, <2>1 DEF Returned, Owns, Allocated
  <2>5. OwnerInv'
    BY <1>1, <2>1, <2>3, <2>4 DEF OwnerInv
  <2>6. ThreadInv' /\ ReleaserInv'
    BY <1>1 DEF ThreadInv, ReleaserInv
  <2>7. QED BY <2>5, <2>6
<1>4. QED BY <1>2, <1>3

LEMMA CoreStep ==
  ASSUME LockInvariant, [Next]_vars
  PROVE  ThreadInv' /\ ReleaserInv' /\ OwnerInv'
<1> USE DEF statusVars, threadVars, relVars, serverVars, allocVars
<1> DEFINE Core == ThreadInv' /\ ReleaserInv' /\ OwnerInv'
<1>0. TypeOK /\ pc \in [Thread -> Acquiring \cup {"idle"}]
      /\ relpc \in [Client -> {"top", "asleep", "scan", "call", "reply"}]
  BY DEF LockInvariant, TypeOK
<1>1. ASSUME NEW t \in Thread, ThreadStep(t) \/ \E l \in Lock : Acquire(t, l)
      PROVE  Core
  <2>1. ASSUME NEW l \in Lock, Acquire(t, l) PROVE Core
    <3>1. \A u \in Thread : /\ pc'[u] \in Fetching => pc[u] \in Fetching /\ lid'[u] = lid[u]
                            /\ pc'[u] = "ok" => pc[u] = "ok"
      BY <1>0, <2>1 DEF Acquire, Fetching, TypeOK
    <3>2. QED BY <2>1, <3>1, Frame DEF Acquire
  <2>2. CASE SwitchNone(t)
    BY <2>2, SwitchNoneInv
  <2>3. CASE SwitchFree(t) \/ PingOK(t)
    BY <2>3, GetInv
  <2>4. CASE SwitchWait(t) \/ PingRefuse(t) \/ PingAgain(t) \/ RetryWake(t)
    <3>1. UNCHANGED <<lstatus, seq_num, lid, held, relpc, rlock, isAllocated, holder,
                      seqNo, clientLockSeqMap>>
      BY <2>4 DEF SwitchWait, PingRefuse, PingAgain, RetryWake, Refuse
    <3>2. \A u \in Thread : /\ pc'[u] \in Fetching => pc[u] \in Fetching
                            /\ pc'[u] = "ok" => pc[u] = "ok"
      BY <1>0, <2>4 DEF SwitchWait, PingRefuse, PingAgain, RetryWake, Fetching
    <3>3. QED BY <3>1, <3>2, Frame
  <2>5. CASE PingCheck(t)
    BY <2>5, PingCheckInv
  <2>6. CASE PingGrant(t)
    <3> DEFINE c == clientOf[t]
               k == lid[t]
    <3>1. /\ c \in Client /\ k \in Lock /\ seq_num[c][k] \in Nat
          /\ seq_num[c][k] <= seq_num[c][k]
      BY <1>0 DEF TypeOK
    <3>2. \A u \in Thread : pc'[u] # pc[u] => u = t /\ pc[u] = "locked" /\ pc'[u] = "ok"
      BY <1>0, <2>6 DEF PingGrant
    <3>3. /\ Grant(c, k, seq_num[c][k])
          /\ UNCHANGED <<lstatus, seq_num, lid, held, relpc, rlock>>
      BY <2>6 DEF PingGrant
    <3>4. QED BY <3>1, <3>2, <3>3, GrantInv
  <2>7. ASSUME NEW l \in Lock, Release(t, l) PROVE Core
    BY <2>7, ReleaseInv
  <2>8. QED
    BY <1>1, <2>1, <2>2, <2>3, <2>4, <2>5, <2>6, <2>7 DEF ThreadStep, AcquireStep
<1>2. ASSUME NEW c \in Client, ReleaserStep(c) PROVE Core
  <2>1. CASE \/ ReleaserSleep(c) \/ ReleaserSnapshot(c) \/ ReleaserCleanup(c)
             \/ \E l \in Lock : ReleaserSkip(c, l)
    <3>1. UNCHANGED <<lstatus, seq_num, pc, lid, held, rlock, isAllocated, holder, seqNo,
                      clientLockSeqMap>>
      BY <2>1 DEF ReleaserSleep, ReleaserSnapshot, ReleaserCleanup, ReleaserSkip
    <3>2. \A d \in Client :
             /\ relpc'[d] \in {"call", "reply"} => relpc'[d] = relpc[d]
             /\ relpc[d] = "reply" => relpc'[d] = "reply"
      BY <1>0, <2>1 DEF ReleaserSleep, ReleaserSnapshot, ReleaserCleanup, ReleaserSkip
    <3>3. QED BY <3>1, <3>2, Frame
  <2>2. ASSUME NEW l \in Lock, ReleaserCall(c, l) PROVE Core
    BY <2>2, ReleaserCallInv
  <2>3. CASE ReleaserRelease(c)
    BY <2>3, ReleaserReleaseInv
  <2>4. CASE ReleaserDone(c)
    BY <2>4, ReleaserDoneInv
  <2>5. QED BY <1>2, <2>1, <2>2, <2>3, <2>4 DEF ReleaserStep
<1>3. CASE RevokerStep
  <2>1. CASE RevokerTake
    BY <2>1, Frame DEF RevokerTake
  <2>2. ASSUME NEW c \in Client, NEW l \in Lock, RevokerCall(c, l) PROVE Core
    <3>1. revoking[c][l] \in Nat
      BY <1>0 DEF TypeOK
    <3>2. QED BY <2>2, <3>1, RevokeInv DEF RevokerCall
  <2>3. QED BY <1>3, <2>1, <2>2 DEF RevokerStep
<1>4. ASSUME NEW c \in Client, NEW l \in Lock, Retry(c, l),
             UNCHANGED <<lstatus, seq_num, lid, held, relpc, rlock, isAllocated, holder,
                         seqNo, clientLockSeqMap>>
      PROVE  Core
  <2>1. \A u \in Thread : pc'[u] = pc[u] \/ (pc[u] = "rtrwait" /\ pc'[u] = "woken")
    BY <1>0, <1>4, SignalEffect DEF Retry, Acquiring
  <2>2. \A u \in Thread : /\ pc'[u] \in Fetching => pc[u] \in Fetching
                          /\ pc'[u] = "ok" => pc[u] = "ok"
    BY <2>1 DEF Fetching
  <2>3. QED BY <1>4, <2>2, Frame
<1>5. CASE RetryerStep
  <2>1. CASE RetryerTake
    BY <2>1, Frame DEF RetryerTake
  <2>2. ASSUME NEW c \in Client, NEW l \in Lock, RetryerCall(c, l) PROVE Core
    BY <1>4, <2>2 DEF RetryerCall
  <2>3. QED BY <1>5, <2>1, <2>2 DEF RetryerStep
<1>6. CASE LateStep
  <2>0. \A m \in late \cup checked :
           m.client \in Client /\ m.lid \in Lock /\ m.seq \in Nat
    BY <1>0 DEF TypeOK, Call
  <2>1. ASSUME NEW m \in late, LateRelease(m) PROVE Core
    BY <2>1, LateReleaseInv
  <2>2. ASSUME NEW m \in late, LateRevoke(m) PROVE Core
    BY <2>0, <2>2, RevokeInv DEF LateRevoke
  <2>3. ASSUME NEW m \in late, LateRetry(m) PROVE Core
    BY <1>4, <2>0, <2>3 DEF LateRetry
  <2>4. ASSUME NEW m \in late, LateCheck(m) PROVE Core
    BY <2>4, Frame DEF LateCheck
  <2>5. ASSUME NEW m \in checked, LateAcquire(m) PROVE Core
    <3>1. UNCHANGED <<lstatus, seq_num, pc, lid, held, relpc, rlock>>
      BY <2>5 DEF LateAcquire
    <3>2. m.seq <= seq_num[m.client][m.lid]
      BY DEF LockInvariant, LateInv
    <3>3. CASE Grant(m.client, m.lid, m.seq)
      BY <2>0, <3>1, <3>2, <3>3, GrantInv
    <3>4. CASE Refuse(m.client, m.lid)
      BY <3>1, <3>4, Frame DEF Refuse
    <3>5. QED BY <2>5, <3>3, <3>4 DEF LateAcquire
  <2>6. QED BY <1>6, <2>1, <2>2, <2>3, <2>4, <2>5 DEF LateStep
<1>7. CASE UNCHANGED vars
  BY <1>7, Frame DEF vars
<1>8. QED BY <1>1, <1>2, <1>3, <1>5, <1>6, <1>7 DEF Next

-----------------------------------------------------------------------------
(* Theorems *)

LEMMA LockInvariantHolds == Spec => []LockInvariant
<1>1. LockInvariant /\ [Next]_vars => LockInvariant'
  BY TypeStep, LateStepInv, CoreStep DEF LockInvariant
<1>2. QED BY <1>1, InitInv, PTL DEF Spec

\* In every behaviour of clients and server, with any number of clients,
\* threads and locks and with any copies of old calls, the variables keep their
\* types.
THEOREM LockTypeCorrect == Spec => []TypeOK
<1>1. LockInvariant => TypeOK
  BY DEF LockInvariant
<1>2. QED BY <1>1, LockInvariantHolds, PTL

LEMMA InvariantExcludes == LockInvariant => MutualExclusion
<1> SUFFICES ASSUME LockInvariant, NEW t \in Thread, NEW u \in Thread, t # u,
                    NEW l, l \in held[t], l \in held[u]
             PROVE  FALSE
  BY DEF MutualExclusion
<1> USE DEF LockInvariant
<1>0. l \in Lock /\ clientOf[t] \in Client /\ clientOf[u] \in Client
  BY DEF TypeOK
<1>1. lstatus[clientOf[t]][l] = "LOCKED" /\ lstatus[clientOf[u]][l] = "LOCKED"
  BY DEF ThreadInv
<1>2. ~ Returned(clientOf[t], l) /\ ~ Returned(clientOf[u], l)
  BY <1>0, <1>1 DEF Returned, ReleaserInv
<1>3. Allocated(clientOf[t], l) /\ Allocated(clientOf[u], l)
  BY <1>0, <1>1, <1>2 DEF OwnerInv, Owns
<1>4. clientOf[t] = clientOf[u]
  BY <1>3 DEF Allocated
<1>5. QED BY <1>4 DEF ThreadInv

\* A lock is never held by two threads at once, of one client or of two,
\* however revokes, retries, answers and copies of old calls are interleaved.
THEOREM LockMutualExclusion == Spec => []MutualExclusion
BY InvariantExcludes, LockInvariantHolds, PTL

-----------------------------------------------------------------------------
(* Refinement *)

LEMMA ServiceStutter ==
  ASSUME UNCHANGED <<lid, held>>,
         \A u \in Thread : pc'[u] = "idle" <=> pc[u] = "idle"
  PROVE  UNCHANGED Service!svars
BY DEF Service!svars, want

LEMMA ServiceStep ==
  ASSUME LockInvariant, LockInvariant', [Next]_vars
  PROVE  [Service!Next]_(Service!svars)
<1> USE DEF statusVars, threadVars, relVars, serverVars, allocVars
<1>0. /\ TypeOK /\ pc \in [Thread -> Acquiring \cup {"idle"}] /\ lid \in [Thread -> Lock]
      /\ held \in [Thread -> SUBSET Lock] /\ NoLock \notin Lock
  BY LockAssumption DEF LockInvariant, TypeOK, NoLock
<1>1. ASSUME NEW t \in Thread, NEW l \in Lock, Acquire(t, l) PROVE Service!Next
  <2>1. l \notin held[t]
    BY <1>0, <1>1, LockAssumption DEF Acquire
  <2>2. want[t] = NoLock /\ UNCHANGED held
    BY <1>1 DEF Acquire, want
  <2>3. want' = [want EXCEPT ![t] = l]
    BY <1>0, <1>1 DEF Acquire, want
  <2>4. QED BY <2>1, <2>2, <2>3 DEF Service!Next, Service!Ask
<1>2. ASSUME NEW t \in Thread, SwitchFree(t) \/ PingOK(t) PROVE Service!Next
  <2>1. /\ pc[t] # "idle" /\ pc' = [pc EXCEPT ![t] = "idle"] /\ UNCHANGED lid
        /\ held' = [held EXCEPT ![t] = @ \cup {lid[t]}]
    BY <1>2 DEF SwitchFree, PingOK
  <2>2. lstatus[clientOf[t]][lid[t]] # "LOCKED"
    BY <1>2 DEF SwitchFree, PingOK, LockInvariant, ThreadInv, Fetching
  <2>3. lid[t] \notin held[t]
    BY <2>2 DEF LockInvariant, ThreadInv
  <2>4. MutualExclusion'
    <3>1. LockInvariant' => MutualExclusion'
      BY InvariantExcludes, PTL
    <3>2. QED BY <3>1
  <2>5. \A u \in Thread : lid[t] \notin held[u]
    BY <1>0, <2>1, <2>3, <2>4 DEF MutualExclusion
  <2>6. want[t] = lid[t] /\ want' = [want EXCEPT ![t] = NoLock]
    BY <1>0, <2>1 DEF want
  <2>7. lid[t] \in Lock
    BY <1>0
  <2>8. QED BY <2>1, <2>5, <2>6, <2>7 DEF Service!Next, Service!Get
<1>3. ASSUME NEW t \in Thread, NEW l \in Lock, Release(t, l) PROVE Service!Next
  <2>1. /\ pc[t] = "idle" /\ l \in held[t] /\ held' = [held EXCEPT ![t] = @ \ {l}]
        /\ UNCHANGED lid
    BY <1>3 DEF Release
  <2>2. \A u \in Thread : pc'[u] = pc[u] \/ (pc[u] = "wait" /\ pc'[u] = "switch")
    BY <1>0, <1>3, SignalEffect DEF Release, Acquiring
  <2>3. want[t] = NoLock /\ UNCHANGED want
    BY <2>1, <2>2 DEF want
  <2>4. QED BY <2>1, <2>3 DEF Service!Next, Service!GiveBack
<1>4. ASSUME NEW t \in Thread,
             \/ SwitchNone(t) \/ SwitchWait(t) \/ PingCheck(t) \/ PingGrant(t)
             \/ PingRefuse(t) \/ PingAgain(t) \/ RetryWake(t)
      PROVE  UNCHANGED Service!svars
  <2>1. UNCHANGED <<lid, held>>
    BY <1>4 DEF SwitchNone, SwitchWait, PingCheck, PingGrant, PingRefuse, PingAgain,
                RetryWake
  <2>2. \A u \in Thread : pc'[u] = "idle" <=> pc[u] = "idle"
    BY <1>0, <1>4 DEF SwitchNone, SwitchWait, PingCheck, PingGrant, PingRefuse,
                      PingAgain, RetryWake
  <2>3. QED BY <2>1, <2>2, ServiceStutter
<1>5. ASSUME NEW c \in Client, ReleaserStep(c) PROVE UNCHANGED Service!svars
  <2>1. CASE ReleaserDone(c)
    <3>1. \A u \in Thread : pc'[u] = pc[u] \/ (pc[u] = "wait" /\ pc'[u] = "switch")
      BY <1>0, <2>1, SignalEffect DEF ReleaserDone, Acquiring
    <3>2. UNCHANGED <<lid, held>>
      BY <2>1 DEF ReleaserDone
    <3>3. QED BY <3>1, <3>2, ServiceStutter
  <2>2. CASE ~ ReleaserDone(c)
    <3>1. UNCHANGED <<lid, held, pc>>
      BY <1>5, <2>2 DEF ReleaserStep, ReleaserSleep, ReleaserSnapshot, ReleaserSkip,
         ReleaserCall, ReleaserRelease, ReleaserCleanup
    <3>2. QED BY <3>1, ServiceStutter
  <2>3. QED BY <2>1, <2>2
<1>6. ASSUME NEW c \in Client, NEW l \in Lock, Retry(c, l), UNCHANGED <<lid, held>>
      PROVE  UNCHANGED Service!svars
  <2>1. \A u \in Thread : pc'[u] = pc[u] \/ (pc[u] = "rtrwait" /\ pc'[u] = "woken")
    BY <1>0, <1>6, SignalEffect DEF Retry, Acquiring
  <2>2. QED BY <1>6, <2>1, ServiceStutter
<1>7. CASE RevokerStep \/ RetryerStep
  <2>1. CASE RevokerStep \/ RetryerTake
    <3>1. UNCHANGED <<lid, held, pc>>
      BY <2>1 DEF RevokerStep, RevokerTake, RevokerCall, RetryerTake
    <3>2. QED BY <3>1, ServiceStutter
  <2>2. ASSUME NEW c \in Client, NEW l \in Lock, RetryerCall(c, l)
        PROVE  UNCHANGED Service!svars
    BY <1>6, <2>2 DEF RetryerCall
  <2>3. QED BY <1>7, <2>1, <2>2 DEF RetryerStep
<1>8. CASE LateStep
  <2>1. ASSUME NEW m \in late, LateRetry(m) PROVE UNCHANGED Service!svars
    <3>1. m.client \in Client /\ m.lid \in Lock
      BY <1>0 DEF TypeOK, Call
    <3>2. QED BY <1>6, <2>1, <3>1 DEF LateRetry
  <2>2. ASSUME \/ \E m \in late : LateRelease(m) \/ LateRevoke(m) \/ LateCheck(m)
               \/ \E m \in checked : LateAcquire(m)
        PROVE  UNCHANGED Service!svars
    <3>1. UNCHANGED <<lid, held, pc>>
      BY <2>2 DEF LateRelease, LateRevoke, LateCheck, LateAcquire
    <3>2. QED BY <3>1, ServiceStutter
  <2>3. QED BY <1>8, <2>1, <2>2 DEF LateStep
<1>9. CASE UNCHANGED vars
  <2>1. UNCHANGED <<lid, held, pc>>
    BY <1>9 DEF vars
  <2>2. QED BY <2>1, ServiceStutter
<1>10. QED
  BY <1>1, <1>2, <1>3, <1>4, <1>5, <1>7, <1>8, <1>9
     DEF Next, ThreadStep, AcquireStep

\* The cache implements the lock service its threads expect: whatever the
\* clients, the server and the network do, a thread sees a lock granted only
\* while no other thread has it.
THEOREM LockRefinement == Spec => ImplementsService
<1>1. Init => Service!Init
  BY DEF Init, Service!Init, want
<1>2. LockInvariant /\ LockInvariant' /\ [Next]_vars => [Service!Next]_(Service!svars)
  BY ServiceStep
<1>3. QED
  BY <1>1, <1>2, LockInvariantHolds, PTL DEF Spec, ImplementsService, Service!Spec

-----------------------------------------------------------------------------
(* What the server believes, when no copy of an acquire runs late *)

LEMMA AllocationInit == Init => AllocationInv
<1> SUFFICES ASSUME Init PROVE AllocationInv
  OBVIOUS
<1> QED BY DEF Init, AllocationInv, Returned

\* A step that neither gives a lock out nor takes one back.
LEMMA AllocationFrame ==
  ASSUME TypeOK, AllocationInv,
         UNCHANGED <<checked, isAllocated, seqNo, holder, seq_num, clientLockSeqMap>>,
         \A m \in late' : m \in late \/ (m.op # "acquire" /\ (m.op = "release" => 0 < m.seq)),
         \A c \in Client, l \in Lock :
           /\ srevoke'[c][l] \in {srevoke[c][l], 0, clientLockSeqMap[c][l]}
           /\ Returned(c, l)' => Returned(c, l)
  PROVE  AllocationInv'
<1>1. \A c \in Client, l \in Lock :
        /\ srevoke[c][l] \in Nat /\ clientLockSeqMap[c][l] \in Nat
        /\ srevoke[c][l] <= clientLockSeqMap[c][l]
  BY DEF TypeOK, AllocationInv
<1>2. \A c \in Client, l \in Lock : srevoke'[c][l] <= clientLockSeqMap'[c][l]
  BY <1>1
<1>3. QED BY <1>2 DEF AllocationInv

\* The call that is left behind, if any, is not an acquire.
LEMMA LeaveNoAcquire ==
  ASSUME "acquire" \notin LateOps, TypeOK, NEW o \in Ops, NEW c \in Client,
         NEW l \in Lock, NEW s \in Nat, Leave(o, c, l, s), o = "release" => 0 < s
  PROVE  \A m \in late' :
           m \in late \/ (m.op # "acquire" /\ (m.op = "release" => 0 < m.seq))
BY LeaveEffect DEF Leave

\* The server takes a lock back, or ignores a release that is not the holder's.
LEMMA AllocationRelease ==
  ASSUME TypeOK, AllocationInv, NEW c \in Client, NEW l \in Lock, NEW s \in Nat, 0 < s,
         ServerRelease(c, l, s), UNCHANGED <<seq_num, rlock, checked>>, late' \subseteq late,
         \A d \in Client, k \in Lock : Returned(d, k)' =>
            Returned(d, k) \/ (d = c /\ k = l /\ s = seq_num[c][l])
  PROVE  AllocationInv'
<1>1. /\ \A m \in late' : m.op # "acquire" /\ (m.op = "release" => 0 < m.seq)
      /\ checked' = {}
  BY DEF AllocationInv
<1>2. UNCHANGED <<holder, clientLockSeqMap, srevoke>>
  BY ServerReleaseType
<1>3. CASE s = seqNo[l] /\ c = holder[l]
  <2>1. /\ isAllocated' = [isAllocated EXCEPT ![l] = FALSE]
        /\ seqNo' = [seqNo EXCEPT ![l] = 0]
    BY <1>3 DEF ServerRelease
  <2>2. /\ isAllocated \in [Lock -> BOOLEAN] /\ seqNo \in [Lock -> Nat]
        /\ ~ isAllocated'[l] /\ seqNo'[l] = 0
        /\ \A k \in Lock : k # l => isAllocated'[k] = isAllocated[k] /\ seqNo'[k] = seqNo[k]
    BY <2>1 DEF TypeOK
  <2>3. QED BY <1>1, <1>2, <2>2 DEF AllocationInv
<1>4. CASE ~ (s = seqNo[l] /\ c = holder[l])
  <2>1. UNCHANGED <<isAllocated, seqNo>>
    BY <1>4 DEF ServerRelease, allocVars, queueVars
  <2>2. \A d \in Client, k \in Lock :
          isAllocated[k] /\ holder[k] = d => seq_num[d][k] = seqNo[k] /\ ~ Returned(d, k)'
    BY <1>4 DEF AllocationInv
  <2>3. QED BY <1>1, <1>2, <2>1, <2>2 DEF AllocationInv
<1>5. QED BY <1>3, <1>4

\* The server gives a lock out under its client's current number.
LEMMA AllocationGrant ==
  ASSUME LockInvariant, AllocationInv, NEW t \in Thread, PingGrant(t)
  PROVE  AllocationInv'
<1> DEFINE c == clientOf[t]  l == lid[t]  s == seq_num[c][l]
<1>1. c \in Client /\ l \in Lock /\ s \in Nat
  BY DEF LockInvariant, TypeOK
<1>2. /\ isAllocated' = [isAllocated EXCEPT ![l] = TRUE]
      /\ holder' = [holder EXCEPT ![l] = c]
      /\ seqNo' = [seqNo EXCEPT ![l] = s]
      /\ clientLockSeqMap' = [clientLockSeqMap EXCEPT ![c][l] = s]
      /\ UNCHANGED <<srevoke, seq_num, late, checked, relpc, rlock>>
  BY DEF PingGrant, Grant, queueVars, statusVars, relVars, netVars
<1>3. ~ Returned(c, l)
  <2>1. lstatus[c][l] = "ACQUIRING"
    BY DEF LockInvariant, ThreadInv, PingGrant, Fetching
  <2>2. QED BY <1>1, <2>1 DEF LockInvariant, ReleaserInv, Returned
<1>4. clientLockSeqMap[c][l] <= s /\ s = seq_num[c][l]
  BY <1>1 DEF LockInvariant, OwnerInv
<1> HIDE DEF c, l, s
<1>5. \A d \in Client, k \in Lock :
        /\ clientLockSeqMap'[d][k] = IF d = c /\ k = l THEN s ELSE clientLockSeqMap[d][k]
        /\ srevoke[d][k] <= clientLockSeqMap[d][k]
        /\ srevoke[d][k] \in Nat /\ clientLockSeqMap[d][k] \in Nat
  <2>1. /\ clientLockSeqMap \in [Client -> [Lock -> Nat]]
        /\ srevoke \in [Client -> [Lock -> Nat]]
    BY DEF LockInvariant, TypeOK
  <2>2. \A d \in Client, k \in Lock :
          clientLockSeqMap'[d][k] = IF d = c /\ k = l THEN s ELSE clientLockSeqMap[d][k]
    BY <1>1, <1>2, <2>1
  <2>3. QED BY <2>1, <2>2 DEF AllocationInv
<1>6. \A d \in Client, k \in Lock : srevoke'[d][k] <= clientLockSeqMap'[d][k]
  BY <1>1, <1>2, <1>4, <1>5
<1>7. \A k \in Lock :
        /\ isAllocated'[k] = IF k = l THEN TRUE ELSE isAllocated[k]
        /\ holder'[k] = IF k = l THEN c ELSE holder[k]
        /\ seqNo'[k] = IF k = l THEN s ELSE seqNo[k]
  BY <1>1, <1>2 DEF LockInvariant, TypeOK
<1>8. \A d \in Client, k \in Lock :
        isAllocated'[k] /\ holder'[k] = d => seq_num'[d][k] = seqNo'[k] /\ ~ Returned(d, k)'
  <2> SUFFICES ASSUME NEW d \in Client, NEW k \in Lock, isAllocated'[k], holder'[k] = d
               PROVE  seq_num[d][k] = seqNo'[k] /\ ~ Returned(d, k)
    BY <1>2 DEF Returned
  <2>1. CASE k = l
    BY <1>1, <1>3, <1>4, <1>7, <2>1
  <2>2. CASE k # l
    BY <1>7, <2>2 DEF AllocationInv
  <2>3. QED BY <2>1, <2>2
<1>9. QED BY <1>2, <1>6, <1>7, <1>8 DEF AllocationInv

\* The client has the answer to its release and goes on to its next number.
LEMMA AllocationDone ==
  ASSUME "acquire" \notin LateOps, LockInvariant, AllocationInv, NEW c \in Client,
         ReleaserDone(c)
  PROVE  AllocationInv'
<1> DEFINE l == rlock[c]
<1>1. l \in Lock /\ seq_num \in [Client -> [Lock -> Nat]] /\ Returned(c, l)
  BY DEF LockInvariant, TypeOK, ReleaserDone, Returned
<1>2. \A m \in late' :
        m \in late \/ (m.op # "acquire" /\ (m.op = "release" => 0 < m.seq))
  <2>1. Leave("release", c, l, seq_num[c][l]) /\ 0 < seq_num[c][l]
    BY <1>1 DEF ReleaserDone, AllocationInv
  <2>2. QED BY <1>1, <2>1, LeaveNoAcquire DEF LockInvariant, Ops
<1>3. /\ UNCHANGED <<checked, isAllocated, seqNo, holder, clientLockSeqMap, srevoke, rlock>>
      /\ relpc' = [relpc EXCEPT ![c] = "scan"]
      /\ seq_num' = [seq_num EXCEPT ![c][l] = seq_num[c][l] + 1]
  BY DEF ReleaserDone, serverVars, allocVars, queueVars
<1>4. \A d \in Client, k \in Lock :
        /\ seq_num'[d][k] = IF d = c /\ k = l THEN seq_num[c][l] + 1 ELSE seq_num[d][k]
        /\ seq_num[d][k] \in Nat
  BY <1>1, <1>3
<1>5. \A d \in Client, k \in Lock : Returned(d, k)' => Returned(d, k)
  BY <1>3 DEF Returned, LockInvariant, TypeOK
<1> HIDE DEF l
<1>6. \A d \in Client, k \in Lock :
        /\ 0 < seq_num'[d][k]
        /\ isAllocated'[k] /\ holder'[k] = d =>
             seq_num'[d][k] = seqNo'[k] /\ ~ Returned(d, k)'
  BY <1>1, <1>3, <1>4, <1>5 DEF AllocationInv
<1>7. QED BY <1>2, <1>3, <1>6 DEF AllocationInv

LEMMA AllocationStep ==
  ASSUME "acquire" \notin LateOps, LockInvariant, AllocationInv, [Next]_vars
  PROVE  AllocationInv'
<1>0. TypeOK /\ TypeOK'
  BY TypeStep DEF LockInvariant
<1>1. ASSUME NEW t \in Thread, ThreadStep(t) \/ \E l \in Lock : Acquire(t, l)
      PROVE  AllocationInv'
  <2> USE DEF statusVars, relVars, serverVars, allocVars, queueVars, sendVars, netVars
  <2>0. /\ clientOf[t] \in Client /\ lid[t] \in Lock
        /\ seq_num[clientOf[t]][lid[t]] \in Nat
    BY <1>0 DEF TypeOK
  <2>1. CASE PingGrant(t)
    BY <2>1, AllocationGrant
  <2>2. CASE PingRefuse(t)
    <3> DEFINE l == lid[t]
    <3>1. /\ srevoke' = [srevoke EXCEPT ![holder[l]][l] = clientLockSeqMap[holder[l]][l]]
          /\ UNCHANGED <<checked, late, isAllocated, seqNo, holder, seq_num,
                         clientLockSeqMap, relpc, rlock>>
      BY <2>2 DEF PingRefuse, Refuse
    <3>2. \A c \in Client, k \in Lock :
            srevoke'[c][k] \in {srevoke[c][k], clientLockSeqMap[c][k]}
      <4>1. srevoke \in [Client -> [Lock -> Nat]] /\ holder[l] \in Client /\ l \in Lock
        BY <1>0, <2>0 DEF TypeOK
      <4>2. QED BY <3>1, <4>1
    <3>3. QED BY <1>0, <3>1, <3>2, AllocationFrame DEF Returned
  <2>3. CASE PingOK(t) \/ PingAgain(t)
    <3>1. /\ UNCHANGED <<checked, isAllocated, seqNo, holder, seq_num, srevoke,
                         clientLockSeqMap, relpc, rlock>>
          /\ Leave("acquire", clientOf[t], lid[t], seq_num[clientOf[t]][lid[t]])
      BY <2>3 DEF PingOK, PingAgain
    <3>2. \A m \in late' :
            m \in late \/ (m.op # "acquire" /\ (m.op = "release" => 0 < m.seq))
      BY <1>0, <2>0, <3>1, LeaveNoAcquire DEF Ops
    <3>3. QED BY <1>0, <3>1, <3>2, AllocationFrame DEF Returned
  <2>4. CASE \E l \in Lock : Release(t, l)
    <3>1. PICK l \in Lock : Release(t, l)
      BY <2>4
    <3>2. /\ UNCHANGED <<checked, late, isAllocated, seqNo, holder, seq_num, srevoke,
                         clientLockSeqMap, rlock>>
          /\ UNCHANGED relpc \/ WakeReleaser(clientOf[t])
      BY <3>1 DEF Release
    <3>3. \A c \in Client, k \in Lock : Returned(c, k)' => Returned(c, k)
      BY <1>0, <2>0, <3>2, WakeReleaserEffect DEF Returned
    <3>4. QED BY <1>0, <3>2, <3>3, AllocationFrame
  <2>5. CASE \/ \E l \in Lock : Acquire(t, l)
             \/ SwitchNone(t) \/ SwitchFree(t) \/ SwitchWait(t)
             \/ PingCheck(t) \/ RetryWake(t)
    <3>1. UNCHANGED <<checked, late, isAllocated, seqNo, holder, seq_num, srevoke,
                      clientLockSeqMap, relpc, rlock>>
      BY <2>5 DEF Acquire, SwitchNone, SwitchFree, SwitchWait, PingCheck, RetryWake
    <3>2. QED BY <1>0, <3>1, AllocationFrame DEF Returned
  <2>6. QED BY <1>1, <2>1, <2>2, <2>3, <2>4, <2>5 DEF ThreadStep, AcquireStep
<1>2. ASSUME NEW c \in Client, ReleaserStep(c) PROVE AllocationInv'
  <2> USE DEF statusVars, serverVars, allocVars, queueVars, sendVars, netVars
  <2>1. CASE ReleaserDone(c)
    BY <2>1, AllocationDone
  <2>2. CASE ReleaserRelease(c)
    <3> DEFINE l == rlock[c]
    <3>1. l \in Lock /\ seq_num[c][l] \in Nat /\ 0 < seq_num[c][l]
      BY <1>0 DEF TypeOK, AllocationInv
    <3>2. /\ ServerRelease(c, l, seq_num[c][l])
          /\ UNCHANGED <<seq_num, rlock, checked, late>>
          /\ relpc' = [relpc EXCEPT ![c] = "reply"]
      BY <2>2 DEF ReleaserRelease
    <3>3. \A d \in Client, k \in Lock : Returned(d, k)' =>
            Returned(d, k) \/ (d = c /\ k = l /\ seq_num[c][l] = seq_num[c][l])
      BY <1>0, <3>2 DEF TypeOK, Returned
    <3>4. QED BY <1>0, <3>1, <3>2, <3>3, AllocationRelease
  <2>3. CASE \/ ReleaserSleep(c) \/ ReleaserSnapshot(c) \/ ReleaserCleanup(c)
             \/ \E l \in Lock : ReleaserSkip(c, l) \/ ReleaserCall(c, l)
    <3>1. UNCHANGED <<checked, late, isAllocated, seqNo, holder, seq_num, srevoke,
                      clientLockSeqMap>>
      BY <2>3 DEF ReleaserSleep, ReleaserSnapshot, ReleaserCleanup, ReleaserSkip,
         ReleaserCall
    <3>2. \A d \in Client, k \in Lock : Returned(d, k)' => Returned(d, k)
      <4>1. relpc \in [Client -> {"top", "asleep", "scan", "call", "reply"}]
            /\ rlock \in [Client -> Lock]
        BY <1>0 DEF TypeOK
      <4>2. CASE UNCHANGED <<relpc, rlock>>
        BY <4>2 DEF Returned
      <4>3. CASE /\ \E p \in {"top", "asleep", "scan", "call"} : relpc' = [relpc EXCEPT ![c] = p]
                 /\ \A d \in Client \ {c} : rlock'[d] = rlock[d]
        BY <4>1, <4>3 DEF Returned
      <4>4. \/ UNCHANGED <<relpc, rlock>>
            \/ /\ \E p \in {"top", "asleep", "scan", "call"} : relpc' = [relpc EXCEPT ![c] = p]
               /\ \A d \in Client \ {c} : rlock'[d] = rlock[d]
        BY <2>3, <4>1 DEF ReleaserSleep, ReleaserSnapshot, ReleaserCleanup, ReleaserSkip,
           ReleaserCall, relVars
      <4>5. QED BY <4>2, <4>3, <4>4
    <3>3. QED BY <1>0, <3>1, <3>2, AllocationFrame
  <2>4. QED BY <1>2, <2>1, <2>2, <2>3 DEF ReleaserStep
<1>3. ASSUME NEW c \in Client, NEW l \in Lock, NEW s \in Nat, Revoke(c, l, s)
      PROVE  \A d \in Client, k \in Lock : UNCHANGED rlock /\ Returned(d, k)' => Returned(d, k)
  <2>1. UNCHANGED relpc \/ WakeReleaser(c)
    BY <1>3 DEF Revoke
  <2>2. QED BY <1>0, <2>1, WakeReleaserEffect DEF Returned
<1>4. CASE RevokerStep \/ RetryerStep
  <2> USE DEF statusVars, relVars, threadVars, allocVars, queueVars, netVars
  <2>1. CASE RevokerTake
    <3>1. /\ UNCHANGED <<checked, late, isAllocated, seqNo, holder, seq_num,
                         clientLockSeqMap, relpc, rlock>>
          /\ srevoke' = [c \in Client |-> [l \in Lock |-> 0]]
      BY <2>1 DEF RevokerTake
    <3>2. QED BY <1>0, <3>1, AllocationFrame DEF Returned
  <2>2. ASSUME NEW c \in Client, NEW l \in Lock, RevokerCall(c, l) PROVE AllocationInv'
    <3>1. /\ UNCHANGED <<checked, isAllocated, seqNo, holder, seq_num, srevoke,
                         clientLockSeqMap, rlock>>
          /\ revoking[c][l] \in Nat
          /\ Revoke(c, l, revoking[c][l]) /\ Leave("revoke", c, l, revoking[c][l])
      BY <1>0, <2>2 DEF RevokerCall, TypeOK
    <3>2. \A m \in late' :
            m \in late \/ (m.op # "acquire" /\ (m.op = "release" => 0 < m.seq))
      BY <1>0, <3>1, LeaveNoAcquire DEF Ops
    <3>3. QED BY <1>0, <1>3, <3>1, <3>2, AllocationFrame
  <2>3. CASE RetryerTake
    <3>1. UNCHANGED <<checked, late, isAllocated, seqNo, holder, seq_num, srevoke,
                      clientLockSeqMap, relpc, rlock>>
      BY <2>3 DEF RetryerTake
    <3>2. QED BY <1>0, <3>1, AllocationFrame DEF Returned
  <2>4. ASSUME NEW c \in Client, NEW l \in Lock, RetryerCall(c, l) PROVE AllocationInv'
    <3>1. /\ UNCHANGED <<checked, isAllocated, seqNo, holder, seq_num, srevoke,
                         clientLockSeqMap, relpc, rlock>>
          /\ Leave("retry", c, l, 0)
      BY <2>4 DEF RetryerCall
    <3>2. \A m \in late' :
            m \in late \/ (m.op # "acquire" /\ (m.op = "release" => 0 < m.seq))
      BY <1>0, <3>1, LeaveNoAcquire DEF Ops
    <3>3. QED BY <1>0, <3>1, <3>2, AllocationFrame DEF Returned
  <2>5. QED BY <1>4, <2>1, <2>2, <2>3, <2>4 DEF RevokerStep, RetryerStep
<1>5. CASE LateStep
  <2> USE DEF statusVars, relVars, threadVars, serverVars, allocVars, queueVars, sendVars
  <2>0. \A m \in late : /\ m.client \in Client /\ m.lid \in Lock /\ m.seq \in Nat
                        /\ m.op # "acquire" /\ (m.op = "release" => 0 < m.seq)
    BY <1>0 DEF TypeOK, Call, AllocationInv
  <2>1. ASSUME NEW m \in late, LateRelease(m) PROVE AllocationInv'
    <3>1. /\ ServerRelease(m.client, m.lid, m.seq) /\ 0 < m.seq
          /\ UNCHANGED <<seq_num, relpc, rlock, checked>> /\ late' \subseteq late
      BY <2>0, <2>1 DEF LateRelease
    <3>2. QED BY <1>0, <2>0, <3>1, AllocationRelease DEF Returned
  <2>2. ASSUME NEW m \in late, LateRevoke(m) PROVE AllocationInv'
    <3>1. /\ UNCHANGED <<checked, isAllocated, seqNo, holder, seq_num, srevoke,
                         clientLockSeqMap, rlock>>
          /\ late' \subseteq late /\ Revoke(m.client, m.lid, m.seq)
      BY <2>2 DEF LateRevoke
    <3>2. QED BY <1>0, <1>3, <2>0, <3>1, AllocationFrame
  <2>3. ASSUME NEW m \in late, LateRetry(m) PROVE AllocationInv'
    <3>1. /\ UNCHANGED <<checked, isAllocated, seqNo, holder, seq_num, srevoke,
                         clientLockSeqMap, relpc, rlock>>
          /\ late' \subseteq late
      BY <2>3 DEF LateRetry
    <3>2. QED BY <1>0, <3>1, AllocationFrame DEF Returned
  <2>4. QED BY <1>5, <2>0, <2>1, <2>2, <2>3 DEF LateStep, LateCheck, AllocationInv
<1>6. CASE UNCHANGED vars
  <2>1. UNCHANGED <<checked, late, isAllocated, seqNo, holder, seq_num, srevoke,
                    clientLockSeqMap, relpc, rlock>>
    BY <1>6 DEF vars, statusVars, relVars, serverVars, allocVars, queueVars, netVars
  <2>2. QED BY <1>0, <2>1, AllocationFrame DEF Returned
<1>7. QED
  BY <1>1, <1>2, <1>4, <1>5, <1>6 DEF Next

LEMMA AllocationHolds ==
  ASSUME "acquire" \notin LateOps
  PROVE  Spec => []AllocationInv
<1>1. LockInvariant /\ AllocationInv /\ [Next]_vars => AllocationInv'
  BY AllocationStep
<1>2. QED
  BY <1>1, AllocationInit, LockInvariantHolds, PTL DEF Spec

\* Without copies of acquires, a lock that the server has out is with a client
\* that still works under that number: a revoke for it (lock_client_cache.cc,
\* revoke) is never ignored as old.
THEOREM LockHolderIsCurrent ==
  ASSUME "acquire" \notin LateOps
  PROVE  Spec => []HolderIsCurrent
<1>1. LockInvariant /\ AllocationInv => HolderIsCurrent
  BY DEF LockInvariant, TypeOK, AllocationInv, HolderIsCurrent
<1>2. QED
  BY <1>1, LockInvariantHolds, AllocationHolds, PTL

\* Without copies of acquires, no assertion of the two programs fails: in the
\* client's release, in the server's release and in add_Revoke_Request.
THEOREM LockAssertsHold ==
  ASSUME "acquire" \notin LateOps
  PROVE  Spec => []AssertsHold
<1>1. ASSUME LockInvariant, AllocationInv PROVE AssertsHold
  <2>1. \A t \in Thread : \A l \in held[t] : lstatus[clientOf[t]][l] = "LOCKED"
    BY <1>1 DEF LockInvariant, ThreadInv
  <2>2. \A c \in Client :
          relpc[c] = "call" /\ holder[rlock[c]] = c
            /\ seqNo[rlock[c]] = seq_num[c][rlock[c]] => isAllocated[rlock[c]]
    <3>1. \A c \in Client : rlock[c] \in Lock /\ seq_num[c][rlock[c]] \in Nat
      BY <1>1 DEF LockInvariant, TypeOK
    <3>2. QED BY <1>1, <3>1 DEF AllocationInv
  <2>3. \A m \in late :
          m.op = "release" /\ holder[m.lid] = m.client /\ seqNo[m.lid] = m.seq
            => isAllocated[m.lid]
    <3>1. \A m \in late : m.lid \in Lock /\ m.seq \in Nat
      BY <1>1 DEF LockInvariant, TypeOK, Call
    <3>2. QED BY <1>1, <3>1 DEF AllocationInv
  <2>4. \A l \in {lid[t] : t \in {u \in Thread : pc[u] = "locked"}}
                 \cup {m.lid : m \in checked} :
          isAllocated[l] => clientLockSeqMap[holder[l]][l] >= srevoke[holder[l]][l]
    <3>1. \A l \in Lock : clientLockSeqMap[holder[l]][l] >= srevoke[holder[l]][l]
      <4>1. ASSUME NEW l \in Lock
            PROVE  /\ holder[l] \in Client
                   /\ clientLockSeqMap[holder[l]][l] \in Nat /\ srevoke[holder[l]][l] \in Nat
        BY <1>1 DEF LockInvariant, TypeOK
      <4>2. QED BY <1>1, <4>1 DEF AllocationInv
    <3>2. \A t \in Thread : lid[t] \in Lock
      BY <1>1 DEF LockInvariant, TypeOK
    <3>3. \A m \in checked : m.lid \in Lock
      BY <1>1 DEF LockInvariant, TypeOK, Call
    <3>4. QED BY <3>1, <3>2, <3>3
  <2>5. QED BY <2>1, <2>2, <2>3, <2>4 DEF AssertsHold
<1>2. QED
  BY <1>1, LockInvariantHolds, AllocationHolds, PTL

-----------------------------------------------------------------------------
(* What the client has promised to give back *)

\* A number is never 0, the value for "no revoke"; what is RELEASING has its
\* revoke.
KeptInv == RevokeKept /\ \A c \in Client, l \in Lock : 0 < seq_num[c][l]

\* A step that makes no lock RELEASING and leaves the entry of one that is.
LEMMA KeptFrame ==
  ASSUME KeptInv, UNCHANGED seq_num,
         \A c \in Client, l \in Lock : lstatus'[c][l] = "RELEASING" =>
           /\ lstatus[c][l] = "RELEASING" /\ revokeMap'[c][l] = revokeMap[c][l]
           /\ relpc'[c] = "asleep" => relpc[c] = "asleep"
  PROVE  KeptInv'
BY DEF KeptInv, RevokeKept

\* revoke: the entry is the current number, whatever it was before.
LEMMA KeptRevoke ==
  ASSUME TypeOK, KeptInv, UNCHANGED seq_num,
         NEW c \in Client, NEW l \in Lock, NEW s \in Nat, Revoke(c, l, s)
  PROVE  KeptInv'
<1>1. CASE UNCHANGED <<revokeMap, lstatus, relpc>>
  BY <1>1, KeptFrame
<1>2. CASE ~ UNCHANGED <<revokeMap, lstatus, relpc>>
  <2>1. /\ revokeMap' = [revokeMap EXCEPT ![c][l] = s] /\ seq_num[c][l] = s
        /\ \/ /\ lstatus' = [lstatus EXCEPT ![c][l] = "RELEASING"]
              /\ WakeReleaser(c)
           \/ UNCHANGED <<lstatus, relpc>>
    BY <1>2 DEF Revoke
  <2>2. /\ revokeMap \in [Client -> [Lock -> Nat]] /\ lstatus \in [Client -> [Lock -> Status]]
        /\ relpc \in [Client -> {"top", "asleep", "scan", "call", "reply"}]
    BY DEF TypeOK
  <2>3. \A d \in Client, k \in Lock :
          revokeMap'[d][k] = IF d = c /\ k = l THEN seq_num[c][l] ELSE revokeMap[d][k]
    BY <2>1, <2>2
  <2>4. \A d \in Client, k \in Lock : lstatus'[d][k] = "RELEASING" =>
          /\ lstatus[d][k] = "RELEASING" \/ (d = c /\ k = l)
          /\ relpc'[d] # "asleep"
    BY <2>1, <2>2 DEF WakeReleaser, KeptInv, RevokeKept
  <2>5. QED BY <2>3, <2>4 DEF KeptInv, RevokeKept
<1>3. QED BY <1>1, <1>2

LEMMA KeptStep ==
  ASSUME TypeOK, KeptInv, [Next]_vars
  PROVE  KeptInv'
<1>0. /\ revokeMap \in [Client -> [Lock -> Nat]] /\ lstatus \in [Client -> [Lock -> Status]]
      /\ seq_num \in [Client -> [Lock -> Nat]] /\ rlock \in [Client -> Lock]
      /\ relpc \in [Client -> {"top", "asleep", "scan", "call", "reply"}]
      /\ lid \in [Thread -> Lock] /\ \A t \in Thread : clientOf[t] \in Client
  BY DEF TypeOK
<1>1. ASSUME NEW t \in Thread, ThreadStep(t) \/ \E l \in Lock : Acquire(t, l)
      PROVE  KeptInv'
  <2> USE DEF statusVars, relVars
  <2>1. CASE SwitchNone(t) \/ SwitchFree(t) \/ PingOK(t)
    <3>1. /\ UNCHANGED <<seq_num, revokeMap, relpc>>
          /\ \E s \in {"ACQUIRING", "LOCKED"} :
               lstatus' = [lstatus EXCEPT ![clientOf[t]][lid[t]] = s]
      BY <2>1 DEF SwitchNone, SwitchFree, PingOK
    <3>2. \A d \in Client, k \in Lock :
            lstatus'[d][k] = "RELEASING" => lstatus[d][k] = "RELEASING"
      BY <1>0, <3>1
    <3>3. QED BY <3>1, <3>2, KeptFrame
  <2>2. CASE \E l \in Lock : Release(t, l)
    <3>1. PICK l \in Lock : Release(t, l)
      BY <2>2
    <3> DEFINE c == clientOf[t]
    <3>2. UNCHANGED <<seq_num, revokeMap>> /\ c \in Client
      BY <1>0, <3>1 DEF Release
    <3>3. CASE revokeMap[c][l] # 0 /\ revokeMap[c][l] = seq_num[c][l]
      <4>1. lstatus' = [lstatus EXCEPT ![c][l] = "RELEASING"] /\ WakeReleaser(c)
        BY <3>1, <3>3 DEF Release
      <4>2. \A d \in Client, k \in Lock : lstatus'[d][k] = "RELEASING" =>
              /\ lstatus[d][k] = "RELEASING" \/ (d = c /\ k = l)
              /\ relpc'[d] # "asleep"
        BY <1>0, <3>2, <4>1 DEF WakeReleaser, KeptInv, RevokeKept
      <4>3. QED BY <3>2, <3>3, <4>2 DEF KeptInv, RevokeKept
    <3>4. CASE ~ (revokeMap[c][l] # 0 /\ revokeMap[c][l] = seq_num[c][l])
      <4>1. lstatus' = [lstatus EXCEPT ![c][l] = "FREE"] /\ UNCHANGED relpc
        BY <3>1, <3>4 DEF Release
      <4>2. \A d \in Client, k \in Lock :
              lstatus'[d][k] = "RELEASING" => lstatus[d][k] = "RELEASING"
        BY <1>0, <3>2, <4>1
      <4>3. QED BY <3>2, <4>1, <4>2, KeptFrame
    <3>5. QED BY <3>3, <3>4
  <2>3. CASE \/ \E l \in Lock : Acquire(t, l)
             \/ SwitchWait(t) \/ PingCheck(t) \/ PingGrant(t) \/ PingRefuse(t)
             \/ PingAgain(t) \/ RetryWake(t)
    <3>1. UNCHANGED <<seq_num, lstatus, revokeMap, relpc>>
      BY <2>3 DEF Acquire, SwitchWait, PingCheck, PingGrant, PingRefuse, PingAgain, RetryWake
    <3>2. QED BY <3>1, KeptFrame
  <2>4. QED BY <1>1, <2>1, <2>2, <2>3 DEF ThreadStep, AcquireStep
<1>2. ASSUME NEW c \in Client, ReleaserStep(c) PROVE KeptInv'
  <2>1. CASE ReleaserSleep(c)
    <3>1. UNCHANGED <<seq_num, lstatus, revokeMap>> /\ \A d \in Client \ {c} : relpc'[d] = relpc[d]
      BY <1>0, <2>1 DEF ReleaserSleep, statusVars
    <3>2. \A l \in Lock : lstatus[c][l] # "RELEASING"
      BY <2>1 DEF ReleaserSleep, KeptInv, RevokeKept
    <3>3. QED BY <3>1, <3>2, KeptFrame
  <2>2. CASE ReleaserDone(c)
    <3>1. /\ lstatus' = [lstatus EXCEPT ![c][rlock[c]] = "NONE"]
          /\ seq_num' = [seq_num EXCEPT ![c][rlock[c]] = seq_num[c][rlock[c]] + 1]
          /\ relpc' = [relpc EXCEPT ![c] = "scan"] /\ UNCHANGED revokeMap
          /\ rlock[c] \in Lock
      BY <1>0, <2>2 DEF ReleaserDone
    <3>2. \A d \in Client, k \in Lock :
            /\ lstatus'[d][k] = "RELEASING" =>
                 /\ lstatus[d][k] = "RELEASING" /\ seq_num'[d][k] = seq_num[d][k]
                 /\ relpc'[d] = "asleep" => relpc[d] = "asleep"
            /\ seq_num[d][k] \in Nat /\ seq_num'[d][k] \in {seq_num[d][k], seq_num[d][k] + 1}
      BY <1>0, <3>1
    <3>3. QED BY <3>1, <3>2 DEF KeptInv, RevokeKept
  <2>3. CASE ReleaserCleanup(c)
    <3>1. PICK gone \in SUBSET Stale(c) :
            revokeMap' = [revokeMap EXCEPT ![c] =
              [l \in Lock |-> IF l \in gone THEN 0 ELSE revokeMap[c][l]]]
      BY <2>3 DEF ReleaserCleanup
    <3>2. UNCHANGED <<seq_num, lstatus>> /\ relpc' = [relpc EXCEPT ![c] = "top"]
      BY <2>3 DEF ReleaserCleanup, statusVars
    <3>3. \A l \in Lock : lstatus[c][l] = "RELEASING" => l \notin gone
      BY <1>0, <3>1 DEF Stale, KeptInv, RevokeKept
    <3>4. QED BY <1>0, <3>1, <3>2, <3>3, KeptFrame
  <2>4. CASE \/ ReleaserSnapshot(c) \/ ReleaserRelease(c)
             \/ \E l \in Lock : ReleaserSkip(c, l) \/ ReleaserCall(c, l)
    <3>1. /\ UNCHANGED <<seq_num, lstatus, revokeMap>>
          /\ UNCHANGED relpc \/ \E p \in {"scan", "call", "reply"} : relpc' = [relpc EXCEPT ![c] = p]
      BY <2>4 DEF ReleaserSnapshot, ReleaserRelease, ReleaserSkip, ReleaserCall, statusVars
    <3>2. \A d \in Client : relpc'[d] = "asleep" => relpc[d] = "asleep"
      BY <1>0, <3>1
    <3>3. QED BY <3>1, <3>2, KeptFrame
  <2>5. QED BY <1>2, <2>1, <2>2, <2>3, <2>4 DEF ReleaserStep
<1>3. CASE RevokerStep \/ LateStep
  <2>1. ASSUME NEW c \in Client, NEW l \in Lock, RevokerCall(c, l) PROVE KeptInv'
    <3>1. Revoke(c, l, revoking[c][l]) /\ UNCHANGED seq_num /\ revoking[c][l] \in Nat
      BY <2>1 DEF RevokerCall, TypeOK
    <3>2. QED BY <3>1, KeptRevoke
  <2>2. ASSUME NEW m \in late, LateRevoke(m) PROVE KeptInv'
    <3>1. /\ Revoke(m.client, m.lid, m.seq) /\ UNCHANGED seq_num
          /\ m.client \in Client /\ m.lid \in Lock /\ m.seq \in Nat
      BY <2>2 DEF LateRevoke, TypeOK, Call
    <3>2. QED BY <3>1, KeptRevoke
  <2>3. CASE \/ RevokerTake
             \/ \E m \in late : LateRelease(m) \/ LateRetry(m) \/ LateCheck(m)
             \/ \E m \in checked : LateAcquire(m)
    <3>1. UNCHANGED <<seq_num, lstatus, revokeMap, relpc>>
      BY <2>3 DEF RevokerTake, LateRelease, LateRetry, LateCheck, LateAcquire, statusVars, relVars
    <3>2. QED BY <3>1, KeptFrame
  <2>4. QED BY <1>3, <2>1, <2>2, <2>3 DEF RevokerStep, LateStep
<1>4. CASE RetryerStep \/ UNCHANGED vars
  <2>1. UNCHANGED <<seq_num, lstatus, revokeMap, relpc>>
    BY <1>4 DEF RetryerStep, RetryerTake, RetryerCall, vars, statusVars, relVars
  <2>2. QED BY <2>1, KeptFrame
<1>5. QED
  BY <1>1, <1>2, <1>3, <1>4 DEF Next

\* A revoke for which a lock was set RELEASING stays in revokeMap until the lock
\* has gone back, and the releaser does not sleep on it, whatever other locks the
\* client has, whichever old entries releaser erases and whatever calls are
\* copied (lock_client_cache.cc, revoke and releaser).
THEOREM LockRevokeKept == Spec => []RevokeKept
<1>1. Init => KeptInv
  BY DEF Init, KeptInv, RevokeKept
<1>2. TypeOK /\ KeptInv /\ [Next]_vars => KeptInv'
  BY KeptStep
<1>3. KeptInv => RevokeKept
  BY DEF KeptInv
<1>4. QED
  BY <1>1, <1>2, <1>3, LockTypeCorrect, PTL DEF Spec
=============================================================================
