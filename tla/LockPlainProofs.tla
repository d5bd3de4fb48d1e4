-------------------------- MODULE LockPlainProofs --------------------------
(***************************************************************************)
(* Proofs about LockPlain for any threads, scripts, locks, workers and     *)
(* size of the queue: its types, of which the bound of the queue is one,   *)
(* that no job lies in the queue for want of a signal, and, with the       *)
(* scripts of lock_tester, that no check fails.                            *)
(***************************************************************************)
EXTENDS LockPlainInv, TLAPS, FiniteSetTheorems, SequenceTheorems

(***************************************************************************)
(* Sequences behind one another.                                           *)
(***************************************************************************)
\* r is x and behind it y.
Joins(r, x, y) ==
    /\ Len(r) = Len(x) + Len(y)
    /\ \A i \in 1 .. Len(x) : r[i] = x[i]
    /\ \A i \in 1 .. Len(y) : r[Len(x) + i] = y[i]

LEMMA Joined ==
  ASSUME NEW S, NEW x \in Seq(S), NEW y \in Seq(S)
  PROVE  x \o y \in Seq(S) /\ Joins(x \o y, x, y)
<1>1. x \o y \in Seq(S)
  OBVIOUS
<1>2. Len(x \o y) = Len(x) + Len(y)
  OBVIOUS
<1>3. Len(x) \in Nat /\ Len(y) \in Nat
  OBVIOUS
<1>4. \A i \in 1 .. Len(x) + Len(y) : (x \o y)[i] = IF i <= Len(x) THEN x[i] ELSE y[i - Len(x)]
  BY ConcatProperties, Zenon
<1>5. ASSUME NEW i \in 1 .. Len(x) PROVE (x \o y)[i] = x[i]
  <2>1. i \in 1 .. Len(x) + Len(y) /\ i <= Len(x)
    BY <1>3
  <2>2. QED BY <1>4, <2>1, Zenon
<1>6. ASSUME NEW i \in 1 .. Len(y) PROVE (x \o y)[Len(x) + i] = y[i]
  <2>1. Len(x) + i \in 1 .. Len(x) + Len(y) /\ ~(Len(x) + i <= Len(x)) /\ (Len(x) + i) - Len(x) = i
    BY <1>3
  <2>2. QED BY <1>4, <2>1, Zenon
<1>7. QED BY <1>1, <1>2, <1>5, <1>6, Zenon DEF Joins

\* s is x, y and z in this order, of two, four and two elements.
Nests(s, x, y, z) ==
    /\ Len(s) = 8 /\ s[1] = x[1] /\ s[2] = x[2]
    /\ s[3] = y[1] /\ s[4] = y[2] /\ s[5] = y[3] /\ s[6] = y[4]
    /\ s[7] = z[1] /\ s[8] = z[2]

LEMMA ThreeParts ==
  ASSUME NEW S, NEW x \in Seq(S), NEW y \in Seq(S), NEW z \in Seq(S),
         Len(x) = 2, Len(y) = 4, Len(z) = 2, NEW s, s = x \o y \o z
  PROVE  Nests(s, x, y, z)
<1>1. PICK r : r = x \o y
  OBVIOUS
<1>2. r \in Seq(S) /\ Joins(r, x, y)
  BY <1>1, Joined, Zenon
<1>3. s = r \o z
  BY <1>1, Zenon
<1>4. Joins(s, r, z)
  BY <1>2, <1>3, Joined, Zenon
<1>5. /\ r[2 + 1] = y[1] /\ r[2 + 2] = y[2] /\ r[2 + 3] = y[3] /\ r[2 + 4] = y[4]
      /\ r[1] = x[1] /\ r[2] = x[2] /\ Len(r) = 6
  BY <1>2 DEF Joins
<1>6. /\ s[6 + 1] = z[1] /\ s[6 + 2] = z[2]
      /\ s[1] = r[1] /\ s[2] = r[2] /\ s[3] = r[3] /\ s[4] = r[4] /\ s[5] = r[5] /\ s[6] = r[6]
      /\ Len(s) = 8
  <2>1. PICK k : k = Len(r) /\ k = 6
    BY <1>5
  <2>2. /\ Len(s) = 6 + 2 /\ \A i \in 1 .. 6 : s[i] = r[i] /\ \A j \in 1 .. 2 : s[6 + j] = z[j]
    BY ONLY <1>4, <2>1, Len(z) = 2 DEF Joins
  <2>3. QED BY ONLY <2>2
<1>7. QED BY ONLY <1>5, <1>6 DEF Nests

LEMMA TwoFours ==
  ASSUME NEW S, NEW x \in Seq(S), Len(x) = 4, NEW r, r = x \o x
  PROVE  Len(r) = 8 /\ \A i \in 1 .. 4 : r[i] = x[i] /\ r[4 + i] = x[i]
<1>1. Joins(r, x, x)
  BY Joined, Zenon
<1>2. QED BY <1>1 DEF Joins

LEMMA ASeq ==
  ASSUME NEW S, NEW n \in Nat, NEW s \in [1..n -> S]
  PROVE  s \in Seq(S) /\ Len(s) = n
<1>1. s \in Seq(S)
  BY SeqDef
<1>2. Len(s) \in Nat /\ DOMAIN s = 1 .. Len(s)
  BY <1>1, LenProperties
<1>3. DOMAIN s = 1 .. n
  OBVIOUS
<1>4. QED BY <1>1, <1>2, <1>3

USE LockPlainAssumption

\* What a worker's place says of its job and of the mutex it is about to lock.
WorkersInv ==
    \A w \in Worker :
      /\ wk[w].pc \notin {"deq", "asleep", "exited"} => wk[w].j \in Job
      /\ wk[w].pc \in {"lock", "relock", "rlock", "cv"} => failed \/ wk[w].x \in Lock

Working == [pc : WorkerPC, j : Job \cup {Pill}, x : Lock \cup {NULL}]

Deq == {w \in Worker : wk[w].pc = "deq"}
Asleep == {w \in Worker : wk[w].pc = "asleep"}

Inv == TypeOK /\ WorkersInv /\ JobsWakeWorkers

LEMMA PillIsNoJob == Pill \notin Job
BY DEF Pill, Job

\* The workers at the queue can be counted.
LEMMA DeqCount ==
  IsFiniteSet(Deq) /\ Cardinality(Deq) \in Nat
<1>1. Deq \subseteq Worker
  BY DEF Deq
<1>2. IsFiniteSet(Deq)
  BY <1>1, FS_Subset
<1>3. QED BY <1>2, FS_CardinalityType

\* One more worker at the queue, one less, or as many.
LEMMA DeqMore ==
  ASSUME NEW w \in Worker, wk[w].pc # "deq", wk'[w].pc = "deq",
         \A v \in Worker \ {w} : wk'[v].pc = wk[v].pc
  PROVE  Cardinality(Deq') = Cardinality(Deq) + 1
<1>1. Deq' = Deq \cup {w} /\ w \notin Deq
  BY DEF Deq
<1>2. QED BY <1>1, DeqCount, FS_AddElement

LEMMA DeqLess ==
  ASSUME NEW w \in Worker, wk[w].pc = "deq", wk'[w].pc # "deq",
         \A v \in Worker \ {w} : wk'[v].pc = wk[v].pc
  PROVE  Cardinality(Deq') = Cardinality(Deq) - 1
<1>1. Deq' = Deq \ {w} /\ w \in Deq
  BY DEF Deq
<1>2. QED BY <1>1, DeqCount, FS_RemoveElement

LEMMA WakeInTerms ==
  JobsWakeWorkers <=> (Asleep # {} => Len(jobq) <= Cardinality(Deq))
BY DEF JobsWakeWorkers, Asleep, Deq

\* A step that leaves the queue alone and puts no worker to sleep, and takes
\* none from the queue.
LEMMA QueueKept ==
  ASSUME JobsWakeWorkers, jobq' = jobq, jobq \in Seq(Job \cup {Pill}),
         \A v \in Worker : wk[v].pc = "deq" => wk'[v].pc = "deq",
         \A v \in Worker : wk'[v].pc = "asleep" => wk[v].pc = "asleep"
  PROVE  JobsWakeWorkers'
<1>1. Deq \subseteq Deq' /\ Asleep' \subseteq Asleep
  BY DEF Deq, Asleep
<1>2. Deq' \subseteq Worker
  BY DEF Deq
<1>3. IsFiniteSet(Deq')
  BY <1>2, FS_Subset
<1>4. Cardinality(Deq) <= Cardinality(Deq') /\ Cardinality(Deq') \in Nat /\ Cardinality(Deq) \in Nat
  BY <1>1, <1>3, DeqCount, FS_Subset, FS_CardinalityType
<1>5. Len(jobq) \in Nat
  OBVIOUS
<1>6. Asleep # {} => Len(jobq) <= Cardinality(Deq)
  BY WakeInTerms
<1>7. Asleep' # {} => Len(jobq') <= Cardinality(Deq')
  BY <1>1, <1>4, <1>5, <1>6
<1>8. QED BY <1>7 DEF JobsWakeWorkers, Asleep, Deq

LEMMA Places ==
  /\ {"deq", "asleep", "exited", "acquire", "found", "m", "lock", "test", "wait", "cv",
      "relock", "grant"} \subseteq WorkerPC
  /\ {"release", "end", "rm", "rlock", "clear", "signal", "unlock", "stat", "reply"}
       \subseteq WorkerPC
BY DEF WorkerPC

LEMMA InitInv == Init => Inv
<1> SUFFICES ASSUME Init PROVE Inv
  OBVIOUS
<1>1. Cardinality(Worker) \in Nat
  BY FS_CardinalityType
<1>2. jobq = << >> /\ jobq \in Seq(Job \cup {Pill}) /\ Len(jobq) = 0
  BY DEF Init
<1>3. TypeOK
  <2>1. /\ granted \in [Lock -> BOOLEAN \cup {NULL}]
        /\ it \in Lock \cup {NULL} /\ mutex_ \in Worker \cup {NULL} /\ m \subseteq Lock
        /\ ct \in [Lock -> {0, 1}] /\ called \subseteq Thread
    BY DEF Init
  <2>2. ASSUME NEW t \in Thread PROVE todo[t] \in Seq(Op)
    BY DEF Init
  <2>3. todo \in [Thread -> Seq(Op)]
    BY <2>2 DEF Init
  <2>4. wk \in [Worker -> Working]
    BY Places DEF Init, Working
  <2>5. Len(jobq) <= MaxJobs /\ pills \in 0 .. Cardinality(Worker)
    BY <1>1, <1>2 DEF Init
  <2>6. QED BY <1>2, <2>1, <2>3, <2>4, <2>5 DEF Init, TypeOK, Working
<1>4. WorkersInv
  BY DEF Init, WorkersInv
<1>5. JobsWakeWorkers
  BY DEF Init, JobsWakeWorkers
<1>6. QED BY <1>3, <1>4, <1>5 DEF Inv
-----------------------------------------------------------------------------
(* The handlers                                                            *)

Away == {"deq", "asleep", "exited"}
Locking == {"lock", "relock", "rlock", "cv"}

\* A step of worker w in a handler: it stays in one or goes for the next job,
\* and may wake another from its wait.
Served(w) ==
    /\ wk' \in [Worker -> Working]
    /\ \/ wk'[w].j = wk[w].j /\ wk'[w].pc \notin Away
       \/ wk'[w].pc = "deq"
    /\ wk'[w].pc \in Locking => failed' \/ wk'[w].x \in Lock
    /\ \A v \in Worker \ {w} :
         \/ wk'[v] = wk[v]
         \/ wk[v].pc = "cv" /\ wk'[v].pc = "relock" /\ wk'[v].j = wk[v].j /\ wk'[v].x = wk[v].x
    /\ UNCHANGED queueVars

LEMMA ServedKeeps ==
  ASSUME Inv, ~failed, NEW w \in Worker, wk[w].pc \notin Away, Served(w)
  PROVE  WorkersInv' /\ JobsWakeWorkers'
<1>1. WorkersInv'
  <2> SUFFICES ASSUME NEW v \in Worker
               PROVE  /\ wk'[v].pc \notin {"deq", "asleep", "exited"} => wk'[v].j \in Job
                      /\ wk'[v].pc \in {"lock", "relock", "rlock", "cv"}
                           => failed' \/ wk'[v].x \in Lock
    BY DEF WorkersInv
  <2>1. CASE v = w
    BY <2>1 DEF Inv, WorkersInv, Served, Away, Locking
  <2>2. CASE v # w
    BY <2>2 DEF Inv, WorkersInv, Served
  <2>3. QED BY <2>1, <2>2
<1>2. JobsWakeWorkers'
  <2>1. jobq' = jobq /\ jobq \in Seq(Job \cup {Pill}) /\ JobsWakeWorkers
    BY DEF Inv, TypeOK, Served, queueVars
  <2>2. ASSUME NEW v \in Worker
        PROVE  /\ wk[v].pc = "deq" => wk'[v].pc = "deq"
               /\ wk'[v].pc = "asleep" => wk[v].pc = "asleep"
    BY DEF Served, Away
  <2>3. QED BY <2>1, <2>2, QueueKept
<1>3. QED BY <1>1, <1>2

LEMMA GoEffect ==
  ASSUME TypeOK, NEW w \in Worker, NEW pc \in WorkerPC, Go(w, pc)
  PROVE  /\ wk' \in [Worker -> Working]
         /\ wk'[w].pc = pc /\ wk'[w].j = wk[w].j /\ wk'[w].x = wk[w].x
         /\ \A v \in Worker \ {w} : wk'[v] = wk[v]
<1>1. wk \in [Worker -> Working] /\ wk[w] \in Working
  BY DEF TypeOK, Working
<1>2. wk' = [wk EXCEPT ![w] = [wk[w] EXCEPT !.pc = pc]]
  BY <1>1 DEF Go
<1>3. [wk[w] EXCEPT !.pc = pc] \in Working
  BY <1>1 DEF Working
<1>4. QED BY <1>1, <1>2, <1>3 DEF Working

\* A step to a place in a handler that locks no mutex.
LEMMA GoServed ==
  ASSUME TypeOK, NEW w \in Worker, NEW pc \in WorkerPC, pc \notin Away, pc \notin Locking,
         Go(w, pc), Idle
  PROVE  Served(w)
BY GoEffect DEF Served, Idle

\* The types of what the handlers change.
ServerTypes ==
    /\ granted' \in [Lock -> BOOLEAN \cup {NULL}]
    /\ it' \in Lock \cup {NULL} /\ mutex_' \in Worker \cup {NULL} /\ m' \subseteq Lock
    /\ failed' \in BOOLEAN

LEMMA ServeTypes ==
  ASSUME TypeOK, NEW w \in Worker, Served(w), ServerTypes, UNCHANGED testVars
  PROVE  TypeOK'
BY DEF TypeOK, Served, ServerTypes, Working, testVars, queueVars

\* What is to be shown of a step of a handler.
Handled(w) == wk[w].pc \notin Away /\ Served(w) /\ ServerTypes /\ UNCHANGED testVars

LEMMA HandledKeeps ==
  ASSUME Inv, ~failed, NEW w \in Worker, Handled(w)
  PROVE  Inv'
BY ServedKeeps, ServeTypes DEF Handled, Inv

LEMMA ServerHas ==
  ASSUME TypeOK
  PROVE  /\ granted \in [Lock -> BOOLEAN \cup {NULL}]
         /\ it \in Lock \cup {NULL} /\ mutex_ \in Worker \cup {NULL} /\ m \subseteq Lock
         /\ failed \in BOOLEAN /\ wk \in [Worker -> Working]
BY DEF TypeOK, Working

LEMMA AcquireHandled ==
  ASSUME Inv, ~failed, NEW w \in Worker, acquire(w) \/ Found(w)
  PROVE  Handled(w)
<1>1. TypeOK /\ WorkersInv
  BY DEF Inv
<1>2. wk[w].pc \in {"acquire", "found"} /\ wk[w].j \in Job /\ wk[w].j.l \in Lock
  BY <1>1 DEF acquire, Found, At, WorkersInv, Job
<1>3. CASE acquire(w)
  <2>1. Served(w)
    BY <1>1, <1>3, Places, GoServed DEF acquire, Away, Locking
  <2>2. ServerTypes
    BY <1>1, <1>2, <1>3, ServerHas DEF acquire, find, ServerTypes
  <2>3. QED BY <1>2, <1>3, <2>1, <2>2 DEF acquire, Idle, Away, Handled
<1>4. CASE Found(w)
  <2>1. Idle /\ (Go(w, "m") \/ Go(w, "reply"))
    BY <1>4 DEF Found
  <2>3. Served(w)
    <3>1. CASE Go(w, "m")
      BY <1>1, <2>1, <3>1, Places, GoServed DEF Away, Locking
    <3>2. CASE Go(w, "reply")
      BY <1>1, <2>1, <3>2, Places, GoServed DEF Away, Locking
    <3>3. QED BY <2>1, <3>1, <3>2
  <2>2. ServerTypes
    BY <1>1, <1>2, <1>4, ServerHas DEF Found, ServerTypes
  <2>4. QED BY <1>2, <2>1, <2>2, <2>3 DEF Idle, Away, Handled
<1>5. QED BY <1>3, <1>4

LEMMA PickMutexHandled ==
  ASSUME Inv, ~failed, NEW w \in Worker, PickMutex(w)
  PROVE  Handled(w)
<1>1. TypeOK /\ wk \in [Worker -> Working] /\ it \in Lock \cup {NULL}
  BY ServerHas DEF Inv
<1>2. /\ wk[w].pc \in {"m", "rm"} /\ failed' = (it = NULL)
      /\ wk' = [wk EXCEPT ![w] = [wk[w] EXCEPT !.x = it,
                                               !.pc = IF wk[w].pc = "m" THEN "lock" ELSE "rlock"]]
      /\ UNCHANGED serverVars /\ Idle
  BY <1>1 DEF PickMutex, Use
<1> DEFINE r == [wk[w] EXCEPT !.x = it, !.pc = IF wk[w].pc = "m" THEN "lock" ELSE "rlock"]
<1>3. /\ r \in Working
      /\ r.pc \in {"lock", "rlock"} /\ r.j = wk[w].j /\ r.x = it
  BY <1>1, Places DEF Working
<1>4. wk' = [wk EXCEPT ![w] = r]
  BY <1>2
<1> HIDE DEF r
<1>5. Served(w)
  <2>1. /\ wk' \in [Worker -> Working] /\ wk'[w] = r
        /\ \A v \in Worker \ {w} : wk'[v] = wk[v]
    BY <1>1, <1>3, <1>4
  <2>2. failed' \/ wk'[w].x \in Lock
    BY <1>1, <1>2, <1>3, <2>1
  <2>3. QED BY <1>2, <1>3, <2>1, <2>2 DEF Served, Idle, Away
<1>6. ServerTypes
  BY <1>1, <1>2, ServerHas DEF ServerTypes, serverVars
<1>7. QED BY <1>2, <1>5, <1>6 DEF Idle, Away, Handled

LEMMA LockMutexHandled ==
  ASSUME Inv, ~failed, NEW w \in Worker, LockMutex(w)
  PROVE  Handled(w)
<1>1. TypeOK /\ WorkersInv
  BY DEF Inv
<1>2. wk[w].pc \in {"lock", "relock", "rlock"} /\ wk[w].x \in Lock
  BY <1>1 DEF LockMutex, WorkersInv
<1>3. Served(w)
  BY <1>1, Places, GoServed DEF LockMutex, Away, Locking
<1>4. ServerTypes
  BY <1>1, <1>2, ServerHas DEF LockMutex, lock, ServerTypes
<1>5. QED BY <1>2, <1>3, <1>4 DEF LockMutex, Idle, Away, Handled

LEMMA TestHandled ==
  ASSUME Inv, ~failed, NEW w \in Worker, Test(w) \/ Grant(w) \/ Unlock(w)
  PROVE  Handled(w)
<1>1. TypeOK
  BY DEF Inv
<1>2. wk[w].pc \notin Away
  BY DEF Test, Grant, Unlock, At, Away
<1>3. Served(w)
  BY <1>1, Places, GoServed DEF Test, Grant, Unlock, Away, Locking
<1>4. ServerTypes
  <2>1. CASE Test(w)
    BY <1>1, <2>1, ServerHas DEF Test, Use, serverVars, ServerTypes
  <2>2. CASE Grant(w)
    BY <1>1, <2>2, ServerHas DEF Grant, Use, At, ServerTypes
  <2>3. CASE Unlock(w)
    BY <1>1, <2>3, ServerHas DEF Unlock, unlock, Use, ServerTypes
  <2>4. QED BY <2>1, <2>2, <2>3
<1>5. QED BY <1>2, <1>3, <1>4 DEF Test, Grant, Unlock, Idle, Handled

LEMMA WaitHandled ==
  ASSUME Inv, ~failed, NEW w \in Worker, Wait(w)
  PROVE  Handled(w)
<1>1. TypeOK /\ wk \in [Worker -> Working] /\ it \in Lock \cup {NULL}
  BY ServerHas DEF Inv
<1>2. /\ wk[w].pc = "wait" /\ failed' = (it = NULL) /\ m' = m \ {it}
      /\ wk' = [wk EXCEPT ![w] = [wk[w] EXCEPT !.pc = "cv", !.x = it]]
      /\ UNCHANGED <<granted, it, mutex_>> /\ Idle
  BY <1>1 DEF Wait, Use, At, unlock
<1> DEFINE r == [wk[w] EXCEPT !.pc = "cv", !.x = it]
<1>3. r \in Working /\ r.pc = "cv" /\ r.j = wk[w].j /\ r.x = it
  BY <1>1, Places DEF Working
<1>4. wk' = [wk EXCEPT ![w] = r]
  BY <1>2
<1> HIDE DEF r
<1>5. Served(w)
  <2>1. /\ wk' \in [Worker -> Working] /\ wk'[w] = r
        /\ \A v \in Worker \ {w} : wk'[v] = wk[v]
    BY <1>1, <1>3, <1>4
  <2>2. wk'[w].j = wk[w].j /\ wk'[w].pc \notin Away
    BY <1>3, <2>1 DEF Away
  <2>3. failed' \/ wk'[w].x \in Lock
    BY <1>1, <1>2, <1>3, <2>1
  <2>4. UNCHANGED queueVars
    BY <1>2 DEF Idle
  <2>5. QED BY <2>1, <2>2, <2>3, <2>4 DEF Served
<1>6. ServerTypes
  BY <1>1, <1>2, ServerHas DEF ServerTypes
<1>7. QED BY <1>2, <1>5, <1>6 DEF Idle, Away, Handled

LEMMA ReleaseHandled ==
  ASSUME Inv, ~failed, NEW w \in Worker, release(w) \/ stat(w)
  PROVE  Handled(w)
<1>1. TypeOK /\ WorkersInv
  BY DEF Inv
<1>2. wk[w].pc \in {"release", "end", "stat"} /\ wk[w].j \in Job /\ wk[w].j.l \in Lock
  BY <1>1 DEF release, stat, At, WorkersInv, Job
<1>3. Served(w)
  BY <1>1, Places, GoServed DEF release, stat, Away, Locking
<1>4. ServerTypes
  BY <1>1, <1>2, ServerHas DEF release, stat, Use, find, serverVars, ServerTypes
<1>5. QED BY <1>2, <1>3, <1>4 DEF release, stat, Idle, Away, Handled

LEMMA SignalHandled ==
  ASSUME Inv, ~failed, NEW w \in Worker, Signal(w)
  PROVE  Handled(w)
<1>1. TypeOK /\ wk \in [Worker -> Working]
  BY ServerHas DEF Inv
<1>2. /\ wk[w].pc = "signal" /\ failed' = (it = NULL) /\ signal(w, it)
      /\ UNCHANGED serverVars /\ Idle
  BY DEF Signal, At, Use
<1>3. ServerTypes
  BY <1>1, <1>2, ServerHas DEF ServerTypes, serverVars
<1>4. Served(w)
  <2>1. CASE Go(w, "unlock")
    BY <1>1, <1>2, <2>1, Places, GoServed DEF Away, Locking
  <2>2. CASE \E v \in Worker : /\ wk[v].pc = "cv"
                               /\ wk' = [wk EXCEPT ![w].pc = "unlock", ![v].pc = "relock"]
    <3>1. PICK v \in Worker : /\ wk[v].pc = "cv"
                              /\ wk' = [wk EXCEPT ![w].pc = "unlock", ![v].pc = "relock"]
      BY <2>2
    <3>2. v # w
      BY <1>2, <3>1
    <3> DEFINE r == [wk[w] EXCEPT !.pc = "unlock"]
               q == [wk[v] EXCEPT !.pc = "relock"]
    <3>3. r \in Working /\ q \in Working
      BY <1>1, Places DEF Working
    <3>4. /\ r.pc = "unlock" /\ r.j = wk[w].j
          /\ q.pc = "relock" /\ q.j = wk[v].j /\ q.x = wk[v].x
      BY <1>1 DEF Working
    <3>5. wk' = [wk EXCEPT ![w] = r, ![v] = q]
      BY <1>1, <3>1, <3>2
    <3> HIDE DEF r, q
    <3>6. /\ wk' \in [Worker -> Working]
          /\ wk'[w] = r /\ wk'[v] = q /\ \A u \in Worker \ {w, v} : wk'[u] = wk[u]
      BY <1>1, <3>2, <3>3, <3>5
    <3>7. QED BY <1>2, <3>1, <3>2, <3>4, <3>6 DEF Served, Idle, Away, Locking
  <2>3. QED BY <1>2, <2>1, <2>2 DEF signal, At
<1>5. QED BY <1>2, <1>3, <1>4 DEF Idle, Away, Handled

LEMMA ReplyKeeps ==
  ASSUME Inv, ~failed, NEW w \in Worker, Reply(w)
  PROVE  Inv'
<1>1. TypeOK /\ wk \in [Worker -> Working]
  BY ServerHas DEF Inv
<1> DEFINE r == [pc |-> "deq", j |-> Pill, x |-> NULL]
<1>2. r \in Working /\ r.pc = "deq"
  BY Places DEF Working
<1>3. /\ wk[w].pc = "reply" /\ called' \subseteq called
      /\ wk' = [wk EXCEPT ![w] = r]
      /\ UNCHANGED <<serverVars, queueVars, todo, ct, failed>>
  BY DEF Reply, At
<1> HIDE DEF r
<1>4. Served(w)
  BY <1>1, <1>2, <1>3 DEF Served, Away, Locking
<1>5. WorkersInv' /\ JobsWakeWorkers'
  BY <1>3, <1>4, ServedKeeps DEF Away
<1>6. TypeOK'
  BY <1>1, <1>3, <1>4 DEF TypeOK, Served, Working, serverVars, queueVars
<1>7. QED BY <1>5, <1>6 DEF Inv
-----------------------------------------------------------------------------
(* The queue                                                               *)

LEMMA ServeKeeps ==
  ASSUME Inv, ~failed, NEW w \in Worker, Serve(w)
  PROVE  Inv'
<1>1. CASE Reply(w)
  BY <1>1, ReplyKeeps
<1>2. CASE ~Reply(w)
  <2>1. Handled(w)
    BY <1>2, AcquireHandled, PickMutexHandled, LockMutexHandled, TestHandled, WaitHandled,
       ReleaseHandled, SignalHandled DEF Serve
  <2>2. QED BY <2>1, HandledKeeps
<1>3. QED BY <1>1, <1>2

\* A worker goes to sleep on an empty queue only, and takes one job with it
\* when it leaves the queue.
LEMMA DeqKeeps ==
  ASSUME Inv, NEW w \in Worker, deq(w)
  PROVE  Inv'
<1>1. TypeOK /\ WorkersInv /\ JobsWakeWorkers /\ wk \in [Worker -> Working]
      /\ jobq \in Seq(Job \cup {Pill}) /\ Len(jobq) <= MaxJobs
  BY ServerHas DEF Inv, TypeOK
<1>2. wk[w].pc = "deq" /\ UNCHANGED <<serverVars, pills, testVars, failed>>
  BY DEF deq
<1>3. CASE jobq = << >>
  <2> DEFINE r == [wk[w] EXCEPT !.pc = "asleep"]
  <2>1. r \in Working /\ r.pc = "asleep"
    BY <1>1, Places DEF Working
  <2>2. wk' = [wk EXCEPT ![w] = r] /\ UNCHANGED <<jobq, pool>>
    BY <1>1, <1>3 DEF deq
  <2> HIDE DEF r
  <2>3. wk' \in [Worker -> Working] /\ wk'[w] = r
        /\ \A v \in Worker \ {w} : wk'[v] = wk[v]
    BY <1>1, <2>1, <2>2
  <2>4. TypeOK'
    BY <1>1, <1>2, <2>2, <2>3 DEF TypeOK, Working, serverVars, testVars
  <2>5. WorkersInv'
    <3> SUFFICES ASSUME NEW v \in Worker
                 PROVE  /\ wk'[v].pc \notin {"deq", "asleep", "exited"} => wk'[v].j \in Job
                        /\ wk'[v].pc \in {"lock", "relock", "rlock", "cv"}
                             => failed' \/ wk'[v].x \in Lock
      BY DEF WorkersInv
    <3>1. CASE v = w
      BY <2>1, <2>3, <3>1
    <3>2. CASE v # w
      BY <1>1, <1>2, <2>3, <3>2 DEF WorkersInv
    <3>3. QED BY <3>1, <3>2
  <2>6. JobsWakeWorkers'
    <3>1. Len(jobq') = 0
      BY <1>3, <2>2
    <3>2. IsFiniteSet(Deq') /\ Cardinality(Deq') \in Nat
      <4>1. Deq' \subseteq Worker
        BY DEF Deq
      <4>2. IsFiniteSet(Deq')
        BY <4>1, FS_Subset
      <4>3. QED BY <4>2, FS_CardinalityType
    <3>3. Len(jobq') <= Cardinality(Deq')
      BY <3>1, <3>2
    <3>4. QED BY <3>3 DEF JobsWakeWorkers, Deq
  <2>7. QED BY <2>4, <2>5, <2>6 DEF Inv
<1>4. CASE jobq # << >>
  <2> DEFINE j == Head(jobq)
             r == [pc |-> Starts(j), j |-> j, x |-> NULL]
  <2>1. /\ j \in Job \cup {Pill}
        /\ jobq' = Tail(jobq) /\ pool' \in {pool, "push"}
        /\ wk' = [wk EXCEPT ![w] = r]
    BY <1>1, <1>4 DEF deq
  <2>2. Starts(j) \in {"acquire", "release", "stat", "exited"}
        /\ (Starts(j) # "exited" => j \in Job)
    BY <2>1, PillIsNoJob DEF Starts, Job
  <2> HIDE DEF j
  <2>3. r \in Working /\ r.pc = Starts(j) /\ r.j = j
    BY <2>1, <2>2, Places DEF Working
  <2> HIDE DEF r
  <2>4. wk' \in [Worker -> Working] /\ wk'[w] = r
        /\ \A v \in Worker \ {w} : wk'[v] = wk[v]
    BY <1>1, <2>1, <2>3
  <2>5. jobq' \in Seq(Job \cup {Pill}) /\ Len(jobq') = Len(jobq) - 1 /\ Len(jobq) \in Nat
    BY <1>1, <1>4, <2>1
  <2>6. TypeOK'
    <3>1. Len(jobq') <= MaxJobs
      BY <1>1, <2>5
    <3>2. pool' \in {"up", "push", "space", "join", "gone"}
      BY <1>1, <2>1 DEF TypeOK
    <3>3. QED BY <1>1, <1>2, <2>4, <2>5, <3>1, <3>2
                 DEF TypeOK, Working, serverVars, testVars
  <2>7. WorkersInv'
    <3> SUFFICES ASSUME NEW v \in Worker
                 PROVE  /\ wk'[v].pc \notin {"deq", "asleep", "exited"} => wk'[v].j \in Job
                        /\ wk'[v].pc \in {"lock", "relock", "rlock", "cv"}
                             => failed' \/ wk'[v].x \in Lock
      BY DEF WorkersInv
    <3>1. CASE v = w
      BY <2>2, <2>3, <2>4, <3>1
    <3>2. CASE v # w
      BY <1>1, <1>2, <2>4, <3>2 DEF WorkersInv
    <3>3. QED BY <3>1, <3>2
  <2>8. JobsWakeWorkers'
    <3>1. Cardinality(Deq') = Cardinality(Deq) - 1
      BY <1>2, <2>2, <2>3, <2>4, DeqLess
    <3>2. Asleep' = Asleep
      BY <1>2, <2>2, <2>3, <2>4 DEF Asleep
    <3>3. Asleep # {} => Len(jobq) <= Cardinality(Deq)
      BY <1>1, WakeInTerms
    <3>4. Asleep' # {} => Len(jobq') <= Cardinality(Deq')
      BY <2>5, <3>1, <3>2, <3>3, DeqCount
    <3>5. QED BY <3>4 DEF JobsWakeWorkers, Asleep, Deq
  <2>9. QED BY <2>6, <2>7, <2>8 DEF Inv
<1>5. QED BY <1>3, <1>4

\* enq wakes a worker for the job it adds, if one sleeps.
LEMMA EnqKeeps ==
  ASSUME TypeOK, WorkersInv, JobsWakeWorkers, NEW j \in Job \cup {Pill}, enq(j),
         UNCHANGED failed
  PROVE  /\ jobq' \in Seq(Job \cup {Pill}) /\ Len(jobq') <= MaxJobs
         /\ wk' \in [Worker -> Working]
         /\ WorkersInv' /\ JobsWakeWorkers'
<1>1. wk \in [Worker -> Working] /\ jobq \in Seq(Job \cup {Pill}) /\ Len(jobq) \in Nat
  BY ServerHas DEF TypeOK
<1>2. jobq' = Append(jobq, j) /\ Len(jobq) < MaxJobs
  BY DEF enq
<1>3. jobq' \in Seq(Job \cup {Pill}) /\ Len(jobq') = Len(jobq) + 1
  BY <1>1, <1>2
<1>4. Len(jobq') <= MaxJobs
  BY <1>1, <1>2, <1>3
<1>5. CASE Asleep = {} /\ UNCHANGED wk
  <2>1. Asleep' = {}
    BY <1>5 DEF Asleep
  <2>2. JobsWakeWorkers'
    BY <2>1 DEF JobsWakeWorkers, Asleep
  <2>3. WorkersInv'
    BY <1>5 DEF WorkersInv
  <2>4. QED BY <1>1, <1>3, <1>4, <1>5, <2>2, <2>3
<1>6. CASE \E w \in Asleep : wk' = [wk EXCEPT ![w].pc = "deq"]
  <2>1. PICK w \in Asleep : wk' = [wk EXCEPT ![w].pc = "deq"]
    BY <1>6
  <2>2. w \in Worker /\ wk[w].pc = "asleep"
    BY DEF Asleep
  <2> DEFINE r == [wk[w] EXCEPT !.pc = "deq"]
  <2>3. r \in Working /\ r.pc = "deq"
    BY <1>1, <2>2, Places DEF Working
  <2>4. wk' = [wk EXCEPT ![w] = r]
    BY <1>1, <2>1, <2>2
  <2> HIDE DEF r
  <2>5. wk' \in [Worker -> Working] /\ wk'[w] = r
        /\ \A v \in Worker \ {w} : wk'[v] = wk[v]
    BY <1>1, <2>2, <2>3, <2>4
  <2>6. Cardinality(Deq') = Cardinality(Deq) + 1
    BY <2>2, <2>3, <2>5, DeqMore
  <2>7. Len(jobq) <= Cardinality(Deq)
    BY <2>1, WakeInTerms
  <2>8. Len(jobq') <= Cardinality(Deq')
    BY <1>1, <1>3, <2>6, <2>7, DeqCount
  <2>9. JobsWakeWorkers'
    BY <2>8 DEF JobsWakeWorkers, Deq
  <2>10. WorkersInv'
    <3> SUFFICES ASSUME NEW v \in Worker
                 PROVE  /\ wk'[v].pc \notin {"deq", "asleep", "exited"} => wk'[v].j \in Job
                        /\ wk'[v].pc \in {"lock", "relock", "rlock", "cv"}
                             => failed' \/ wk'[v].x \in Lock
      BY DEF WorkersInv
    <3>1. CASE v = w
      BY <2>3, <2>5, <3>1
    <3>2. CASE v # w
      BY <2>5, <3>2 DEF WorkersInv
    <3>3. QED BY <3>1, <3>2
  <2>11. QED BY <1>3, <1>4, <2>5, <2>9, <2>10
<1>7. QED BY <1>5, <1>6 DEF enq, Asleep
-----------------------------------------------------------------------------
(* The tester and the destructor                                           *)

LEMMA CallKeeps ==
  ASSUME Inv, NEW t \in Thread, Call(t)
  PROVE  Inv'
<1> DEFINE o == Head(todo[t])
           j == [op |-> o.op, l |-> o.l, t |-> t]
<1>1. TypeOK /\ WorkersInv /\ JobsWakeWorkers /\ todo \in [Thread -> Seq(Op)]
  BY DEF Inv, TypeOK
<1>2. /\ todo[t] # << >> /\ o.op \in {"acquire", "release", "stat"} /\ enq(j)
      /\ called' = called \cup {t} /\ todo' = [todo EXCEPT ![t] = Tail(@)]
      /\ UNCHANGED <<serverVars, pool, pills, ct, failed>>
  BY DEF Call
<1>3. todo[t] \in Seq(Op) /\ o \in Op /\ Tail(todo[t]) \in Seq(Op)
  BY <1>1, <1>2
<1>4. j \in Job
  BY <1>2, <1>3 DEF Job, Op
<1> HIDE DEF o, j
<1>5. /\ jobq' \in Seq(Job \cup {Pill}) /\ Len(jobq') <= MaxJobs
      /\ wk' \in [Worker -> Working] /\ WorkersInv' /\ JobsWakeWorkers'
  BY <1>1, <1>2, <1>4, EnqKeeps
<1>6. todo' \in [Thread -> Seq(Op)]
  BY <1>1, <1>2, <1>3
<1>7. TypeOK'
  BY <1>1, <1>2, <1>5, <1>6 DEF TypeOK, Working, serverVars
<1>8. QED BY <1>5, <1>7 DEF Inv

\* A step that leaves the workers and the queue alone.
LEMMA PoolKept ==
  ASSUME WorkersInv, JobsWakeWorkers, ~failed \/ failed', wk' = wk, jobq' = jobq
  PROVE  WorkersInv' /\ JobsWakeWorkers'
BY DEF WorkersInv, JobsWakeWorkers

LEMMA CheckKeeps ==
  ASSUME Inv, ~failed, NEW t \in Thread, check(t)
  PROVE  Inv'
<1>1. /\ TypeOK /\ WorkersInv /\ JobsWakeWorkers
      /\ todo \in [Thread -> Seq(Op)] /\ ct \in [Lock -> {0, 1}]
  BY DEF Inv, TypeOK
<1>2. /\ todo[t] # << >> /\ todo' = [todo EXCEPT ![t] = Tail(@)]
      /\ UNCHANGED <<serverVars, queueVars, wk, called>>
  BY DEF check
<1>3. todo[t] \in Seq(Op) /\ Head(todo[t]) \in Op /\ Tail(todo[t]) \in Seq(Op)
  BY <1>1, <1>2
<1>4. todo' \in [Thread -> Seq(Op)]
  BY <1>1, <1>2, <1>3
<1>5. ct' \in [Lock -> {0, 1}] /\ failed' \in BOOLEAN
  BY <1>1 DEF check
<1>6. TypeOK'
  BY <1>1, <1>2, <1>4, <1>5 DEF TypeOK, serverVars, queueVars
<1>7. QED BY <1>1, <1>2, <1>6, PoolKept DEF queueVars, Inv

LEMMA PoolKeeps ==
  ASSUME Inv, ~failed, Shutdown \/ PushPill \/ Join
  PROVE  Inv'
<1>1. /\ TypeOK /\ WorkersInv /\ JobsWakeWorkers
      /\ pills \in 0 .. Cardinality(Worker) /\ Cardinality(Worker) \in Nat
  BY FS_CardinalityType DEF Inv, TypeOK
<1>2. CASE Shutdown \/ Join
  <2>1. /\ pool' \in {"up", "push", "space", "join", "gone"}
        /\ UNCHANGED <<serverVars, jobq, pills, wk, testVars, failed>>
    BY <1>2 DEF Shutdown, Join
  <2>2. TypeOK'
    BY <1>1, <2>1 DEF TypeOK, serverVars, testVars
  <2>3. QED BY <1>1, <2>1, <2>2, PoolKept DEF Inv
<1>3. CASE PushPill
  <2>1. /\ pool = "push" /\ pills > 0
        /\ UNCHANGED <<serverVars, testVars, failed>>
    BY <1>3 DEF PushPill
  <2>2. CASE enq(Pill) /\ pills' = pills - 1 /\ UNCHANGED pool
    <3>1. /\ jobq' \in Seq(Job \cup {Pill}) /\ Len(jobq') <= MaxJobs
          /\ wk' \in [Worker -> Working] /\ WorkersInv' /\ JobsWakeWorkers'
      BY <1>1, <2>1, <2>2, EnqKeeps
    <3>2. pills' \in 0 .. Cardinality(Worker)
      BY <1>1, <2>1, <2>2
    <3>3. TypeOK'
      BY <1>1, <2>1, <2>2, <3>1, <3>2 DEF TypeOK, Working, serverVars, testVars
    <3>4. QED BY <3>1, <3>3 DEF Inv
  <2>3. CASE pool' = "space" /\ UNCHANGED <<jobq, wk, pills>>
    <3>1. TypeOK'
      BY <1>1, <2>1, <2>3 DEF TypeOK, serverVars, testVars
    <3>2. QED BY <1>1, <2>1, <2>3, <3>1, PoolKept DEF Inv
  <2>4. QED BY <1>3, <2>2, <2>3 DEF PushPill
<1>4. QED BY <1>2, <1>3

LEMMA InvStep ==
  ASSUME Inv, [Next]_vars
  PROVE  Inv'
<1>1. CASE UNCHANGED vars
  <2>1. /\ UNCHANGED <<serverVars, queueVars, wk, testVars, failed>>
        /\ TypeOK /\ WorkersInv /\ JobsWakeWorkers
    BY <1>1 DEF vars, Inv
  <2>2. TypeOK'
    BY <2>1 DEF TypeOK, serverVars, queueVars, testVars
  <2>3. WorkersInv' /\ JobsWakeWorkers'
    BY <2>1 DEF WorkersInv, JobsWakeWorkers, queueVars
  <2>4. QED BY <2>2, <2>3 DEF Inv
<1>2. CASE Next
  <2>1. ~failed
    BY <1>2 DEF Next
  <2>2. ASSUME NEW w \in Worker, deq(w) \/ Serve(w) PROVE Inv'
    BY <2>1, <2>2, DeqKeeps, ServeKeeps
  <2>3. ASSUME NEW t \in Thread, Call(t) \/ check(t) PROVE Inv'
    BY <2>1, <2>3, CallKeeps, CheckKeeps
  <2>4. CASE Shutdown \/ PushPill \/ Join
    BY <2>1, <2>4, PoolKeeps
  <2>5. QED BY <1>2, <2>2, <2>3, <2>4 DEF Next
<1>3. QED BY <1>1, <1>2

\* fifo::enq and ~ThrPool: the queue never holds more than max_ jobs, every
\* job in it is a call or a pill, and the destructor pushes no more pills than
\* the pool has workers.
THEOREM PlainTypeCorrect == Spec => []TypeOK
<1>1. Inv => TypeOK
  BY DEF Inv
<1>2. QED BY InitInv, InvStep, <1>1, PTL DEF Spec

\* enq's signal in fifo.h: while a worker of the pool sleeps in deq, there is
\* for every job of the queue a worker that is awake and on its way to it,
\* however many workers compete and in whatever order they finish.
THEOREM PlainJobsWakeWorkers == Spec => []JobsWakeWorkers
<1>1. Inv => JobsWakeWorkers
  BY DEF Inv
<1>2. QED BY InitInv, InvStep, <1>1, PTL DEF Spec
---------------------------------------------------------------------------
(***************************************************************************)
(* The tester's checks: the inductive invariant of LockPlainInv, one lemma *)
(* per action of LockPlain.                                                *)
(***************************************************************************)
\* Of a sequence: a behind its i-th place, and no b since.
Since(s, i, a, b) == \E k \in 1 .. i : s[k] = a /\ \A j \in k + 1 .. i : s[j] # b

LEMMA SinceStep ==
  ASSUME NEW s, NEW i \in Nat \ {0}, NEW a, NEW b
  PROVE  /\ s[i] = a => Since(s, i, a, b)
         /\ s[i] = b /\ a # b => ~Since(s, i, a, b)
         /\ s[i] \notin {a, b} => (Since(s, i, a, b) <=> Since(s, i - 1, a, b))
<1>1. ASSUME s[i] = a PROVE Since(s, i, a, b)
  <2>1. i \in 1 .. i /\ \A j \in i + 1 .. i : FALSE
    OBVIOUS
  <2>2. QED BY <1>1, <2>1 DEF Since
<1>2. ASSUME s[i] = b, a # b, NEW k \in 1 .. i, s[k] = a, \A j \in k + 1 .. i : s[j] # b
      PROVE  FALSE
  <2>1. k # i
    BY <1>2
  <2>2. i \in k + 1 .. i
    BY <2>1
  <2>3. QED BY <1>2, <2>2
<1>3. ASSUME s[i] \notin {a, b}
      PROVE  Since(s, i, a, b) <=> Since(s, i - 1, a, b)
  <2>1. \A k \in 1 .. i : s[k] = a => k \in 1 .. i - 1
    BY <1>3
  <2>2. \A k \in 1 .. i - 1 : k \in 1 .. i
    OBVIOUS
  <2>3. ASSUME NEW k \in 1 .. i - 1
        PROVE  (\A j \in k + 1 .. i : s[j] # b) <=> \A j \in k + 1 .. i - 1 : s[j] # b
    BY <1>3
  <2>4. QED BY <2>1, <2>2, <2>3 DEF Since
<1>4. QED BY <1>1, <1>2, <1>3 DEF Since

\* What one operation does to what its thread holds and counts.
LEMMA HeldStep ==
  ASSUME NEW t \in Thread, NEW i \in Nat \ {0}, NEW l \in Lock
  PROVE  /\ Total(t)[i] = [op |-> "acquire", l |-> l] => Held(t, i, l)
         /\ Total(t)[i] = [op |-> "release", l |-> l] => ~Held(t, i, l)
         /\ Total(t)[i] \notin {[op |-> "acquire", l |-> l], [op |-> "release", l |-> l]}
              => (Held(t, i, l) <=> Held(t, i - 1, l))
<1>1. \A k : Held(t, k, l)
               <=> Since(Total(t), k, [op |-> "acquire", l |-> l], [op |-> "release", l |-> l])
  BY DEF Held, Since
<1>2. [op |-> "acquire", l |-> l] # [op |-> "release", l |-> l]
  OBVIOUS
<1>3. QED BY <1>1, <1>2, SinceStep

LEMMA CountedStep ==
  ASSUME NEW t \in Thread, NEW i \in Nat \ {0}, NEW l \in Lock
  PROVE  /\ Total(t)[i] = [op |-> "check_grant", l |-> l] => Counted(t, i, l)
         /\ Total(t)[i] = [op |-> "check_release", l |-> l] => ~Counted(t, i, l)
         /\ Total(t)[i] \notin {[op |-> "check_grant", l |-> l], [op |-> "check_release", l |-> l]}
              => (Counted(t, i, l) <=> Counted(t, i - 1, l))
<1>1. \A k : Counted(t, k, l)
               <=> Since(Total(t), k, [op |-> "check_grant", l |-> l],
                                      [op |-> "check_release", l |-> l])
  BY DEF Counted, Since
<1>2. [op |-> "check_grant", l |-> l] # [op |-> "check_release", l |-> l]
  OBVIOUS
<1>3. QED BY <1>1, <1>2, SinceStep

LEMMA NothingYet ==
  ASSUME NEW t \in Thread, NEW l \in Lock
  PROVE  ~Held(t, 0, l) /\ ~Counted(t, 0, l)
BY DEF Held, Counted

\* How far a thread is.
LEMMA ScriptTypes ==
  ASSUME NEW t \in Thread
  PROVE  /\ Total(t) \in Seq(Op) /\ Len(Total(t)) \in Nat /\ Len(Prologue) \in Nat
         /\ t = Leader => /\ Len(Total(t)) = Len(Prologue) + Len(Script[t])
                          /\ \A i \in 1 .. Len(Prologue) : Total(t)[i] = Prologue[i]
BY DEF Total

LEMMA BegunTypes ==
  ASSUME TypeOK, ScriptsInv, NEW t \in Thread
  PROVE  /\ Begun(t) \in 0 .. Len(Total(t)) /\ Len(todo[t]) \in Nat
         /\ todo[t] # << >> => /\ Begun(t) + 1 \in 1 .. Len(Total(t))
                               /\ Head(todo[t]) = Total(t)[Begun(t) + 1]
                               /\ Head(todo[t]) \in Op
<1>1. todo[t] \in Seq(Op) /\ Len(todo[t]) \in Nat /\ Len(todo[t]) <= Len(Total(t))
  BY DEF TypeOK, ScriptsInv
<1>2. Begun(t) \in 0 .. Len(Total(t))
  BY <1>1, ScriptTypes DEF Begun
<1>3. ASSUME todo[t] # << >>
      PROVE  /\ Begun(t) + 1 \in 1 .. Len(Total(t))
             /\ Head(todo[t]) = Total(t)[Begun(t) + 1] /\ Head(todo[t]) \in Op
  <2>1. Len(todo[t]) >= 1
    BY <1>1, <1>3
  <2>2. todo[t][1] = Total(t)[Begun(t) + 1]
    BY <2>1, <1>1 DEF ScriptsInv
  <2>3. Head(todo[t]) = todo[t][1] /\ Head(todo[t]) \in Op
    BY <1>1, <1>3
  <2>4. Begun(t) + 1 \in 1 .. Len(Total(t))
    BY <1>1, <2>1, ScriptTypes DEF Begun
  <2>5. QED BY <2>2, <2>3, <2>4
<1>4. QED BY <1>1, <1>2, <1>3

\* The last operation of the prologue is no call.
LEMMA PrologueAnswered ==
  ASSUME Proper, TypeOK, ScriptsInv, CallsInv, NEW t \in called, Prior(t, Begun(t))
  PROVE  Alone(t, Begun(t))
<1>1. /\ t \in Thread /\ t = Leader /\ Begun(t) <= Len(Prologue) /\ Begun(t) >= 1
      /\ Total(t)[Begun(t)].op \in {"acquire", "release", "stat"}
  BY DEF Prior, CallsInv, TypeOK
<1>2. Begun(t) \in Nat /\ Len(Prologue) \in Nat
  BY <1>1, BegunTypes, ScriptTypes
<1>3. ASSUME Begun(t) = Len(Prologue) PROVE FALSE
  <2>1. Prologue # << >> /\ Total(t)[Begun(t)] = Prologue[Len(Prologue)]
    BY <1>1, <1>2, <1>3, ScriptTypes
  <2>2. Prologue[Len(Prologue)].op \in {"check_grant", "check_release"}
    BY <2>1 DEF Proper
  <2>3. QED BY <1>1, <2>1, <2>2
<1>4. QED BY <1>1, <1>2, <1>3 DEF Alone

\* Two handlers at work on locks of the server are at work on the same one.
LEMMA SameLock ==
  ASSUME Proper, TypeOK, ScriptsInv, AloneInv, CallsInv,
         NEW v \in Worker, NEW w \in Worker, Serving(v), Serving(w),
         wk[v].j.op # "stat", wk[w].j.op # "stat"
  PROVE  wk[v].j.l = wk[w].j.l
<1> DEFINE t == wk[v].j.t
           u == wk[w].j.t
<1>1. /\ t \in called /\ Total(t)[Begun(t)] = [op |-> wk[v].j.op, l |-> wk[v].j.l]
      /\ u \in called /\ Total(u)[Begun(u)] = [op |-> wk[w].j.op, l |-> wk[w].j.l]
  BY DEF CallsInv, Asked
<1>2. /\ t \in Thread /\ u \in Thread
      /\ Begun(t) \in 1 .. Len(Total(t)) /\ Begun(u) \in 1 .. Len(Total(u))
  <2>1. called \subseteq Thread
    BY DEF TypeOK
  <2>2. Begun(t) >= 1 /\ Begun(u) >= 1
    BY <1>1 DEF CallsInv
  <2>3. QED BY <1>1, <2>1, <2>2, BegunTypes
<1>3. CASE v = w
  BY <1>3
<1>4. CASE v # w
  <2>1. t # u
    BY <1>4 DEF CallsInv
  <2> HIDE DEF t, u
  <2>2. ~Prior(t, Begun(t)) /\ ~Prior(u, Begun(u))
    <3>1. ~Alone(t, Begun(t))
      BY <1>1, <1>2, <2>1 DEF Alone, AloneInv
    <3>2. ~Alone(u, Begun(u))
      BY <1>1, <1>2, <2>1 DEF Alone, AloneInv
    <3>3. QED BY <1>1, <3>1, <3>2, PrologueAnswered
  <2>3. Total(t)[Begun(t)].op # "stat" /\ Total(u)[Begun(u)].op # "stat"
    BY <1>1
  <2>4. Total(t)[Begun(t)].l = Total(u)[Begun(u)].l
    BY <1>2, <2>2, <2>3 DEF Proper
  <2>5. QED BY <1>1, <2>4
<1>5. QED BY <1>3, <1>4
-----------------------------------------------------------------------------
(* What a step of a handler leaves alone                                   *)

\* A worker that is not at work on the step, but may be woken by it.
Beside(v) ==
    \/ wk'[v] = wk[v]
    \/ wk[v].pc = "cv" /\ wk'[v].pc = "relock" /\ wk'[v].j = wk[v].j /\ wk'[v].x = wk[v].x

\* A step of worker w inside a handler.
Stays(w) ==
    /\ Serving(w) /\ wk'[w].pc \notin {"deq", "asleep", "exited"} /\ wk'[w].j = wk[w].j
    /\ \A v \in Worker \ {w} : Beside(v)
    /\ UNCHANGED <<jobq, todo, called, ct>>

LEMMA HandledStays ==
  ASSUME NEW w \in Worker, Handled(w), wk'[w].pc # "deq"
  PROVE  Stays(w)
BY DEF Handled, Served, Away, Stays, Serving, Beside, queueVars, testVars

LEMMA BegunKept ==
  ASSUME todo' = todo, NEW t
  PROVE  Begun(t)' = Begun(t)
BY DEF Begun

LEMMA StaysKeeps ==
  ASSUME NEW w \in Worker, Stays(w), ScriptsInv, AloneInv, CallsInv, CountsInv
  PROVE  ScriptsInv' /\ AloneInv' /\ CallsInv' /\ CountsInv'
<1>1. todo' = todo /\ called' = called /\ ct' = ct /\ jobq' = jobq
  BY DEF Stays
<1>2. \A t : Begun(t)' = Begun(t)
  BY <1>1, BegunKept
<1>3. \A v \in Worker : Serving(v)' = Serving(v) /\ wk'[v].j = wk[v].j
  BY DEF Stays, Beside, Serving
<1>4. ScriptsInv' /\ AloneInv' /\ CountsInv'
  BY <1>1, <1>2 DEF ScriptsInv, AloneInv, CountsInv
<1>5. \A v \in Worker : Asked(wk[v].j)' = Asked(wk[v].j)
  BY <1>1, <1>2, <1>3 DEF Asked
<1>6. \A i \in DOMAIN jobq : Asked(jobq[i])' = Asked(jobq[i])
  BY <1>1, <1>2 DEF Asked
<1>7. CallsInv'
  <2>1. \A t \in called' : Begun(t)' >= 1 /\ Total(t)[Begun(t)'].op \in {"acquire", "release", "stat"}
    BY <1>1, <1>2 DEF CallsInv
  <2>2. \A v \in Worker : Serving(v)' => Asked(wk[v].j)'
    BY <1>3, <1>5 DEF CallsInv
  <2>3. \A i \in DOMAIN jobq' : jobq'[i] # Pill => Asked(jobq[i])'
    BY <1>1, <1>6 DEF CallsInv
  <2>4. \A u, v \in Worker : Serving(u)' /\ Serving(v)' /\ wk'[u].j.t = wk'[v].j.t => u = v
    BY <1>3 DEF CallsInv
  <2>5. \A v \in Worker : \A i \in DOMAIN jobq' :
          Serving(v)' /\ jobq'[i] # Pill => wk'[v].j.t # jobq'[i].t
    <3>1. ASSUME NEW v \in Worker, NEW i \in DOMAIN jobq, Serving(v), jobq[i] # Pill
          PROVE  wk[v].j.t # jobq[i].t
      BY <3>1 DEF CallsInv
    <3>2. QED BY <1>1, <1>3, <3>1
  <2>6. \A i, k \in DOMAIN jobq' :
          jobq'[i] # Pill /\ jobq'[k] # Pill /\ jobq'[i].t = jobq'[k].t => i = k
    BY <1>1 DEF CallsInv
  <2>7. QED BY <2>1, <2>2, <2>3, <2>4, <2>5, <2>6 DEF CallsInv
<1>8. QED BY <1>4, <1>7

Acting == {"signal", "unlock", "reply"}

LEMMA ActedInTerms ==
  ASSUME CallsInv, NEW w \in Worker, Serving(w)
  PROVE  Acted(wk[w].j.t) <=> wk[w].pc \in Acting
<1>1. ASSUME NEW v \in Worker, wk[v].pc \in Acting, wk[v].j.t = wk[w].j.t
      PROVE  v = w
  BY <1>1 DEF CallsInv, Serving, Acting
<1>2. QED BY <1>1 DEF Acted, Acting

\* Only w's own call can take effect.
LEMMA ActedStep ==
  ASSUME CallsInv, NEW w \in Worker, Stays(w), NEW t \in Thread
  PROVE  Acted(t)' <=> IF t = wk[w].j.t THEN wk'[w].pc \in Acting ELSE Acted(t)
<1>1. ASSUME t = wk[w].j.t PROVE Acted(t)' <=> wk'[w].pc \in Acting
  <2>1. ASSUME NEW v \in Worker, wk'[v].pc \in Acting, wk'[v].j.t = t
        PROVE  v = w
    <3>1. ASSUME v # w PROVE FALSE
      <4>1. wk'[v] = wk[v]
        BY <2>1, <3>1 DEF Stays, Beside, Acting
      <4>2. QED BY <1>1, <2>1, <3>1, <4>1 DEF CallsInv, Serving, Acting, Stays
    <3>2. QED BY <3>1
  <2>2. wk'[w].j.t = t
    BY <1>1 DEF Stays
  <2>3. QED BY <2>1, <2>2 DEF Acted, Acting
<1>2. ASSUME t # wk[w].j.t PROVE Acted(t)' <=> Acted(t)
  <2>1. wk[w].j.t # t /\ wk'[w].j.t # t
    BY <1>2 DEF Stays
  <2>2. \A v \in Worker \ {w} : wk'[v].j = wk[v].j /\ (wk'[v].pc \in Acting <=> wk[v].pc \in Acting)
    BY DEF Stays, Beside, Acting
  <2>3. QED BY <2>1, <2>2 DEF Acted, Acting
<1>3. QED BY <1>1, <1>2

LEMMA EffectiveKept ==
  ASSUME CallsInv, NEW w \in Worker, Stays(w), wk[w].pc \in Acting <=> wk'[w].pc \in Acting,
         NEW t \in Thread
  PROVE  Effective(t)' = Effective(t)
<1>1. Acted(t)' <=> Acted(t)
  BY ActedStep, ActedInTerms DEF Stays
<1>2. Begun(t)' = Begun(t) /\ called' = called
  BY BegunKept DEF Stays
<1>3. QED BY <1>1, <1>2 DEF Effective

LEMMA HoldKept ==
  ASSUME HoldInv, CallsInv, NEW w \in Worker, Stays(w),
         wk[w].pc \in Acting <=> wk'[w].pc \in Acting, granted' = granted
  PROVE  HoldInv'
<1>1. \A t \in Thread : \A l \in Lock : Holds(t, l)' <=> Holds(t, l)
  BY EffectiveKept DEF Holds
<1>2. QED BY <1>1 DEF HoldInv

\* w's call takes effect.
LEMMA EffectiveStep ==
  ASSUME CallsInv, NEW w \in Worker, Stays(w), wk[w].pc \notin Acting, wk'[w].pc \in Acting,
         NEW t \in Thread
  PROVE  /\ t = wk[w].j.t => Effective(t) = Begun(t) - 1 /\ Effective(t)' = Begun(t)
         /\ t # wk[w].j.t => Effective(t)' = Effective(t)
<1>1. Begun(t)' = Begun(t) /\ called' = called
  BY BegunKept DEF Stays
<1>2. ASSUME t = wk[w].j.t PROVE Effective(t) = Begun(t) - 1 /\ Effective(t)' = Begun(t)
  <2>1. ~Acted(t) /\ Acted(t)'
    BY <1>2, ActedInTerms, ActedStep DEF Stays
  <2>2. t \in called
    BY <1>2 DEF CallsInv, Asked, Stays
  <2>3. QED BY <1>1, <2>1, <2>2 DEF Effective
<1>3. ASSUME t # wk[w].j.t PROVE Effective(t)' = Effective(t)
  <2>1. Acted(t)' <=> Acted(t)
    BY <1>3, ActedStep
  <2>2. QED BY <1>1, <2>1 DEF Effective
<1>4. QED BY <1>2, <1>3

\* The call that a worker serves is the one that its thread has begun last.
LEMMA ServesBegun ==
  ASSUME TypeOK, ScriptsInv, CallsInv, NEW w \in Worker, Serving(w)
  PROVE  LET t == wk[w].j.t IN
         /\ t \in Thread /\ t \in called
         /\ Begun(t) \in 1 .. Len(Total(t)) /\ Begun(t) \in Nat \ {0}
         /\ Total(t)[Begun(t)] = [op |-> wk[w].j.op, l |-> wk[w].j.l]
<1> DEFINE t == wk[w].j.t
<1>1. t \in called /\ Total(t)[Begun(t)] = [op |-> wk[w].j.op, l |-> wk[w].j.l]
  BY DEF CallsInv, Asked
<1>2. t \in Thread /\ Begun(t) >= 1
  BY <1>1 DEF TypeOK, CallsInv
<1>3. Begun(t) \in 0 .. Len(Total(t)) /\ Len(Total(t)) \in Nat
  BY <1>2, BegunTypes, ScriptTypes
<1>4. QED BY <1>1, <1>2, <1>3
-----------------------------------------------------------------------------
(* A call takes effect                                                     *)

\* stat changes nothing, and whoever answers it changes no entry.
LEMMA StatHolds ==
  ASSUME TypeOK, ScriptsInv, CallsInv, HoldInv, NEW w \in Worker, Stays(w),
         wk[w].pc \notin Acting, wk'[w].pc \in Acting, wk[w].j.op = "stat", granted' = granted
  PROVE  HoldInv'
<1>1. ASSUME NEW t \in Thread, NEW l \in Lock PROVE Holds(t, l)' <=> Holds(t, l)
  <2>1. CASE t = wk[w].j.t
    <3>1. Begun(t) \in Nat \ {0} /\ Total(t)[Begun(t)] = [op |-> "stat", l |-> wk[w].j.l]
      BY <2>1, ServesBegun DEF Stays
    <3>5. Total(t)[Begun(t)] \notin {[op |-> "acquire", l |-> l], [op |-> "release", l |-> l]}
      BY <3>1
    <3>2. Held(t, Begun(t), l) <=> Held(t, Begun(t) - 1, l)
      BY <3>1, <3>5, HeldStep
    <3>3. Effective(t) = Begun(t) - 1 /\ Effective(t)' = Begun(t)
      BY <2>1, EffectiveStep
    <3>4. QED BY <3>2, <3>3 DEF Holds
  <2>2. CASE t # wk[w].j.t
    BY <2>2, EffectiveStep DEF Holds
  <2>3. QED BY <2>1, <2>2
<1>2. QED BY <1>1 DEF HoldInv

\* acquire: the thread holds its lock, that nobody held, and what it held.
LEMMA AcquireHolds ==
  ASSUME TypeOK, ScriptsInv, CallsInv, HoldInv, NEW w \in Worker, Stays(w),
         wk[w].pc \notin Acting, wk'[w].pc \in Acting, wk[w].j.op = "acquire",
         granted[wk[w].j.l] # TRUE, granted'[wk[w].j.l] = TRUE,
         \A l \in Lock \ {wk[w].j.l} : granted'[l] = granted[l]
  PROVE  HoldInv'
<1>0. PICK u, k : u = wk[w].j.t /\ k = wk[w].j.l
  OBVIOUS
<1>1. /\ u \in Thread /\ Begun(u) \in Nat \ {0}
      /\ Total(u)[Begun(u)] = [op |-> "acquire", l |-> k]
  BY <1>0, ServesBegun DEF Stays
<1>2. /\ Effective(u) = Begun(u) - 1 /\ Effective(u)' = Begun(u)
      /\ \A t \in Thread \ {u} : Effective(t)' = Effective(t)
  BY <1>0, <1>1, EffectiveStep
<1>3. \A t \in Thread : ~Holds(t, k) \/ k \notin Lock
  BY <1>0 DEF HoldInv
<1>4. granted'[k] = TRUE /\ \A l \in Lock \ {k} : granted'[l] = granted[l]
  BY <1>0
<1>5. \A l \in Lock : l # k => (Held(u, Begun(u), l) <=> Held(u, Begun(u) - 1, l))
  <2> SUFFICES ASSUME NEW l \in Lock, l # k
               PROVE  Held(u, Begun(u), l) <=> Held(u, Begun(u) - 1, l)
    OBVIOUS
  <2>1. Total(u)[Begun(u)] \notin {[op |-> "acquire", l |-> l], [op |-> "release", l |-> l]}
    BY <1>1
  <2>2. QED BY <1>1, <2>1, HeldStep
<1>6. \A t \in Thread, l \in Lock : l # k => (Holds(t, l)' <=> Holds(t, l))
  <2> SUFFICES ASSUME NEW t \in Thread, NEW l \in Lock, l # k PROVE Holds(t, l)' <=> Holds(t, l)
    OBVIOUS
  <2>1. CASE t = u
    BY <1>2, <1>5, <2>1 DEF Holds
  <2>2. CASE t # u
    BY <1>2, <2>2 DEF Holds
  <2>3. QED BY <2>1, <2>2
<1>7. \A t \in Thread : t # u /\ k \in Lock => ~Holds(t, k)'
  BY <1>2, <1>3 DEF Holds
<1>8. \A t, v \in Thread, l \in Lock : Holds(t, l)' /\ Holds(v, l)' => t = v
  <2> SUFFICES ASSUME NEW t \in Thread, NEW v \in Thread, NEW l \in Lock,
                      Holds(t, l)', Holds(v, l)'
               PROVE  t = v
    OBVIOUS
  <2>1. CASE l = k
    BY <1>7, <2>1
  <2>2. CASE l # k
    BY <1>6, <2>2 DEF HoldInv
  <2>3. QED BY <2>1, <2>2
<1>9. \A t \in Thread, l \in Lock : Holds(t, l)' => granted'[l] = TRUE
  BY <1>4, <1>6 DEF HoldInv
<1>10. QED BY <1>8, <1>9 DEF HoldInv

\* A thread whose release has not taken effect holds the lock.
LEMMA ReleaserHolds ==
  ASSUME Proper, TypeOK, ScriptsInv, CallsInv, NEW w \in Worker, Serving(w),
         wk[w].pc \notin Acting, wk[w].j.op = "release"
  PROVE  Holds(wk[w].j.t, wk[w].j.l)
<1>0. PICK u, k : u = wk[w].j.t /\ k = wk[w].j.l
  OBVIOUS
<1>1. /\ u \in Thread /\ u \in called /\ Begun(u) \in 1 .. Len(Total(u))
      /\ Total(u)[Begun(u)] = [op |-> "release", l |-> k]
  BY <1>0, ServesBegun
<1>2. Effective(u) = Begun(u) - 1
  BY <1>0, <1>1, ActedInTerms DEF Effective
<1>3. InTurn(u, Begun(u))
  BY <1>1 DEF Proper
<1>4. Held(u, Begun(u) - 1, k)
  BY <1>1, <1>3 DEF InTurn
<1>5. Holds(u, k)
  BY <1>2, <1>4 DEF Holds
<1>6. QED BY <1>0, <1>5

\* release: nobody holds the lock any more.
LEMMA ReleaseHolds ==
  ASSUME Proper, TypeOK, ScriptsInv, CallsInv, HoldInv, NEW w \in Worker, Stays(w),
         wk[w].pc \notin Acting, wk'[w].pc \in Acting, wk[w].j.op = "release",
         wk[w].j.l \in Lock, \A l \in Lock \ {wk[w].j.l} : granted'[l] = granted[l]
  PROVE  HoldInv'
<1>0. PICK u, k : u = wk[w].j.t /\ k = wk[w].j.l
  OBVIOUS
<1>1. /\ u \in Thread /\ Begun(u) \in Nat \ {0}
      /\ Total(u)[Begun(u)] = [op |-> "release", l |-> k]
  BY <1>0, ServesBegun DEF Stays
<1>2. /\ Effective(u) = Begun(u) - 1 /\ Effective(u)' = Begun(u)
      /\ \A t \in Thread \ {u} : Effective(t)' = Effective(t)
  BY <1>0, <1>1, EffectiveStep
<1>3. Holds(u, k)
  BY <1>0, ReleaserHolds DEF Stays
<1>4. k \in Lock /\ \A l \in Lock \ {k} : granted'[l] = granted[l]
  BY <1>0
<1>5. \A t \in Thread : Holds(t, k) => t = u
  BY <1>1, <1>3, <1>4 DEF HoldInv
<1>6. ~Held(u, Begun(u), k)
  <2>1. u \in Thread /\ k \in Lock /\ Begun(u) \in Nat \ {0}
    BY <1>1, <1>4
  <2>2. Total(u)[Begun(u)] = [op |-> "release", l |-> k] => ~Held(u, Begun(u), k)
    BY ONLY <2>1, HeldStep
  <2>3. QED BY <1>1, <2>2
<1>7. \A l \in Lock : l # k => (Held(u, Begun(u), l) <=> Held(u, Begun(u) - 1, l))
  <2> SUFFICES ASSUME NEW l \in Lock, l # k
               PROVE  Held(u, Begun(u), l) <=> Held(u, Begun(u) - 1, l)
    OBVIOUS
  <2>1. Total(u)[Begun(u)] \notin {[op |-> "acquire", l |-> l], [op |-> "release", l |-> l]}
    BY <1>1
  <2>2. QED BY <1>1, <2>1, HeldStep
<1>8. \A t \in Thread, l \in Lock : l # k => (Holds(t, l)' <=> Holds(t, l))
  <2> SUFFICES ASSUME NEW t \in Thread, NEW l \in Lock, l # k PROVE Holds(t, l)' <=> Holds(t, l)
    OBVIOUS
  <2>1. CASE t = u
    BY <1>2, <1>7, <2>1 DEF Holds
  <2>2. CASE t # u
    BY <1>2, <2>2 DEF Holds
  <2>3. QED BY <2>1, <2>2
<1>9. \A t \in Thread : ~Holds(t, k)'
  BY <1>2, <1>5, <1>6 DEF Holds
<1>10. QED BY <1>4, <1>8, <1>9 DEF HoldInv
-----------------------------------------------------------------------------
(* The iterator and the locks                                              *)

\* What the step of another worker must leave to v.
Left(v) ==
    LET l == wk[v].j.l IN
    /\ wk[v].pc \in Using => it' = l /\ granted'[l] # NULL
    /\ wk[v].pc = "found" => mutex_' = v /\ it' = IF granted'[l] = NULL THEN NULL ELSE l
    /\ wk[v].pc = "grant" => granted'[l] = FALSE
    /\ wk[v].pc \in Inside => l \in m'

LEMMA BesideOK ==
  ASSUME NEW v \in Worker, HandlerOK(v), Beside(v), Left(v)
  PROVE  HandlerOK(v)'
<1>1. CASE wk'[v] = wk[v]
  BY <1>1 DEF HandlerOK, Left, find
<1>2. CASE wk[v].pc = "cv" /\ wk'[v].pc = "relock" /\ wk'[v].j = wk[v].j /\ wk'[v].x = wk[v].x
  BY <1>2 DEF HandlerOK, Left, AcquirePC, ReleasePC, Using, Inside
<1>3. QED BY <1>1, <1>2 DEF Beside

LEMMA HandlersStep ==
  ASSUME HandlersInv, NEW w \in Worker, Stays(w), HandlerOK(w)',
         \A v \in Worker \ {w} : Left(v),
         wk'[w].pc \in Inside
           => \A v \in Worker \ {w} : wk[v].pc \in Inside => wk[v].j.l # wk[w].j.l,
         \A v \in Worker : mutex_' = v => wk'[v].pc = "found"
  PROVE  HandlersInv'
<1>1. \A v \in Worker : HandlerOK(v)'
  <2>1. ASSUME NEW v \in Worker, v # w PROVE HandlerOK(v)'
    BY <2>1, BesideOK DEF HandlersInv, Stays
  <2>2. QED BY <2>1
<1>2. ASSUME NEW u \in Worker, NEW v \in Worker, wk'[u].pc \in Inside, wk'[v].pc \in Inside,
             wk'[u].j.l = wk'[v].j.l
      PROVE  u = v
  <2>1. \A y \in Worker \ {w} : wk'[y].pc \in Inside => wk'[y] = wk[y]
    BY DEF Stays, Beside, Inside
  <2>2. wk'[w].j = wk[w].j
    BY DEF Stays
  <2>3. CASE u = w
    BY <1>2, <2>1, <2>2, <2>3
  <2>4. CASE v = w
    BY <1>2, <2>1, <2>2, <2>4
  <2>5. CASE u # w /\ v # w
    <3>1. wk'[u] = wk[u] /\ wk'[v] = wk[v]
      BY <1>2, <2>1, <2>5
    <3>2. wk[u].pc \in Inside /\ wk[v].pc \in Inside /\ wk[u].j.l = wk[v].j.l
      BY <1>2, <3>1
    <3>3. QED BY <3>2 DEF HandlersInv
  <2>6. QED BY <2>3, <2>4, <2>5
<1>3. QED BY <1>1, <1>2 DEF HandlersInv

\* A step that changes nothing that the handlers share leaves all to the others.
LEMMA NothingMoved ==
  ASSUME HandlersInv, granted' = granted, it' = it, mutex_' = mutex_, m' = m
  PROVE  \A v \in Worker : Left(v)
<1> SUFFICES ASSUME NEW v \in Worker PROVE Left(v)
  OBVIOUS
<1>1. HandlerOK(v)
  BY DEF HandlersInv
<1>2. QED BY <1>1 DEF HandlerOK, Left, find

\* The iterator of a worker that uses it.
LEMMA UsesOwn ==
  ASSUME HandlersInv, TypeOK, NEW w \in Worker, wk[w].pc \in Using, wk[w].j.l \in Lock
  PROVE  it = wk[w].j.l /\ it # NULL /\ it \in Lock /\ granted[it] \in BOOLEAN
<1>1. it = wk[w].j.l /\ granted[it] # NULL
  BY DEF HandlersInv, HandlerOK
<1>2. granted[it] \in BOOLEAN \cup {NULL}
  BY <1>1 DEF TypeOK
<1>3. QED BY <1>1, <1>2

LEMMA JobsLock ==
  ASSUME Inv, NEW w \in Worker, Serving(w)
  PROVE  wk[w].j \in Job /\ wk[w].j.l \in Lock /\ TypeOK
BY DEF Inv, WorkersInv, Serving, Job

LEMMA ServiceStep ==
  ASSUME ServiceInv, NEW w \in Worker, Stays(w), HoldInv', HandlersInv', failed' = FALSE
  PROVE  ServiceInv'
BY StaysKeeps DEF ServiceInv

\* lock_server::acquire: the lookup under mutex_.  Whoever uses the iterator
\* looks at the same lock.
LEMMA AcquireService ==
  ASSUME Proper, Inv, ServiceInv, NEW w \in Worker, acquire(w)
  PROVE  ServiceInv'
<1>1. /\ wk[w].pc = "acquire" /\ mutex_ = NULL /\ mutex_' = w /\ it' = find(wk[w].j.l)
      /\ granted' = granted /\ m' = m /\ failed' = failed
      /\ TypeOK /\ ~failed /\ Go(w, "found") /\ Handled(w)
  BY AcquireHandled DEF acquire, At, Inv, ServiceInv
<1>2. wk'[w].pc = "found" /\ wk'[w].j = wk[w].j /\ wk'[w].x = wk[w].x
  BY <1>1, GoEffect, Places
<1>3. Stays(w)
  BY <1>1, <1>2, HandledStays
<1>4. wk[w].j.l \in Lock /\ Serving(w) /\ wk[w].j.op = "acquire"
  <2>1. Serving(w)
    BY <1>1 DEF Serving
  <2>2. QED BY <1>1, <2>1, JobsLock DEF ServiceInv, HandlersInv, HandlerOK, AcquirePC
<1>5. HoldInv'
  BY <1>1, <1>2, <1>3, HoldKept DEF ServiceInv, Acting
<1>6. HandlersInv'
  <2>1. HandlerOK(w)'
    BY <1>1, <1>2, <1>4 DEF HandlerOK, AcquirePC, ReleasePC, Using, Inside, find
  <2>2. ASSUME NEW v \in Worker, v # w PROVE Left(v)
    <3>1. HandlerOK(v)
      BY DEF ServiceInv, HandlersInv
    <3>2. wk[v].pc # "found"
      BY <1>1, <3>1 DEF HandlerOK
    <3>3. ASSUME wk[v].pc \in Using PROVE it' = wk[v].j.l
      <4>1. Serving(v) /\ wk[v].j.op # "stat" /\ granted[wk[v].j.l] # NULL
        BY <3>1, <3>3 DEF Serving, Using, HandlerOK, AcquirePC, ReleasePC
      <4>2. wk[v].j.l = wk[w].j.l
        BY <1>1, <1>4, <4>1, SameLock DEF ServiceInv
      <4>3. QED BY <1>1, <4>1, <4>2 DEF find
    <3>4. QED BY <1>1, <3>1, <3>2, <3>3 DEF Left, HandlerOK
  <2>3. wk'[w].pc \notin Inside /\ \A v \in Worker : mutex_' = v => wk'[v].pc = "found"
    BY <1>1, <1>2 DEF Inside
  <2>4. QED BY <1>3, <2>1, <2>2, <2>3, HandlersStep DEF ServiceInv
<1>7. QED BY <1>1, <1>3, <1>5, <1>6, ServiceStep DEF Inv, TypeOK

\* Who leaves a handler's place outside mutex_ leaves its owner where it is.
LEMMA OwnerStays ==
  ASSUME HandlersInv, NEW w \in Worker, Stays(w), wk[w].pc # "found", mutex_' = mutex_
  PROVE  \A v \in Worker : mutex_' = v => wk'[v].pc = "found"
BY DEF HandlersInv, Stays, Beside

\* A step that moves a worker on and nothing that the handlers share.
LEMMA QuietService ==
  ASSUME Inv, ServiceInv, NEW w \in Worker, Stays(w), wk[w].pc # "found",
         HandlerOK(w)', HoldInv', failed' = FALSE,
         granted' = granted, it' = it, mutex_' = mutex_, m' = m,
         wk'[w].pc \in Inside => wk[w].pc \in Inside
  PROVE  ServiceInv'
<1>1. HandlersInv
  BY DEF ServiceInv
<1>2. \A v \in Worker \ {w} : Left(v)
  BY <1>1, NothingMoved
<1>3. wk'[w].pc \in Inside
        => \A v \in Worker \ {w} : wk[v].pc \in Inside => wk[v].j.l # wk[w].j.l
  BY <1>1 DEF HandlersInv
<1>4. HandlersInv'
  BY <1>1, <1>2, <1>3, OwnerStays, HandlersStep
<1>5. QED BY <1>4, ServiceStep

LEMMA FoundService ==
  ASSUME Proper, Inv, ServiceInv, NEW w \in Worker, Found(w)
  PROVE  ServiceInv'
<1>1. /\ wk[w].pc = "found" /\ mutex_' = NULL /\ it' = it /\ m' = m /\ failed' = FALSE
      /\ TypeOK /\ ~failed /\ Handled(w) /\ HandlersInv
  BY AcquireHandled DEF Found, At, Inv, TypeOK, ServiceInv
<1>2. Serving(w) /\ wk[w].j.l \in Lock /\ wk[w].j.op = "acquire"
      /\ mutex_ = w /\ it = find(wk[w].j.l)
  <2>1. Serving(w)
    BY <1>1 DEF Serving
  <2>2. QED BY <1>1, <2>1, JobsLock DEF HandlersInv, HandlerOK, AcquirePC
<1>3. \A v \in Worker : mutex_' = v => wk'[v].pc = "found"
  BY <1>1
<1>4. CASE it # NULL /\ Go(w, "m") /\ granted' = granted
  <2>1. wk'[w].pc = "m" /\ wk'[w].j = wk[w].j /\ wk'[w].x = wk[w].x
    BY <1>1, <1>4, GoEffect, Places
  <2>2. Stays(w)
    BY <1>1, <2>1, HandledStays
  <2>3. HoldInv'
    BY <1>1, <1>4, <2>1, <2>2, HoldKept DEF ServiceInv, Acting
  <2>4. HandlerOK(w)'
    BY <1>1, <1>2, <1>4, <2>1 DEF HandlerOK, AcquirePC, ReleasePC, Using, Inside, find
  <2>5. ASSUME NEW v \in Worker, v # w PROVE Left(v)
    <3>1. HandlerOK(v)
      BY <1>1 DEF HandlersInv
    <3>2. wk[v].pc # "found"
      BY <1>2, <2>5, <3>1 DEF HandlerOK
    <3>3. QED BY <1>1, <1>4, <3>1, <3>2 DEF Left, HandlerOK
  <2>6. wk'[w].pc \notin Inside
    BY <2>1 DEF Inside
  <2>7. HandlersInv'
    BY <1>1, <1>3, <2>2, <2>4, <2>5, <2>6, HandlersStep
  <2>8. QED BY <1>1, <2>2, <2>3, <2>7, ServiceStep
<1>5. CASE /\ it = NULL /\ Go(w, "reply")
           /\ granted' = [granted EXCEPT ![wk[w].j.l] = IF @ = NULL THEN TRUE ELSE @]
  <2>1. wk'[w].pc = "reply" /\ wk'[w].j = wk[w].j /\ wk'[w].x = wk[w].x
    BY <1>1, <1>5, GoEffect, Places
  <2>2. Stays(w)
    BY <1>1, <2>1, HandledStays
  <2>3. granted[wk[w].j.l] = NULL
    BY <1>2, <1>5 DEF find
  <2>4. /\ granted'[wk[w].j.l] = TRUE
        /\ \A l \in Lock \ {wk[w].j.l} : granted'[l] = granted[l]
    BY <1>1, <1>2, <1>5, <2>3 DEF TypeOK
  <2>5. HoldInv'
    <3>1. wk[w].pc \notin Acting /\ wk'[w].pc \in Acting /\ granted[wk[w].j.l] # TRUE
      BY <1>1, <2>1, <2>3 DEF Acting
    <3>2. ScriptsInv /\ CallsInv /\ HoldInv
      BY DEF ServiceInv
    <3>3. QED BY <1>1, <1>2, <2>2, <2>4, <3>1, <3>2, AcquireHolds
  <2>6. HandlerOK(w)'
    BY <1>1, <2>1 DEF HandlerOK, AcquirePC, ReleasePC, Using, Inside
  <2>7. ASSUME NEW v \in Worker, v # w PROVE Left(v)
    <3>1. HandlerOK(v)
      BY <1>1 DEF HandlersInv
    <3>2. wk[v].pc # "found"
      BY <1>2, <2>7, <3>1 DEF HandlerOK
    <3>3. wk[v].pc \in Using => wk[v].j.l \in Lock /\ wk[v].j.l # wk[w].j.l
      <4>1. ASSUME wk[v].pc \in Using PROVE wk[v].j.l \in Lock
        <5>1. Serving(v)
          BY <4>1 DEF Serving, Using
        <5>2. QED BY <5>1, JobsLock
      <4>2. QED BY <2>3, <3>1, <4>1 DEF HandlerOK
    <3>4. wk[v].pc = "grant" => wk[v].pc \in Using
      BY DEF Using
    <3>5. wk[v].pc \in Using => granted'[wk[v].j.l] = granted[wk[v].j.l]
      BY <2>4, <3>3
    <3>6. QED BY <1>1, <3>1, <3>2, <3>4, <3>5 DEF Left, HandlerOK
  <2>8. wk'[w].pc \notin Inside
    BY <2>1 DEF Inside
  <2>9. HandlersInv'
    BY <1>1, <1>3, <2>2, <2>6, <2>7, <2>8, HandlersStep
  <2>10. QED BY <1>1, <2>2, <2>5, <2>9, ServiceStep
<1>6. QED BY <1>4, <1>5 DEF Found

LEMMA PickMutexService ==
  ASSUME Proper, Inv, ServiceInv, NEW w \in Worker, PickMutex(w)
  PROVE  ServiceInv'
<1>1. /\ wk[w].pc \in {"m", "rm"} /\ failed' = (it = NULL) /\ UNCHANGED serverVars
      /\ TypeOK /\ ~failed /\ Handled(w) /\ HandlersInv /\ wk \in [Worker -> Working]
  BY PickMutexHandled, ServerHas DEF PickMutex, Use, Inv, ServiceInv
<1>2. /\ wk'[w].pc = IF wk[w].pc = "m" THEN "lock" ELSE "rlock"
      /\ wk'[w].j = wk[w].j /\ wk'[w].x = it
  BY <1>1 DEF PickMutex, Working
<1>3. Stays(w)
  BY <1>1, <1>2, HandledStays
<1>4. wk[w].j.l \in Lock /\ it = wk[w].j.l /\ it # NULL
  <2>1. Serving(w) /\ wk[w].pc \in Using
    BY <1>1 DEF Serving, Using
  <2>2. QED BY <1>1, <2>1, JobsLock, UsesOwn
<1>5. granted' = granted /\ it' = it /\ mutex_' = mutex_ /\ m' = m
  BY <1>1 DEF serverVars
<1>6. HoldInv'
  BY <1>1, <1>2, <1>3, <1>5, HoldKept DEF ServiceInv, Acting
<1>7. HandlerOK(w)'
  <2>1. HandlerOK(w)
    BY <1>1 DEF HandlersInv
  <2>2. QED BY <1>1, <1>2, <1>4, <1>5, <2>1
            DEF HandlerOK, AcquirePC, ReleasePC, Using, Inside
<1>8. wk'[w].pc \notin Inside /\ wk[w].pc # "found"
  BY <1>1, <1>2 DEF Inside
<1>9. QED BY <1>1, <1>3, <1>4, <1>5, <1>6, <1>7, <1>8, QuietService

\* class Mutex: one handler at a time is between lock and unlock of a lock's m.
LEMMA LockMutexService ==
  ASSUME Proper, Inv, ServiceInv, NEW w \in Worker, LockMutex(w)
  PROVE  ServiceInv'
<1>1. /\ wk[w].pc \in {"lock", "relock", "rlock"} /\ wk[w].x \notin m /\ m' = m \cup {wk[w].x}
      /\ Go(w, IF wk[w].pc = "rlock" THEN "clear" ELSE "test")
      /\ granted' = granted /\ it' = it /\ mutex_' = mutex_ /\ failed' = FALSE
      /\ TypeOK /\ ~failed /\ Handled(w) /\ HandlersInv
  BY LockMutexHandled DEF LockMutex, lock, At, Inv, TypeOK, ServiceInv
<1>2. /\ wk'[w].pc = IF wk[w].pc = "rlock" THEN "clear" ELSE "test"
      /\ wk'[w].j = wk[w].j /\ wk'[w].x = wk[w].x
  BY <1>1, GoEffect, Places
<1>3. Stays(w)
  BY <1>1, <1>2, HandledStays
<1>4. HandlerOK(w) /\ wk[w].x = wk[w].j.l
  BY <1>1 DEF HandlersInv, HandlerOK
<1>5. HoldInv'
  BY <1>1, <1>2, <1>3, HoldKept DEF ServiceInv, Acting
<1>6. HandlerOK(w)'
  BY <1>1, <1>2, <1>4 DEF HandlerOK, AcquirePC, ReleasePC, Using, Inside
<1>7. \A v \in Worker \ {w} : Left(v)
  <2> SUFFICES ASSUME NEW v \in Worker, v # w PROVE Left(v)
    OBVIOUS
  <2>1. HandlerOK(v)
    BY <1>1 DEF HandlersInv
  <2>2. QED BY <1>1, <2>1 DEF Left, HandlerOK, find
<1>8. \A v \in Worker \ {w} : wk[v].pc \in Inside => wk[v].j.l # wk[w].j.l
  BY <1>1, <1>4 DEF HandlersInv, HandlerOK
<1>9. \A v \in Worker : mutex_' = v => wk'[v].pc = "found"
  BY <1>1, <1>3, OwnerStays
<1>10. HandlersInv'
  BY <1>1, <1>3, <1>6, <1>7, <1>8, <1>9, HandlersStep
<1>11. QED BY <1>1, <1>3, <1>5, <1>10, ServiceStep

\* while (it->second->granted): what it finds is of its own lock.
LEMMA TestService ==
  ASSUME Proper, Inv, ServiceInv, NEW w \in Worker, Test(w)
  PROVE  ServiceInv'
<1>1. /\ wk[w].pc = "test" /\ failed' = (it = NULL) /\ UNCHANGED serverVars
      /\ Go(w, IF Taken THEN "wait" ELSE "grant")
      /\ TypeOK /\ ~failed /\ Handled(w) /\ HandlersInv
  BY TestHandled DEF Test, Use, At, Inv, ServiceInv
<1>2. wk'[w].pc = (IF Taken THEN "wait" ELSE "grant") /\ wk'[w].j = wk[w].j /\ wk'[w].x = wk[w].x
  BY <1>1, GoEffect, Places
<1>3. Stays(w)
  BY <1>1, <1>2, HandledStays
<1>4. wk[w].j.l \in Lock /\ it = wk[w].j.l /\ it # NULL /\ it \in Lock /\ granted[it] \in BOOLEAN
  <2>1. Serving(w) /\ wk[w].pc \in Using
    BY <1>1 DEF Serving, Using
  <2>2. QED BY <1>1, <2>1, JobsLock, UsesOwn
<1>5. granted' = granted /\ it' = it /\ mutex_' = mutex_ /\ m' = m
  BY <1>1 DEF serverVars
<1>6. HoldInv'
  BY <1>1, <1>2, <1>3, <1>5, HoldKept DEF ServiceInv, Acting
<1>7. HandlerOK(w)'
  <2>1. HandlerOK(w)
    BY <1>1 DEF HandlersInv
  <2>2. wk'[w].pc = "grant" => granted[wk[w].j.l] = FALSE
    BY <1>2, <1>4 DEF Taken
  <2>3. wk'[w].pc \in {"wait", "grant"}
    BY <1>2
  <2>4. wk'[w].j.op = "acquire" /\ it = wk[w].j.l /\ granted[wk[w].j.l] # NULL /\ wk[w].j.l \in m
    BY <1>1, <1>2, <2>1 DEF HandlerOK, AcquirePC, Using, Inside
  <2>5. QED BY <1>2, <1>5, <2>2, <2>3, <2>4 DEF HandlerOK, AcquirePC, ReleasePC, Using, Inside
<1>8. wk[w].pc \in Inside /\ wk[w].pc # "found"
  BY <1>1 DEF Inside
<1>9. QED BY <1>1, <1>3, <1>4, <1>5, <1>6, <1>7, <1>8, QuietService

\* A handler that gives its mutex back leaves to the others theirs.
LEMMA MutexGiven ==
  ASSUME HandlersInv, NEW w \in Worker, wk[w].pc \in Inside,
         granted' = granted, it' = it, mutex_' = mutex_, m' = m \ {wk[w].j.l}
  PROVE  \A v \in Worker \ {w} : Left(v)
<1> SUFFICES ASSUME NEW v \in Worker, v # w PROVE Left(v)
  OBVIOUS
<1>1. HandlerOK(v)
  BY DEF HandlersInv
<1>2. wk[v].pc \in Inside => wk[v].j.l # wk[w].j.l
  BY DEF HandlersInv
<1>3. QED BY <1>1, <1>2 DEF HandlerOK, Left, find

LEMMA WaitService ==
  ASSUME Proper, Inv, ServiceInv, NEW w \in Worker, Wait(w)
  PROVE  ServiceInv'
<1>1. /\ wk[w].pc = "wait" /\ failed' = (it = NULL) /\ m' = m \ {it}
      /\ granted' = granted /\ it' = it /\ mutex_' = mutex_
      /\ TypeOK /\ ~failed /\ Handled(w) /\ HandlersInv /\ wk \in [Worker -> Working]
  BY WaitHandled, ServerHas DEF Wait, unlock, Use, At, Inv, ServiceInv
<1>2. wk'[w].pc = "cv" /\ wk'[w].j = wk[w].j /\ wk'[w].x = it
  BY <1>1 DEF Wait, Working
<1>3. Stays(w)
  BY <1>1, <1>2, HandledStays
<1>4. wk[w].j.l \in Lock /\ it = wk[w].j.l /\ it # NULL
  <2>1. Serving(w) /\ wk[w].pc \in Using
    BY <1>1 DEF Serving, Using
  <2>2. QED BY <1>1, <2>1, JobsLock, UsesOwn
<1>5. HoldInv'
  BY <1>1, <1>2, <1>3, HoldKept DEF ServiceInv, Acting
<1>6. HandlerOK(w)'
  <2>1. HandlerOK(w)
    BY <1>1 DEF HandlersInv
  <2>2. QED BY <1>1, <1>2, <1>4, <2>1 DEF HandlerOK, AcquirePC, ReleasePC, Using, Inside
<1>7. \A v \in Worker \ {w} : Left(v)
  BY <1>1, <1>4, MutexGiven DEF Inside
<1>8. wk'[w].pc \notin Inside /\ \A v \in Worker : mutex_' = v => wk'[v].pc = "found"
  BY <1>1, <1>2, <1>3, OwnerStays DEF Inside
<1>9. HandlersInv'
  BY <1>1, <1>3, <1>6, <1>7, <1>8, HandlersStep
<1>10. QED BY <1>1, <1>3, <1>4, <1>5, <1>9, ServiceStep

LEMMA UnlockService ==
  ASSUME Proper, Inv, ServiceInv, NEW w \in Worker, Unlock(w)
  PROVE  ServiceInv'
<1>1. /\ wk[w].pc = "unlock" /\ failed' = (it = NULL) /\ m' = m \ {it} /\ Go(w, "reply")
      /\ granted' = granted /\ it' = it /\ mutex_' = mutex_
      /\ TypeOK /\ ~failed /\ Handled(w) /\ HandlersInv
  BY TestHandled DEF Unlock, unlock, Use, At, Inv, ServiceInv
<1>2. wk'[w].pc = "reply" /\ wk'[w].j = wk[w].j /\ wk'[w].x = wk[w].x
  BY <1>1, GoEffect, Places
<1>3. Stays(w)
  BY <1>1, <1>2, HandledStays
<1>4. wk[w].j.l \in Lock /\ it = wk[w].j.l /\ it # NULL
  <2>1. Serving(w) /\ wk[w].pc \in Using
    BY <1>1 DEF Serving, Using
  <2>2. QED BY <1>1, <2>1, JobsLock, UsesOwn
<1>5. HoldInv'
  BY <1>1, <1>2, <1>3, HoldKept DEF ServiceInv, Acting
<1>6. HandlerOK(w)'
  BY <1>1, <1>2 DEF HandlerOK, AcquirePC, ReleasePC, Using, Inside
<1>7. \A v \in Worker \ {w} : Left(v)
  BY <1>1, <1>4, MutexGiven DEF Inside
<1>8. wk'[w].pc \notin Inside /\ \A v \in Worker : mutex_' = v => wk'[v].pc = "found"
  BY <1>1, <1>2, <1>3, OwnerStays DEF Inside
<1>9. HandlersInv'
  BY <1>1, <1>3, <1>6, <1>7, <1>8, HandlersStep
<1>10. QED BY <1>1, <1>3, <1>4, <1>5, <1>9, ServiceStep

\* granted = true in acquire and granted = false in release.
LEMMA GrantService ==
  ASSUME Proper, Inv, ServiceInv, NEW w \in Worker, Grant(w)
  PROVE  ServiceInv'
<1>1. /\ wk[w].pc \in {"grant", "clear"} /\ failed' = (it = NULL)
      /\ granted' = [l \in Lock |-> IF l = it THEN wk[w].pc = "grant" ELSE granted[l]]
      /\ Go(w, IF wk[w].pc = "grant" THEN "unlock" ELSE "signal")
      /\ it' = it /\ mutex_' = mutex_ /\ m' = m
      /\ TypeOK /\ ~failed /\ Handled(w) /\ HandlersInv
  BY TestHandled DEF Grant, Use, At, Inv, ServiceInv
<1>2. /\ wk'[w].pc = IF wk[w].pc = "grant" THEN "unlock" ELSE "signal"
      /\ wk'[w].j = wk[w].j /\ wk'[w].x = wk[w].x
  BY <1>1, GoEffect, Places
<1>3. Stays(w)
  BY <1>1, <1>2, HandledStays
<1>4. wk[w].j.l \in Lock /\ it = wk[w].j.l /\ it # NULL
  <2>1. Serving(w) /\ wk[w].pc \in Using
    BY <1>1 DEF Serving, Using
  <2>2. QED BY <1>1, <2>1, JobsLock, UsesOwn
<1>5. /\ granted'[wk[w].j.l] = (wk[w].pc = "grant")
      /\ \A l \in Lock \ {wk[w].j.l} : granted'[l] = granted[l]
  BY <1>1, <1>4
<1>6. HandlerOK(w)
  BY <1>1 DEF HandlersInv
<1>7. HoldInv'
  <2>1. wk[w].pc \notin Acting /\ wk'[w].pc \in Acting
    BY <1>1, <1>2 DEF Acting
  <2>2. ScriptsInv /\ CallsInv /\ HoldInv
    BY DEF ServiceInv
  <2>3. CASE wk[w].pc = "grant"
    <3>1. wk[w].j.op = "acquire" /\ granted[wk[w].j.l] # TRUE /\ granted'[wk[w].j.l] = TRUE
      BY <1>5, <1>6, <2>3 DEF HandlerOK, AcquirePC
    <3>2. QED BY <1>1, <1>3, <1>5, <2>1, <2>2, <3>1, AcquireHolds
  <2>4. CASE wk[w].pc = "clear"
    <3>1. wk[w].j.op = "release"
      BY <1>6, <2>4 DEF HandlerOK, ReleasePC
    <3>2. QED BY <1>1, <1>3, <1>4, <1>5, <2>1, <2>2, <3>1, ReleaseHolds
  <2>5. QED BY <1>1, <2>3, <2>4
<1>8. HandlerOK(w)'
  <2>1. wk'[w].j.l = wk[w].j.l /\ granted'[wk[w].j.l] # NULL /\ wk[w].j.l \in m
    BY <1>1, <1>2, <1>5, <1>6 DEF HandlerOK, Inside
  <2>2. wk'[w].pc = "signal" => wk'[w].j.op = "release"
    BY <1>1, <1>2, <1>6 DEF HandlerOK, ReleasePC
  <2>3. wk'[w].pc = "unlock" => wk'[w].j.op \in {"acquire", "release"}
    BY <1>1, <1>2, <1>6 DEF HandlerOK, AcquirePC
  <2>4. wk'[w].pc \in {"signal", "unlock"}
    BY <1>2
  <2>5. QED BY <1>1, <1>4, <2>1, <2>2, <2>3, <2>4
            DEF HandlerOK, AcquirePC, ReleasePC, Using, Inside
<1>9. \A v \in Worker \ {w} : wk[v].pc \in Inside => wk[v].j.l # wk[w].j.l
  BY <1>1 DEF HandlersInv, Inside
<1>10. ASSUME NEW v \in Worker, v # w PROVE Left(v)
  <2>1. HandlerOK(v)
    BY <1>1 DEF HandlersInv
  <2>2. wk[v].pc = "grant" => wk[v].pc \in Inside /\ wk[v].pc \in Using
    BY DEF Inside, Using
  <2>3. wk[v].pc \in Using \/ wk[v].pc = "found" => wk[v].j.l \in Lock
    <3>1. wk[v].pc \in Using \/ wk[v].pc = "found" => Serving(v)
      BY DEF Using, Serving
    <3>2. QED BY <3>1, JobsLock
  <2>4. \A l \in Lock : granted'[l] = NULL <=> granted[l] = NULL
    BY <1>4, <1>5, <1>6, <1>1 DEF HandlerOK, Using
  <2>5. wk[v].pc = "grant" => granted'[wk[v].j.l] = FALSE
    BY <1>5, <1>9, <1>10, <2>1, <2>2, <2>3 DEF HandlerOK
  <2>6. QED BY <1>1, <2>1, <2>3, <2>4, <2>5 DEF Left, HandlerOK, find
<1>11. \A v \in Worker : mutex_' = v => wk'[v].pc = "found"
  BY <1>1, <1>3, OwnerStays
<1>12. HandlersInv'
  BY <1>1, <1>3, <1>8, <1>9, <1>10, <1>11, HandlersStep
<1>13. QED BY <1>1, <1>3, <1>4, <1>7, <1>12, ServiceStep

\* lock_server::release takes no mutex_ for its lookup.  Its thread holds the
\* lock, so that the entry is there, and nobody uses the iterator for another.
LEMMA ReleaseService ==
  ASSUME Proper, Inv, ServiceInv, NEW w \in Worker, release(w)
  PROVE  ServiceInv'
<1>1. TypeOK /\ ~failed /\ Handled(w) /\ HandlersInv /\ ScriptsInv /\ CallsInv
      /\ wk[w].pc \in {"release", "end"}
  BY ReleaseHandled DEF release, At, Inv, ServiceInv
<1>2. HandlerOK(w) /\ Serving(w) /\ wk[w].j.l \in Lock /\ wk[w].j.op = "release"
  <2>1. Serving(w)
    BY <1>1 DEF Serving
  <2>2. QED BY <1>1, <2>1, JobsLock DEF HandlersInv, HandlerOK, ReleasePC
<1>3. granted[wk[w].j.l] = TRUE
  <2>1. Holds(wk[w].j.t, wk[w].j.l) /\ wk[w].j.t \in Thread
    BY <1>1, <1>2, ReleaserHolds, ServesBegun DEF Acting
  <2>2. QED BY <1>2, <2>1 DEF ServiceInv, HoldInv
<1>4. CASE /\ wk[w].pc = "release" /\ it' = find(wk[w].j.l) /\ Go(w, "end")
           /\ UNCHANGED <<granted, mutex_, m, failed>>
  <2>1. wk'[w].pc = "end" /\ wk'[w].j = wk[w].j /\ wk'[w].x = wk[w].x
    BY <1>1, <1>4, GoEffect, Places
  <2>2. Stays(w)
    BY <1>1, <2>1, HandledStays
  <2>3. HoldInv'
    BY <1>1, <1>4, <2>1, <2>2, HoldKept DEF ServiceInv, Acting
  <2>4. it' = wk[w].j.l
    BY <1>3, <1>4 DEF find
  <2>5. HandlerOK(w)'
    BY <1>2, <1>3, <1>4, <2>1, <2>4 DEF HandlerOK, AcquirePC, ReleasePC, Using, Inside
  <2>6. ASSUME NEW v \in Worker, v # w PROVE Left(v)
    <3>1. HandlerOK(v)
      BY <1>1 DEF HandlersInv
    <3>2. ASSUME wk[v].pc \in Using \/ wk[v].pc = "found" PROVE wk[v].j.l = wk[w].j.l
      <4>1. Serving(v) /\ wk[v].j.op # "stat"
        BY <3>1, <3>2 DEF Serving, Using, HandlerOK, AcquirePC, ReleasePC
      <4>2. QED BY <1>1, <1>2, <4>1, SameLock DEF ServiceInv
    <3>3. QED BY <1>3, <1>4, <2>4, <3>1, <3>2 DEF Left, HandlerOK
  <2>7. wk'[w].pc \notin Inside
    BY <2>1 DEF Inside
  <2>8. \A v \in Worker : mutex_' = v => wk'[v].pc = "found"
    BY <1>1, <1>4, <2>2, OwnerStays
  <2>9. HandlersInv'
    BY <1>1, <2>2, <2>5, <2>6, <2>7, <2>8, HandlersStep
  <2>10. failed' = FALSE
    BY <1>1, <1>4
  <2>11. QED BY <2>2, <2>3, <2>9, <2>10, ServiceStep
<1>5. CASE /\ wk[w].pc = "end" /\ failed' = (it = NULL) /\ Go(w, "rm") /\ UNCHANGED serverVars
  <2>1. wk'[w].pc = "rm" /\ wk'[w].j = wk[w].j /\ wk'[w].x = wk[w].x
    BY <1>1, <1>5, GoEffect, Places
  <2>2. Stays(w)
    BY <1>1, <2>1, HandledStays
  <2>3. granted' = granted /\ it' = it /\ mutex_' = mutex_ /\ m' = m
    BY <1>5 DEF serverVars
  <2>4. HoldInv'
    BY <1>1, <1>5, <2>1, <2>2, <2>3, HoldKept DEF ServiceInv, Acting
  <2>5. HandlerOK(w)' /\ it # NULL
    <3>1. it = wk[w].j.l
      BY <1>2, <1>5 DEF HandlerOK, Using
    <3>2. QED BY <1>2, <1>3, <2>1, <2>3, <3>1
              DEF HandlerOK, AcquirePC, ReleasePC, Using, Inside
  <2>6. wk'[w].pc \notin Inside /\ wk[w].pc # "found"
    BY <1>5, <2>1 DEF Inside
  <2>7. failed' = FALSE
    BY <1>5, <2>5
  <2>8. QED BY <2>2, <2>3, <2>4, <2>5, <2>6, <2>7, QuietService
<1>6. QED BY <1>4, <1>5 DEF release, At, Use

LEMMA SignalService ==
  ASSUME Proper, Inv, ServiceInv, NEW w \in Worker, Signal(w)
  PROVE  ServiceInv'
<1>1. /\ wk[w].pc = "signal" /\ failed' = (it = NULL) /\ signal(w, it) /\ UNCHANGED serverVars
      /\ TypeOK /\ ~failed /\ Handled(w) /\ HandlersInv /\ wk \in [Worker -> Working]
  BY SignalHandled, ServerHas DEF Signal, Use, At, Inv, ServiceInv
<1>2. wk'[w].pc = "unlock" /\ wk'[w].j = wk[w].j
  <2>1. CASE Go(w, "unlock")
    BY <1>1, <2>1, GoEffect, Places
  <2>2. CASE \E v \in Worker : /\ wk[v].pc = "cv"
                               /\ wk' = [wk EXCEPT ![w].pc = "unlock", ![v].pc = "relock"]
    <3>1. PICK v \in Worker : /\ wk[v].pc = "cv"
                              /\ wk' = [wk EXCEPT ![w].pc = "unlock", ![v].pc = "relock"]
      BY <2>2
    <3>2. v # w
      BY <1>1, <3>1
    <3>3. QED BY <1>1, <3>1, <3>2 DEF Working
  <2>3. QED BY <1>1, <2>1, <2>2 DEF signal, At
<1>3. Stays(w)
  BY <1>1, <1>2, HandledStays
<1>4. it = wk[w].j.l /\ it # NULL
  <2>1. Serving(w) /\ wk[w].pc \in Using
    BY <1>1 DEF Serving, Using
  <2>2. QED BY <1>1, <2>1, JobsLock, UsesOwn
<1>5. granted' = granted /\ it' = it /\ mutex_' = mutex_ /\ m' = m
  BY <1>1 DEF serverVars
<1>6. HoldInv'
  BY <1>1, <1>2, <1>3, <1>5, HoldKept DEF ServiceInv, Acting
<1>7. HandlerOK(w)'
  <2>1. HandlerOK(w)
    BY <1>1 DEF HandlersInv
  <2>2. QED BY <1>1, <1>2, <1>5, <2>1 DEF HandlerOK, AcquirePC, ReleasePC, Using, Inside
<1>8. wk[w].pc \in Inside /\ wk[w].pc # "found"
  BY <1>1 DEF Inside
<1>9. QED BY <1>1, <1>3, <1>4, <1>5, <1>6, <1>7, <1>8, QuietService

LEMMA StatService ==
  ASSUME Proper, Inv, ServiceInv, NEW w \in Worker, stat(w)
  PROVE  ServiceInv'
<1>1. /\ wk[w].pc = "stat" /\ failed' = FALSE /\ UNCHANGED serverVars /\ Go(w, "reply")
      /\ TypeOK /\ ~failed /\ Handled(w) /\ HandlersInv
  BY ReleaseHandled DEF stat, At, Inv, TypeOK, ServiceInv
<1>2. wk'[w].pc = "reply" /\ wk'[w].j = wk[w].j
  BY <1>1, GoEffect, Places
<1>3. Stays(w)
  BY <1>1, <1>2, HandledStays
<1>4. granted' = granted /\ it' = it /\ mutex_' = mutex_ /\ m' = m
  BY <1>1 DEF serverVars
<1>5. wk[w].j.op = "stat"
  BY <1>1 DEF HandlersInv, HandlerOK
<1>6. HoldInv'
  BY <1>1, <1>2, <1>3, <1>4, <1>5, StatHolds DEF ServiceInv, Acting
<1>7. HandlerOK(w)'
  BY <1>2 DEF HandlerOK, AcquirePC, ReleasePC, Using, Inside
<1>8. wk'[w].pc \notin Inside /\ wk[w].pc # "found"
  BY <1>1, <1>2 DEF Inside
<1>9. QED BY <1>1, <1>3, <1>4, <1>6, <1>7, <1>8, QuietService
-----------------------------------------------------------------------------
(* The answer, the queue and the tester                                    *)

\* The worker's job is answered: its thread's call has taken effect.
LEMMA ReplyService ==
  ASSUME Inv, ServiceInv, NEW w \in Worker, Reply(w)
  PROVE  ServiceInv'
<1>0. PICK u : u = wk[w].j.t
  OBVIOUS
<1> DEFINE r == [pc |-> "deq", j |-> Pill, x |-> NULL]
<1>1. /\ wk[w].pc = "reply" /\ called' = called \ {u} /\ wk' = [wk EXCEPT ![w] = r]
      /\ granted' = granted /\ it' = it /\ mutex_' = mutex_ /\ m' = m
      /\ jobq' = jobq /\ todo' = todo /\ ct' = ct /\ failed' = failed /\ ~failed
      /\ wk \in [Worker -> Working] /\ TypeOK
      /\ ScriptsInv /\ AloneInv /\ CallsInv /\ HoldInv /\ CountsInv /\ HandlersInv
  BY <1>0, ServerHas DEF Reply, At, serverVars, queueVars, Inv, ServiceInv
<1>2. r.pc = "deq"
  OBVIOUS
<1> HIDE DEF r
<1>3. wk'[w].pc = "deq" /\ \A v \in Worker \ {w} : wk'[v] = wk[v]
  BY <1>1, <1>2
<1>4. \A t : Begun(t)' = Begun(t)
  BY <1>1, BegunKept
<1>5. Serving(w) /\ ~Serving(w)'
  BY <1>1, <1>3 DEF Serving
<1>6. \A v \in Worker \ {w} : (Serving(v)' <=> Serving(v)) /\ (Serving(v) => wk[v].j.t # u)
  BY <1>0, <1>1, <1>3, <1>5 DEF CallsInv, Serving
<1>7. \A i \in DOMAIN jobq : jobq[i] # Pill => jobq[i].t # u
  BY <1>0, <1>1, <1>5 DEF CallsInv
<1>8. ScriptsInv' /\ AloneInv' /\ CountsInv'
  BY <1>1, <1>4 DEF ScriptsInv, AloneInv, CountsInv
<1>9. \A t : Effective(t)' = Effective(t)
  <2>1. ASSUME NEW t, t # u PROVE (Acted(t)' <=> Acted(t)) /\ (t \in called' <=> t \in called)
    <3>1. \A v \in Worker : wk'[v].pc \in Acting /\ wk'[v].j.t = t
                              <=> wk[v].pc \in Acting /\ wk[v].j.t = t
      BY <1>0, <1>3, <2>1 DEF Acting
    <3>2. QED BY <1>1, <2>1, <3>1 DEF Acted, Acting
  <2>2. Acted(u) /\ u \notin called'
    BY <1>0, <1>1 DEF Acted
  <2>3. QED BY <1>4, <2>1, <2>2 DEF Effective
<1>10. HoldInv'
  <2>1. \A t \in Thread, l \in Lock : Holds(t, l)' <=> Holds(t, l)
    BY <1>9 DEF Holds
  <2>2. QED BY <1>1, <2>1 DEF HoldInv
<1>11. CallsInv'
  <2>1. \A t \in called' : Begun(t)' >= 1 /\ Total(t)[Begun(t)'].op \in {"acquire", "release", "stat"}
    BY <1>1, <1>4 DEF CallsInv
  <2>2. ASSUME NEW v \in Worker, Serving(v)' PROVE Asked(wk[v].j)'
    <3>1. v # w /\ wk'[v].j = wk[v].j /\ Asked(wk[v].j) /\ wk[v].j.t # u
      BY <1>1, <1>3, <1>5, <1>6, <2>2 DEF CallsInv
    <3>2. QED BY <1>1, <1>4, <3>1 DEF Asked
  <2>3. ASSUME NEW i \in DOMAIN jobq, jobq[i] # Pill PROVE Asked(jobq[i])'
    <3>1. Asked(jobq[i]) /\ jobq[i].t # u
      BY <1>1, <1>7, <2>3 DEF CallsInv
    <3>2. QED BY <1>1, <1>4, <3>1 DEF Asked
  <2>4. ASSUME NEW v \in Worker, NEW y \in Worker, Serving(v)', Serving(y)', wk'[v].j.t = wk'[y].j.t
        PROVE  v = y
    <3>1. v # w /\ y # w
      BY <1>5, <2>4
    <3>2. QED BY <1>1, <1>3, <1>6, <2>4, <3>1 DEF CallsInv
  <2>5. ASSUME NEW v \in Worker, NEW i \in DOMAIN jobq, Serving(v)', jobq[i] # Pill
        PROVE  wk'[v].j.t # jobq[i].t
    <3>1. v # w /\ Serving(v) /\ wk'[v] = wk[v]
      BY <1>3, <1>5, <1>6, <2>5
    <3>2. QED BY <1>1, <2>5, <3>1 DEF CallsInv
  <2>6. \A i, k \in DOMAIN jobq : jobq[i] # Pill /\ jobq[k] # Pill /\ jobq[i].t = jobq[k].t => i = k
    BY <1>1 DEF CallsInv
  <2>7. QED BY <1>1, <2>1, <2>2, <2>3, <2>4, <2>5, <2>6 DEF CallsInv
<1>12. HandlersInv'
  <2>1. HandlerOK(w)'
    BY <1>3 DEF HandlerOK, AcquirePC, ReleasePC, Using, Inside
  <2>2. ASSUME NEW v \in Worker, v # w PROVE HandlerOK(v)'
    <3>1. wk'[v] = wk[v] /\ HandlerOK(v)
      BY <1>1, <1>3, <2>2 DEF HandlersInv
    <3>2. QED BY <1>1, <3>1 DEF HandlerOK, find
  <2>3. ASSUME NEW v \in Worker, NEW y \in Worker, wk'[v].pc \in Inside, wk'[y].pc \in Inside,
               wk'[v].j.l = wk'[y].j.l
        PROVE  v = y
    <3>1. v # w /\ y # w
      BY <1>3, <2>3 DEF Inside
    <3>2. QED BY <1>1, <1>3, <2>3, <3>1 DEF HandlersInv
  <2>4. ASSUME NEW v \in Worker, mutex_' = v PROVE wk'[v].pc = "found"
    <3>1. wk[v].pc = "found"
      BY <1>1, <2>4 DEF HandlersInv
    <3>2. QED BY <1>1, <1>3, <3>1
  <2>5. QED BY <2>1, <2>2, <2>3, <2>4 DEF HandlersInv
<1>13. QED BY <1>1, <1>8, <1>10, <1>11, <1>12 DEF ServiceInv

\* A step of workers outside the handlers.
Roams(v) == wk'[v] = wk[v] \/ (~Serving(v) /\ ~Serving(v)')

\* Or one that takes a job up.
Arrives(v) ==
    \/ Roams(v)
    \/ /\ ~Serving(v)
       /\ wk'[v].pc \in {"acquire", "release", "stat"} /\ wk'[v].pc = wk'[v].j.op

LEMMA HandlersAway ==
  ASSUME HandlersInv, \A v \in Worker : Arrives(v),
         granted' = granted, it' = it, mutex_' = mutex_, m' = m
  PROVE  HandlersInv' /\ \A t : Acted(t)' <=> Acted(t)
<1>1. \A v \in Worker : HandlerOK(v)'
  <2> SUFFICES ASSUME NEW v \in Worker PROVE HandlerOK(v)'
    OBVIOUS
  <2>1. CASE wk'[v] = wk[v]
    <3>1. HandlerOK(v)
      BY DEF HandlersInv
    <3>2. QED BY <2>1, <3>1 DEF HandlerOK, find
  <2>2. CASE ~Serving(v)'
    BY <2>2 DEF HandlerOK, Serving, AcquirePC, ReleasePC, Using, Inside
  <2>3. CASE wk'[v].pc \in {"acquire", "release", "stat"} /\ wk'[v].pc = wk'[v].j.op
    BY <2>3 DEF HandlerOK, AcquirePC, ReleasePC, Using, Inside
  <2>4. QED BY <2>1, <2>2, <2>3 DEF Arrives, Roams
<1>2. ASSUME NEW v \in Worker, wk'[v].pc \in Inside \/ wk'[v].pc \in Acting
      PROVE  wk'[v] = wk[v]
  BY <1>2 DEF Arrives, Roams, Serving, Inside, Acting
<1>3. ASSUME NEW v \in Worker, NEW y \in Worker, wk'[v].pc \in Inside, wk'[y].pc \in Inside,
             wk'[v].j.l = wk'[y].j.l
      PROVE  v = y
  BY <1>2, <1>3 DEF HandlersInv
<1>4. ASSUME NEW v \in Worker, mutex_' = v PROVE wk'[v].pc = "found"
  <2>1. wk[v].pc = "found"
    BY <1>4 DEF HandlersInv
  <2>2. QED BY <2>1 DEF Arrives, Roams, Serving
<1>5. ASSUME NEW v \in Worker, wk[v].pc \in Acting PROVE wk'[v] = wk[v]
  BY <1>5 DEF Arrives, Roams, Serving, Acting
<1>6. \A t : Acted(t)' <=> Acted(t)
  <2> SUFFICES ASSUME NEW t PROVE Acted(t)' <=> Acted(t)
    OBVIOUS
  <2>1. \A v \in Worker : wk'[v].pc \in Acting /\ wk'[v].j.t = t
                            <=> wk[v].pc \in Acting /\ wk[v].j.t = t
    BY <1>2, <1>5
  <2>2. QED BY <2>1 DEF Acted, Acting
<1>7. QED BY <1>1, <1>3, <1>4, <1>6 DEF HandlersInv

\* Neither calls nor jobs change.
LEMMA CallsAway ==
  ASSUME CallsInv, \A v \in Worker : Roams(v), UNCHANGED <<jobq, todo, called>>
  PROVE  CallsInv'
<1>1. \A v \in Worker : Serving(v)' => Serving(v) /\ wk'[v] = wk[v]
  BY DEF Roams, Serving
<1>2. jobq' = jobq /\ todo' = todo /\ called' = called
  OBVIOUS
<1>3. \A t : Begun(t)' = Begun(t)
  BY <1>2, BegunKept
<1>4. \A t \in called' : Begun(t)' >= 1 /\ Total(t)[Begun(t)'].op \in {"acquire", "release", "stat"}
  BY <1>2, <1>3 DEF CallsInv
<1>5. ASSUME NEW v \in Worker, Serving(v)' PROVE Asked(wk[v].j)'
  <2>1. Asked(wk[v].j) /\ wk'[v] = wk[v]
    BY <1>1, <1>5 DEF CallsInv
  <2>2. QED BY <1>2, <1>3, <2>1 DEF Asked
<1>6. ASSUME NEW i \in DOMAIN jobq, jobq[i] # Pill PROVE Asked(jobq[i])'
  <2>1. Asked(jobq[i])
    BY <1>6 DEF CallsInv
  <2>2. QED BY <1>2, <1>3, <2>1 DEF Asked
<1>7. ASSUME NEW v \in Worker, NEW y \in Worker, Serving(v)', Serving(y)', wk'[v].j.t = wk'[y].j.t
      PROVE  v = y
  BY <1>1, <1>7 DEF CallsInv
<1>8. ASSUME NEW v \in Worker, NEW i \in DOMAIN jobq, Serving(v)', jobq[i] # Pill
      PROVE  wk'[v].j.t # jobq[i].t
  BY <1>1, <1>8 DEF CallsInv
<1>9. \A i, k \in DOMAIN jobq : jobq[i] # Pill /\ jobq[k] # Pill /\ jobq[i].t = jobq[k].t => i = k
  BY DEF CallsInv
<1>10. QED BY <1>2, <1>4, <1>5, <1>6, <1>7, <1>8, <1>9 DEF CallsInv

\* A step of the pool: nothing of the tester or of the server changes.
LEMMA PoolService ==
  ASSUME ServiceInv, \A v \in Worker : Arrives(v), CallsInv',
         granted' = granted, it' = it, mutex_' = mutex_, m' = m,
         UNCHANGED <<testVars, failed>>
  PROVE  ServiceInv'
<1>1. HandlersInv' /\ \A t : Acted(t)' <=> Acted(t)
  BY HandlersAway DEF ServiceInv
<1>2. todo' = todo /\ called' = called /\ ct' = ct /\ failed' = failed
  BY DEF testVars
<1>3. \A t : Begun(t)' = Begun(t)
  BY <1>2, BegunKept
<1>4. ScriptsInv' /\ AloneInv' /\ CountsInv'
  BY <1>2, <1>3 DEF ServiceInv, ScriptsInv, AloneInv, CountsInv
<1>5. \A t : Effective(t)' = Effective(t)
  BY <1>1, <1>2, <1>3 DEF Effective
<1>6. HoldInv'
  <2>1. \A t \in Thread, l \in Lock : Holds(t, l)' <=> Holds(t, l)
    BY <1>5 DEF Holds
  <2>2. HoldInv
    BY DEF ServiceInv
  <2>3. QED BY <2>1, <2>2 DEF HoldInv
<1>7. QED BY <1>1, <1>2, <1>4, <1>6 DEF ServiceInv

LEMMA JobPlaces ==
  ASSUME NEW q \in Seq(Job \cup {Pill}), NEW j \in Job \cup {Pill}
  PROVE  /\ Len(q) \in Nat /\ DOMAIN q = 1 .. Len(q)
         /\ DOMAIN Append(q, j) = 1 .. Len(q) + 1
         /\ \A i \in 1 .. Len(q) : Append(q, j)[i] = q[i]
         /\ Append(q, j)[Len(q) + 1] = j
OBVIOUS

\* A job more in the queue, for a thread that had none.
LEMMA EnqCalls ==
  ASSUME TypeOK, CallsInv, \A v \in Worker : Roams(v), NEW j \in Job \cup {Pill},
         jobq' = Append(jobq, j), called \subseteq called',
         \A t \in called : Begun(t)' = Begun(t),
         \A t \in called' : Begun(t)' >= 1 /\ Total(t)[Begun(t)'].op \in {"acquire", "release", "stat"},
         j # Pill => Asked(j)' /\ j.t \notin called
  PROVE  CallsInv'
<1>1. \A v \in Worker : Serving(v)' => Serving(v) /\ wk'[v] = wk[v]
  BY DEF Roams, Serving
<1>2. /\ Len(jobq) \in Nat /\ DOMAIN jobq = 1 .. Len(jobq) /\ DOMAIN jobq' = 1 .. Len(jobq) + 1
      /\ \A i \in 1 .. Len(jobq) : jobq'[i] = jobq[i]
      /\ jobq'[Len(jobq) + 1] = j
  BY JobPlaces DEF TypeOK
<1>3. \A i \in DOMAIN jobq' :
        \/ i \in DOMAIN jobq /\ jobq'[i] = jobq[i]
        \/ i = Len(jobq) + 1 /\ jobq'[i] = j
  BY <1>2
<1>4. \A i \in DOMAIN jobq : jobq[i] # Pill => jobq[i].t \in called
  BY DEF CallsInv, Asked
<1>5. \A v \in Worker : Serving(v) => wk[v].j.t \in called
  BY DEF CallsInv, Asked
<1>6. ASSUME NEW v \in Worker, Serving(v)' PROVE Asked(wk[v].j)'
  <2>1. Asked(wk[v].j) /\ wk'[v] = wk[v]
    BY <1>1, <1>6 DEF CallsInv
  <2>2. QED BY <2>1 DEF Asked
<1>7. ASSUME NEW i \in DOMAIN jobq', jobq'[i] # Pill PROVE Asked(jobq[i])'
  <2>1. CASE i \in DOMAIN jobq /\ jobq'[i] = jobq[i]
    <3>1. Asked(jobq[i])
      BY <1>7, <2>1 DEF CallsInv
    <3>2. QED BY <2>1, <3>1 DEF Asked
  <2>2. CASE jobq'[i] = j
    BY <1>7, <2>2 DEF Asked
  <2>3. QED BY <1>3, <2>1, <2>2
<1>8. ASSUME NEW v \in Worker, NEW y \in Worker, Serving(v)', Serving(y)', wk'[v].j.t = wk'[y].j.t
      PROVE  v = y
  BY <1>1, <1>8 DEF CallsInv
<1>9. ASSUME NEW v \in Worker, NEW i \in DOMAIN jobq', Serving(v)', jobq'[i] # Pill
      PROVE  wk'[v].j.t # jobq'[i].t
  <2>1. Serving(v) /\ wk'[v] = wk[v] /\ wk[v].j.t \in called
    BY <1>1, <1>5, <1>9
  <2>2. CASE i \in DOMAIN jobq /\ jobq'[i] = jobq[i]
    BY <1>9, <2>1, <2>2 DEF CallsInv
  <2>3. CASE jobq'[i] = j
    BY <1>9, <2>1, <2>3
  <2>4. QED BY <1>3, <2>2, <2>3
<1>10. ASSUME NEW i \in DOMAIN jobq', NEW k \in DOMAIN jobq', jobq'[i] # Pill, jobq'[k] # Pill,
              jobq'[i].t = jobq'[k].t
       PROVE  i = k
  <2>1. CASE i \in DOMAIN jobq /\ jobq'[i] = jobq[i]
    <3>1. k \in DOMAIN jobq /\ jobq'[k] = jobq[k]
      BY <1>3, <1>4, <1>10, <2>1
    <3>2. QED BY <1>10, <2>1, <3>1 DEF CallsInv
  <2>2. CASE i = Len(jobq) + 1 /\ jobq'[i] = j
    <3>1. k = Len(jobq) + 1
      BY <1>3, <1>4, <1>10, <2>2
    <3>2. QED BY <2>2, <3>1
  <2>3. QED BY <1>3, <2>1, <2>2
<1>11. QED BY <1>6, <1>7, <1>8, <1>9, <1>10 DEF CallsInv

\* The oldest job goes with worker w.
LEMMA DeqCalls ==
  ASSUME TypeOK, CallsInv, NEW w \in Worker, ~Serving(w), jobq # << >>, jobq' = Tail(jobq),
         UNCHANGED <<todo, called>>,
         \A v \in Worker \ {w} : wk'[v] = wk[v],
         Serving(w)' => wk'[w].j = jobq[1] /\ jobq[1] # Pill
  PROVE  CallsInv'
<1>1. /\ Len(jobq) \in Nat \ {0} /\ DOMAIN jobq = 1 .. Len(jobq) /\ 1 \in DOMAIN jobq
      /\ DOMAIN jobq' = 1 .. Len(jobq) - 1
      /\ \A i \in DOMAIN jobq' : /\ i + 1 \in DOMAIN jobq /\ i + 1 # 1
                                 /\ jobq'[i] = jobq[i + 1]
  <2>1. jobq \in Seq(Job \cup {Pill})
    BY DEF TypeOK
  <2>2. QED BY <2>1
<1>2. \A t : Begun(t)' = Begun(t)
  BY BegunKept
<1>3. \A j : Asked(j) => Asked(j)'
  BY <1>2 DEF Asked
<1>4. \A v \in Worker \ {w} : (Serving(v)' <=> Serving(v)) /\ wk'[v] = wk[v]
  BY DEF Serving
<1>5. \A t \in called' : Begun(t)' >= 1 /\ Total(t)[Begun(t)'].op \in {"acquire", "release", "stat"}
  BY <1>2 DEF CallsInv
<1>6. ASSUME NEW v \in Worker, Serving(v)' PROVE Asked(wk[v].j)'
  <2>1. CASE v = w
    <3>1. Asked(jobq[1]) /\ wk'[w].j = jobq[1]
      BY <1>1, <1>6, <2>1 DEF CallsInv
    <3>2. QED BY <1>2, <2>1, <3>1 DEF Asked
  <2>2. CASE v # w
    <3>1. Asked(wk[v].j) /\ wk'[v] = wk[v]
      BY <1>4, <1>6, <2>2 DEF CallsInv
    <3>2. QED BY <1>2, <3>1 DEF Asked
  <2>3. QED BY <2>1, <2>2
<1>7. ASSUME NEW i \in DOMAIN jobq', jobq'[i] # Pill PROVE Asked(jobq[i])'
  <2>1. Asked(jobq[i + 1]) /\ jobq'[i] = jobq[i + 1]
    BY <1>1, <1>7 DEF CallsInv
  <2>2. QED BY <1>2, <2>1 DEF Asked
<1>8. \A v \in Worker \ {w} : Serving(v)' /\ Serving(w)' => wk'[v].j.t # wk'[w].j.t
  <2> SUFFICES ASSUME NEW v \in Worker, v # w, Serving(v)', Serving(w)'
               PROVE  wk'[v].j.t # wk'[w].j.t
    OBVIOUS
  <2>1. Serving(v) /\ wk'[v] = wk[v] /\ wk'[w].j = jobq[1] /\ jobq[1] # Pill
    BY <1>4
  <2>2. QED BY <1>1, <2>1 DEF CallsInv
<1>9. ASSUME NEW v \in Worker, NEW y \in Worker, Serving(v)', Serving(y)', wk'[v].j.t = wk'[y].j.t
      PROVE  v = y
  <2>1. CASE v = w \/ y = w
    BY <1>8, <1>9, <2>1
  <2>2. CASE v # w /\ y # w
    BY <1>4, <1>9, <2>2 DEF CallsInv
  <2>3. QED BY <2>1, <2>2
<1>10. ASSUME NEW v \in Worker, NEW i \in DOMAIN jobq', Serving(v)', jobq'[i] # Pill
       PROVE  wk'[v].j.t # jobq'[i].t
  <2>1. i + 1 \in DOMAIN jobq /\ i + 1 # 1 /\ jobq'[i] = jobq[i + 1]
    BY <1>1
  <2>2. CASE v = w
    <3>1. wk'[w].j = jobq[1] /\ jobq[1] # Pill
      BY <1>10, <2>2
    <3>2. QED BY <1>1, <1>10, <2>1, <2>2, <3>1 DEF CallsInv
  <2>3. CASE v # w
    BY <1>4, <1>10, <2>1, <2>3 DEF CallsInv
  <2>4. QED BY <2>2, <2>3
<1>11. ASSUME NEW i \in DOMAIN jobq', NEW k \in DOMAIN jobq', jobq'[i] # Pill, jobq'[k] # Pill,
              jobq'[i].t = jobq'[k].t
       PROVE  i = k
  <2>1. i + 1 \in DOMAIN jobq /\ k + 1 \in DOMAIN jobq
        /\ jobq'[i] = jobq[i + 1] /\ jobq'[k] = jobq[k + 1]
    BY <1>1
  <2>2. i + 1 = k + 1
    BY <1>11, <2>1 DEF CallsInv
  <2>3. QED BY <1>1, <2>2
<1>12. QED BY <1>5, <1>6, <1>7, <1>9, <1>10, <1>11 DEF CallsInv

LEMMA DeqService ==
  ASSUME Inv, ServiceInv, NEW w \in Worker, deq(w)
  PROVE  ServiceInv'
<1>1. /\ wk[w].pc = "deq" /\ ~Serving(w) /\ wk \in [Worker -> Working] /\ TypeOK /\ CallsInv
      /\ granted' = granted /\ it' = it /\ mutex_' = mutex_ /\ m' = m
      /\ UNCHANGED <<testVars, failed>> /\ UNCHANGED <<todo, called>>
  BY ServerHas DEF deq, Serving, serverVars, testVars, Inv, ServiceInv
<1>2. CASE jobq = << >>
  <2>1. wk' = [wk EXCEPT ![w].pc = "asleep"] /\ UNCHANGED jobq
    BY <1>2 DEF deq
  <2>2. wk'[w].pc = "asleep" /\ \A v \in Worker \ {w} : wk'[v] = wk[v]
    BY <1>1, <2>1 DEF Working
  <2>3. \A v \in Worker : Roams(v)
    BY <1>1, <2>2 DEF Roams, Serving
  <2>4. CallsInv'
    BY <1>1, <2>1, <2>3, CallsAway
  <2>5. QED BY <1>1, <2>3, <2>4, PoolService DEF Arrives
<1>3. CASE jobq # << >>
  <2>0. PICK j : j = Head(jobq)
    OBVIOUS
  <2> DEFINE r == [pc |-> Starts(j), j |-> j, x |-> NULL]
  <2>1. /\ j \in Job \cup {Pill} /\ j = jobq[1] /\ jobq' = Tail(jobq)
        /\ wk' = [wk EXCEPT ![w] = r]
    BY <1>1, <1>3, <2>0 DEF deq, TypeOK
  <2>2. /\ j = Pill => Starts(j) = "exited"
        /\ j # Pill => Starts(j) = j.op /\ j.op \in {"acquire", "release", "stat"}
    BY <2>1 DEF Starts, Job
  <2>3. r.pc = Starts(j) /\ r.j = j
    OBVIOUS
  <2> HIDE DEF r
  <2>4. wk'[w] = r /\ \A v \in Worker \ {w} : wk'[v] = wk[v]
    BY <1>1, <2>1
  <2>5. Serving(w)' => wk'[w].j = j /\ j # Pill
    BY <2>2, <2>3, <2>4 DEF Serving
  <2>6. Arrives(w)
    BY <1>1, <2>2, <2>3, <2>4 DEF Arrives, Roams, Serving
  <2>7. \A v \in Worker : Arrives(v)
    BY <2>4, <2>6 DEF Arrives, Roams
  <2>8. CallsInv'
    BY <1>1, <1>3, <2>1, <2>4, <2>5, DeqCalls
  <2>9. QED BY <1>1, <2>7, <2>8, PoolService
<1>4. QED BY <1>2, <1>3

LEMMA EnqRoams ==
  ASSUME TypeOK, NEW j, enq(j)
  PROVE  \A v \in Worker : Roams(v)
<1>1. wk \in [Worker -> Working]
  BY ServerHas
<1>2. CASE UNCHANGED wk
  BY <1>2 DEF Roams
<1>3. CASE \E w \in Worker : wk[w].pc = "asleep" /\ wk' = [wk EXCEPT ![w].pc = "deq"]
  <2>1. PICK w \in Worker : wk[w].pc = "asleep" /\ wk' = [wk EXCEPT ![w].pc = "deq"]
    BY <1>3
  <2>2. wk'[w].pc = "deq" /\ \A v \in Worker \ {w} : wk'[v] = wk[v]
    BY <1>1, <2>1 DEF Working
  <2>3. QED BY <2>1, <2>2 DEF Roams, Serving
<1>4. QED BY <1>2, <1>3 DEF enq

LEMMA PoolKeepsService ==
  ASSUME Inv, ServiceInv, Shutdown \/ PushPill \/ Join
  PROVE  ServiceInv'
<1>1. TypeOK /\ CallsInv /\ granted' = granted /\ it' = it /\ mutex_' = mutex_ /\ m' = m
      /\ UNCHANGED <<testVars, failed>> /\ UNCHANGED <<todo, called>>
  BY DEF Shutdown, PushPill, Join, serverVars, testVars, Inv, ServiceInv
<1>2. CASE UNCHANGED <<jobq, wk>>
  <2>1. \A v \in Worker : Roams(v)
    BY <1>2 DEF Roams
  <2>2. CallsInv'
    BY <1>1, <1>2, <2>1, CallsAway
  <2>3. QED BY <1>1, <2>1, <2>2, PoolService DEF Arrives
<1>3. CASE enq(Pill)
  <2>1. \A v \in Worker : Roams(v)
    BY <1>1, <1>3, EnqRoams
  <2>2. jobq' = Append(jobq, Pill) /\ called \subseteq called' /\ \A t : Begun(t)' = Begun(t)
    BY <1>1, <1>3, BegunKept DEF enq
  <2>3. \A t \in called' : Begun(t)' >= 1 /\ Total(t)[Begun(t)'].op \in {"acquire", "release", "stat"}
    BY <1>1, <2>2 DEF CallsInv
  <2>4. CallsInv'
    BY <1>1, <2>1, <2>2, <2>3, EnqCalls
  <2>5. QED BY <1>1, <2>1, <2>4, PoolService DEF Arrives
<1>4. QED BY <1>2, <1>3 DEF Shutdown, PushPill, Join

\* A thread is one operation further.
LEMMA NextOperation ==
  ASSUME TypeOK, ScriptsInv, NEW t \in Thread, todo[t] # << >>,
         todo' = [todo EXCEPT ![t] = Tail(@)]
  PROVE  /\ Begun(t)' = Begun(t) + 1 /\ \A u \in Thread \ {t} : Begun(u)' = Begun(u)
         /\ ScriptsInv'
<1>1. /\ todo \in [Thread -> Seq(Op)] /\ todo[t] \in Seq(Op) /\ Len(todo[t]) \in Nat \ {0}
      /\ Len(Total(t)) \in Nat
  <2>1. todo \in [Thread -> Seq(Op)]
    BY DEF TypeOK
  <2>2. QED BY <2>1, ScriptTypes
<1>2. /\ todo'[t] = Tail(todo[t]) /\ Len(todo'[t]) = Len(todo[t]) - 1
      /\ \A i \in 1 .. Len(todo'[t]) : todo'[t][i] = todo[t][i + 1]
      /\ \A u \in Thread \ {t} : todo'[u] = todo[u]
  BY <1>1
<1>3. Begun(t)' = Begun(t) + 1
  BY <1>1, <1>2 DEF Begun
<1>4. \A u \in Thread \ {t} : Begun(u)' = Begun(u)
  BY <1>2 DEF Begun
<1>5. ASSUME NEW u \in Thread
      PROVE  /\ Len(todo'[u]) <= Len(Total(u))
             /\ \A i \in 1 .. Len(todo'[u]) : todo'[u][i] = Total(u)[Begun(u)' + i]
  <2>1. CASE u # t
    BY <1>2, <1>4, <2>1 DEF ScriptsInv
  <2>2. CASE u = t
    <3>1. Len(todo'[t]) <= Len(Total(t))
      BY <1>1, <1>2 DEF ScriptsInv
    <3>2. ASSUME NEW i \in 1 .. Len(todo'[t]) PROVE todo'[t][i] = Total(t)[Begun(t)' + i]
      <4>1. i + 1 \in 1 .. Len(todo[t]) /\ todo'[t][i] = todo[t][i + 1]
        BY <1>1, <1>2, <3>2
      <4>2. todo[t][i + 1] = Total(t)[Begun(t) + (i + 1)]
        BY <4>1 DEF ScriptsInv
      <4>3. Begun(t) + (i + 1) = Begun(t)' + i
        <5>1. Begun(t) \in Int
          BY <1>1 DEF Begun
        <5>2. QED BY <1>1, <1>2, <1>3, <5>1
      <4>4. QED BY <4>1, <4>2, <4>3
    <3>3. QED BY <2>2, <3>1, <3>2
  <2>3. QED BY <2>1, <2>2
<1>6. ScriptsInv'
  BY <1>5 DEF ScriptsInv
<1>7. QED BY <1>3, <1>4, <1>6

LEMMA AloneStep ==
  ASSUME TypeOK, ScriptsInv, AloneInv, NEW t \in Thread, Begun(t)' = Begun(t) + 1,
         \A u \in Thread \ {t} : Begun(u)' = Begun(u), called' \subseteq called \cup {t},
         t # Leader => ~Alone(Leader, Begun(Leader))
  PROVE  AloneInv'
<1>1. Leader \in Thread /\ Begun(Leader) \in Nat /\ Len(Prologue) \in Nat
  BY BegunTypes, ScriptTypes
<1>2. CASE t = Leader
  <2>1. Alone(Leader, Begun(Leader)') => Alone(Leader, Begun(Leader))
    BY <1>1, <1>2 DEF Alone
  <2>2. QED BY <1>2, <2>1 DEF AloneInv
<1>3. CASE t # Leader
  <2>1. Begun(Leader)' = Begun(Leader)
    BY <1>1, <1>3
  <2>2. QED BY <1>3, <2>1 DEF AloneInv
<1>4. QED BY <1>2, <1>3

\* Who counts as a holder has the lock, but for the leader in its prologue.
LEMMA CountingHolds ==
  ASSUME Proper, TypeOK, ScriptsInv, CallsInv, NEW t \in Thread, NEW l \in Lock,
         Counted(t, Begun(t), l)
  PROVE  Holds(t, l) \/ Alone(t, Begun(t))
<1>1. Begun(t) \in 0 .. Len(Total(t)) /\ Len(Total(t)) \in Nat
  BY BegunTypes, ScriptTypes
<1>2. CASE Effective(t) = Begun(t)
  <2>1. Held(t, Begun(t), l) \/ Alone(t, Begun(t))
    BY <1>1 DEF Proper
  <2>2. QED BY <1>2, <2>1 DEF Holds
<1>3. CASE Effective(t) # Begun(t)
  <2>1. t \in called /\ Effective(t) = Begun(t) - 1
    BY <1>3 DEF Effective
  <2>2. Begun(t) >= 1 /\ Total(t)[Begun(t)].op \in {"acquire", "release", "stat"}
    BY <2>1 DEF CallsInv
  <2>3. Begun(t) - 1 \in 0 .. Len(Total(t)) /\ Begun(t) \in Nat \ {0}
    BY <1>1, <2>2
  <2>4. Counted(t, Begun(t) - 1, l)
    <3>1. Total(t)[Begun(t)]
            \notin {[op |-> "check_grant", l |-> l], [op |-> "check_release", l |-> l]}
      BY <2>2
    <3>2. QED BY <2>3, <3>1, CountedStep
  <2>5. Held(t, Begun(t) - 1, l) \/ Alone(t, Begun(t) - 1)
    BY <2>3, <2>4 DEF Proper
  <2>6. Alone(t, Begun(t) - 1) => Alone(t, Begun(t))
    <3>1. Alone(t, Begun(t) - 1) => Prior(t, Begun(t))
      BY <2>3, ScriptTypes DEF Alone, Prior
    <3>2. QED BY <2>1, <3>1, PrologueAnswered
  <2>7. QED BY <2>1, <2>5, <2>6 DEF Holds
<1>4. QED BY <1>2, <1>3

\* At most one thread counts itself a holder of l.
LEMMA OneCounts ==
  ASSUME Proper, TypeOK, ScriptsInv, AloneInv, CallsInv, HoldInv,
         NEW t \in Thread, NEW u \in Thread, NEW l \in Lock,
         Counted(u, Begun(u), l),
         Counted(t, Begun(t), l) \/ (Held(t, Begun(t), l) /\ t \notin called)
  PROVE  u = t
<1> SUFFICES ASSUME u # t PROVE FALSE
  OBVIOUS
<1>1. Holds(u, l) \/ Alone(u, Begun(u))
  BY CountingHolds
<1>2. Begun(t) # 0 /\ Begun(u) # 0
  BY NothingYet
<1>3. ~Alone(u, Begun(u)) /\ ~Alone(t, Begun(t))
  BY <1>2 DEF Alone, AloneInv
<1>4. Holds(t, l)
  <2>1. CASE Counted(t, Begun(t), l)
    BY <1>3, <2>1, CountingHolds
  <2>2. CASE Held(t, Begun(t), l) /\ t \notin called
    BY <2>2 DEF Holds, Effective
  <2>3. QED BY <2>1, <2>2
<1>5. QED BY <1>1, <1>3, <1>4 DEF HoldInv

LEMMA ActedCalled ==
  ASSUME CallsInv, NEW t, Acted(t)
  PROVE  t \in called
BY DEF Acted, CallsInv, Serving, Asked

\* A thread's next operation, where the handlers do nothing and neither its
\* kind nor its waiting for an answer changes what threads hold.
LEMMA HoldsOn ==
  ASSUME HoldInv, CallsInv, NEW t \in Thread, t \notin called,
         \A u : Acted(u)' <=> Acted(u), granted' = granted,
         called' \in {called, called \cup {t}},
         Begun(t)' = Begun(t) + 1, Begun(t) \in Nat,
         \A u \in Thread \ {t} : Begun(u)' = Begun(u),
         t \notin called' => \A l \in Lock : Held(t, Begun(t) + 1, l) <=> Held(t, Begun(t), l)
  PROVE  HoldInv'
<1>1. ASSUME NEW u \in Thread, NEW l \in Lock PROVE Holds(u, l)' <=> Holds(u, l)
  <2>1. CASE u # t
    <3>1. Effective(u)' = Effective(u)
      <4>1. (u \in called' <=> u \in called) /\ Begun(u)' = Begun(u) /\ (Acted(u)' <=> Acted(u))
        BY <2>1
      <4>2. QED BY <4>1 DEF Effective
    <3>2. QED BY <3>1 DEF Holds
  <2>2. CASE u = t /\ t \in called'
    <3>1. ~Acted(t)
      BY ActedCalled
    <3>2. Effective(t)' = Begun(t) /\ Effective(t) = Begun(t)
      BY <2>2, <3>1 DEF Effective
    <3>3. QED BY <2>2, <3>2 DEF Holds
  <2>3. CASE u = t /\ t \notin called'
    <3>1. Effective(t)' = Begun(t) + 1 /\ Effective(t) = Begun(t)
      BY <2>3 DEF Effective
    <3>2. QED BY <2>3, <3>1 DEF Holds
  <2>4. QED BY <2>1, <2>2, <2>3
<1>2. QED BY <1>1 DEF HoldInv

\* lock_client: a call begins, which counts for nothing yet.
LEMMA CallService ==
  ASSUME Proper, Inv, ServiceInv, NEW t \in Thread, Call(t)
  PROVE  ServiceInv'
<1>0. PICK o, j : o = Head(todo[t]) /\ j = [op |-> o.op, l |-> o.l, t |-> t]
  OBVIOUS
<1>1. /\ t \notin called /\ todo[t] # << >> /\ Turn(t)
      /\ o.op \in {"acquire", "release", "stat"} /\ enq(j)
      /\ called' = called \cup {t} /\ todo' = [todo EXCEPT ![t] = Tail(@)]
      /\ granted' = granted /\ it' = it /\ mutex_' = mutex_ /\ m' = m
      /\ ct' = ct /\ failed' = failed
  BY <1>0 DEF Call, serverVars
<1>2. /\ TypeOK /\ ~failed /\ ScriptsInv /\ AloneInv /\ CallsInv /\ HoldInv /\ CountsInv
      /\ HandlersInv
  BY DEF Inv, ServiceInv
<1>3. /\ Begun(t) \in Nat /\ Begun(t) + 1 \in 1 .. Len(Total(t))
      /\ o = Total(t)[Begun(t) + 1] /\ o \in Op
  BY <1>0, <1>1, <1>2, BegunTypes
<1>4. /\ Begun(t)' = Begun(t) + 1 /\ \A u \in Thread \ {t} : Begun(u)' = Begun(u)
      /\ ScriptsInv'
  BY <1>1, <1>2, NextOperation
<1>5. j \in Job
  BY <1>0, <1>1, <1>3 DEF Job, Op
<1>6. \A v \in Worker : Roams(v)
  BY <1>1, <1>2, EnqRoams
<1>7. HandlersInv' /\ \A u : Acted(u)' <=> Acted(u)
  BY <1>1, <1>2, <1>6, HandlersAway DEF Arrives
<1>8. AloneInv'
  <2>1. t # Leader => ~Alone(Leader, Begun(Leader))
    <3>1. Leader \in Thread /\ Len(todo[Leader]) \in Nat /\ Len(Script[Leader]) \in Nat
      BY <1>2, BegunTypes
    <3>2. Len(Total(Leader)) = Len(Prologue) + Len(Script[Leader]) /\ Len(Prologue) \in Nat
      BY <3>1, ScriptTypes
    <3>3. t # Leader => Len(todo[Leader]) <= Len(Script[Leader])
      BY <1>1 DEF Turn
    <3>4. t # Leader => Begun(Leader) >= Len(Prologue)
      BY <3>1, <3>2, <3>3 DEF Begun
    <3>5. QED BY <1>2, <3>1, <3>2, <3>4, BegunTypes DEF Alone
  <2>2. QED BY <1>1, <1>2, <1>4, <2>1, AloneStep
<1>9. CallsInv'
  <2>1. jobq' = Append(jobq, j) /\ j \in Job \cup {Pill} /\ called \subseteq called'
    BY <1>1, <1>5 DEF enq
  <2>2. \A u \in called : Begun(u)' = Begun(u)
    BY <1>1, <1>2, <1>4 DEF TypeOK
  <2>3. ASSUME NEW u \in called'
        PROVE  Begun(u)' >= 1 /\ Total(u)[Begun(u)'].op \in {"acquire", "release", "stat"}
    <3>1. CASE u = t
      BY <1>1, <1>3, <1>4, <3>1
    <3>2. CASE u \in called
      BY <1>2, <2>2, <3>2 DEF CallsInv
    <3>3. QED BY <1>1, <3>1, <3>2
  <2>4. Asked(j)' /\ j.t \notin called
    BY <1>0, <1>1, <1>3, <1>4 DEF Asked, Op
  <2>5. QED BY <1>2, <1>6, <2>1, <2>2, <2>3, <2>4, EnqCalls
<1>10. HoldInv'
  BY <1>1, <1>2, <1>3, <1>4, <1>7, HoldsOn
<1>11. CountsInv'
  <2>1. \A l \in Lock : Counted(t, Begun(t) + 1, l) <=> Counted(t, Begun(t), l)
    <3> SUFFICES ASSUME NEW l \in Lock
                 PROVE  Counted(t, Begun(t) + 1, l) <=> Counted(t, Begun(t), l)
      OBVIOUS
    <3>1. Total(t)[Begun(t) + 1]
            \notin {[op |-> "check_grant", l |-> l], [op |-> "check_release", l |-> l]}
      BY <1>1, <1>3
    <3>2. PICK i : i = Begun(t) + 1
      OBVIOUS
    <3>3. i \in Nat \ {0} /\ i - 1 = Begun(t)
      BY <1>3, <3>2
    <3>4. Counted(t, i, l) <=> Counted(t, i - 1, l)
      BY <3>1, <3>2, <3>3, CountedStep
    <3>5. QED BY <3>2, <3>3, <3>4
  <2>2. \A u \in Thread, l \in Lock : Counted(u, Begun(u)', l) <=> Counted(u, Begun(u), l)
    <3> SUFFICES ASSUME NEW u \in Thread, NEW l \in Lock
                 PROVE  Counted(u, Begun(u)', l) <=> Counted(u, Begun(u), l)
      OBVIOUS
    <3>1. CASE u = t
      BY <1>4, <2>1, <3>1
    <3>2. CASE u # t
      BY <1>4, <3>2
    <3>3. QED BY <3>1, <3>2
  <2>3. QED BY <1>1, <1>2, <2>2 DEF CountsInv
<1>12. QED BY <1>1, <1>2, <1>4, <1>7, <1>8, <1>9, <1>10, <1>11 DEF ServiceInv

\* check_grant and check_release: the count is as the thread expects it.
LEMMA CheckCounts ==
  ASSUME Proper, Inv, ServiceInv, NEW t \in Thread, check(t),
         Begun(t)' = Begun(t) + 1, \A u \in Thread \ {t} : Begun(u)' = Begun(u)
  PROVE  failed' = FALSE /\ CountsInv'
<1>0. PICK o, l, i : o = Head(todo[t]) /\ l = o.l /\ i = Begun(t) + 1
  OBVIOUS
<1>1. /\ TypeOK /\ ScriptsInv /\ AloneInv /\ CallsInv /\ HoldInv /\ CountsInv
      /\ ct \in [Lock -> {0, 1}]
  BY DEF Inv, TypeOK, ServiceInv
<1>2. /\ t \notin called /\ todo[t] # << >>
      /\ \/ /\ o.op = "check_grant" /\ failed' = (ct[l] # 0)
            /\ ct' = [ct EXCEPT ![l] = 1]
         \/ /\ o.op = "check_release" /\ failed' = (ct[l] # 1)
            /\ ct' = [ct EXCEPT ![l] = 0]
  BY <1>0 DEF check
<1>3. /\ i \in Nat \ {0} /\ i - 1 = Begun(t) /\ Begun(t)' = i
      /\ i \in 1 .. Len(Total(t)) /\ o = Total(t)[i] /\ o \in Op /\ l \in Lock
      /\ o = [op |-> o.op, l |-> l]
  <2>1. Begun(t) \in 0 .. Len(Total(t)) /\ i \in 1 .. Len(Total(t))
        /\ o = Total(t)[i] /\ o \in Op
    BY <1>0, <1>1, <1>2, BegunTypes
  <2>2. l \in Lock /\ o = [op |-> o.op, l |-> l]
    BY <1>0, <2>1 DEF Op
  <2>3. QED BY <1>0, <2>1, <2>2
<1>4. InTurn(t, i)
  BY <1>3 DEF Proper
<1>5. \A k \in Lock \ {l} : Counted(t, i, k) <=> Counted(t, i - 1, k)
  <2> SUFFICES ASSUME NEW k \in Lock, k # l PROVE Counted(t, i, k) <=> Counted(t, i - 1, k)
    OBVIOUS
  <2>1. Total(t)[i] \notin {[op |-> "check_grant", l |-> k], [op |-> "check_release", l |-> k]}
    BY <1>3
  <2>2. QED BY <1>3, <2>1, CountedStep
<1>6. ct' \in [Lock -> {0, 1}] /\ \A k \in Lock \ {l} : ct'[k] = ct[k]
  BY <1>1, <1>2
<1>7. \A k \in Lock \ {l} : ct'[k] = 1 <=> \E u \in Thread : Counted(u, Begun(u)', k)
  <2> SUFFICES ASSUME NEW k \in Lock, k # l
               PROVE  ct'[k] = 1 <=> \E u \in Thread : Counted(u, Begun(u)', k)
    OBVIOUS
  <2>1. \A u \in Thread : Counted(u, Begun(u)', k) <=> Counted(u, Begun(u), k)
    <3> SUFFICES ASSUME NEW u \in Thread
                 PROVE  Counted(u, Begun(u)', k) <=> Counted(u, Begun(u), k)
      OBVIOUS
    <3>1. CASE u = t
      BY <1>3, <1>5, <3>1
    <3>2. CASE u # t
      <4>1. Begun(u)' = Begun(u)
        BY <3>2
      <4>2. QED BY <4>1
    <3>3. QED BY <3>1, <3>2
  <2>2. ct[k] = 1 <=> \E u \in Thread : Counted(u, Begun(u), k)
    BY <1>1 DEF CountsInv
  <2>3. QED BY <1>6, <2>1, <2>2
<1>8. CASE o.op = "check_grant"
  <2>1. Held(t, Begun(t), l) /\ ~Counted(t, Begun(t), l)
    BY <1>3, <1>4, <1>8 DEF InTurn
  <2>2. \A u \in Thread : ~Counted(u, Begun(u), l)
    BY <1>1, <1>2, <1>3, <2>1, OneCounts
  <2>3. ct[l] # 1
    BY <1>1, <1>3, <2>2 DEF CountsInv
  <2>4. failed' = FALSE /\ ct'[l] = 1
    BY <1>1, <1>2, <1>3, <1>8, <2>3
  <2>5. Counted(t, Begun(t)', l)
    BY <1>3, <1>8, CountedStep
  <2>6. QED BY <1>3, <1>7, <2>4, <2>5 DEF CountsInv
<1>9. CASE o.op = "check_release"
  <2>1. Counted(t, Begun(t), l)
    BY <1>3, <1>4, <1>9 DEF InTurn
  <2>2. ct[l] = 1
    BY <1>1, <1>3, <2>1 DEF CountsInv
  <2>3. failed' = FALSE /\ ct'[l] = 0
    BY <1>1, <1>2, <1>3, <1>9, <2>2
  <2>4. ASSUME NEW u \in Thread PROVE ~Counted(u, Begun(u)', l)
    <3>1. CASE u = t
      <4>1. Total(t)[i] = [op |-> "check_release", l |-> l]
        BY <1>3, <1>9
      <4>2. ~Counted(t, i, l)
        BY <1>3, <4>1, CountedStep
      <4>3. QED BY <1>3, <3>1, <4>2
    <3>2. CASE u # t
      <4>1. ~Counted(u, Begun(u), l)
        BY <1>1, <1>3, <2>1, <3>2, OneCounts
      <4>2. Begun(u)' = Begun(u)
        BY <3>2
      <4>3. QED BY <4>1, <4>2
    <3>3. QED BY <3>1, <3>2
  <2>5. QED BY <1>3, <1>7, <2>3, <2>4 DEF CountsInv
<1>10. QED BY <1>2, <1>8, <1>9

LEMMA CheckService ==
  ASSUME Proper, Inv, ServiceInv, NEW t \in Thread, check(t)
  PROVE  ServiceInv'
<1>1. /\ t \notin called /\ todo[t] # << >> /\ todo' = [todo EXCEPT ![t] = Tail(@)]
      /\ Head(todo[t]).op \in {"check_grant", "check_release"}
      /\ granted' = granted /\ it' = it /\ mutex_' = mutex_ /\ m' = m
      /\ jobq' = jobq /\ wk' = wk /\ called' = called
  BY DEF check, serverVars, queueVars
<1>2. TypeOK /\ ScriptsInv /\ AloneInv /\ CallsInv /\ HoldInv /\ HandlersInv
  BY DEF Inv, ServiceInv
<1>3. /\ Begun(t) \in Nat /\ Begun(t) + 1 \in 1 .. Len(Total(t))
      /\ Head(todo[t]) = Total(t)[Begun(t) + 1]
  BY <1>1, <1>2, BegunTypes
<1>4. /\ Begun(t)' = Begun(t) + 1 /\ \A u \in Thread \ {t} : Begun(u)' = Begun(u)
      /\ ScriptsInv'
  BY <1>1, <1>2, NextOperation
<1>5. failed' = FALSE /\ CountsInv'
  BY <1>4, CheckCounts
<1>6. HandlersInv' /\ \A u : Acted(u)' <=> Acted(u)
  BY <1>1, <1>2, HandlersAway DEF Arrives, Roams
<1>7. AloneInv'
  <2>1. ASSUME t # Leader PROVE ~Alone(Leader, Begun(Leader))
    <3>1. InTurn(t, Begun(t) + 1)
      BY <1>3 DEF Proper
    <3>2. PICK i, l : i = (Begun(t) + 1) - 1 /\ l = Total(t)[Begun(t) + 1].l
      OBVIOUS
    <3>3. i = Begun(t) /\ (Held(t, i, l) \/ Counted(t, i, l))
      BY <1>1, <1>3, <3>1, <3>2 DEF InTurn
    <3>4. i # 0
      BY <3>3 DEF Held, Counted
    <3>5. QED BY <2>1, <3>3, <3>4 DEF Alone, AloneInv, ServiceInv
  <2>2. QED BY <1>1, <1>2, <1>4, <2>1, AloneStep
<1>8. HoldInv'
  <2>1. ASSUME NEW l \in Lock PROVE Held(t, Begun(t) + 1, l) <=> Held(t, Begun(t), l)
    <3>1. PICK i : i = Begun(t) + 1
      OBVIOUS
    <3>2. i \in Nat \ {0} /\ i - 1 = Begun(t) /\ Total(t)[i].op \in {"check_grant", "check_release"}
      BY <1>1, <1>3, <3>1
    <3>3. Total(t)[i] \notin {[op |-> "acquire", l |-> l], [op |-> "release", l |-> l]}
      BY <3>2
    <3>4. Held(t, i, l) <=> Held(t, i - 1, l)
      BY <3>2, <3>3, HeldStep
    <3>5. QED BY <3>1, <3>2, <3>4
  <2>2. QED BY <1>1, <1>2, <1>3, <1>4, <1>6, <2>1, HoldsOn
<1>9. CallsInv'
  <2>1. \A u \in called : Begun(u)' = Begun(u)
    BY <1>1, <1>2, <1>4 DEF TypeOK
  <2>2. \A u \in called' : Begun(u)' >= 1 /\ Total(u)[Begun(u)'].op \in {"acquire", "release", "stat"}
    BY <1>1, <1>2, <2>1 DEF CallsInv
  <2>3. \A j : Asked(j) => Asked(j)'
    BY <1>1, <2>1 DEF Asked
  <2>4. \A v \in Worker : Serving(v)' = Serving(v)
    BY <1>1 DEF Serving
  <2>5. ASSUME NEW v \in Worker, Serving(v)' PROVE Asked(wk[v].j)'
    <3>1. Asked(wk[v].j)
      BY <1>2, <2>4, <2>5 DEF CallsInv
    <3>2. QED BY <1>1, <2>1, <3>1 DEF Asked
  <2>6. ASSUME NEW i \in DOMAIN jobq, jobq[i] # Pill PROVE Asked(jobq[i])'
    <3>1. Asked(jobq[i])
      BY <1>2, <2>6 DEF CallsInv
    <3>2. QED BY <1>1, <2>1, <3>1 DEF Asked
  <2>7. ASSUME NEW v \in Worker, NEW y \in Worker, Serving(v)', Serving(y)', wk'[v].j.t = wk'[y].j.t
        PROVE  v = y
    BY <1>1, <1>2, <2>4, <2>7 DEF CallsInv
  <2>8. ASSUME NEW v \in Worker, NEW i \in DOMAIN jobq, Serving(v)', jobq[i] # Pill
        PROVE  wk'[v].j.t # jobq[i].t
    BY <1>1, <1>2, <2>4, <2>8 DEF CallsInv
  <2>9. \A i, k \in DOMAIN jobq : jobq[i] # Pill /\ jobq[k] # Pill /\ jobq[i].t = jobq[k].t => i = k
    BY <1>2 DEF CallsInv
  <2>10. QED BY <1>1, <2>2, <2>5, <2>6, <2>7, <2>8, <2>9 DEF CallsInv
<1>10. QED BY <1>4, <1>5, <1>6, <1>7, <1>8, <1>9 DEF ServiceInv
-----------------------------------------------------------------------------
(* The tester's checks                                                     *)

LEMMA InitService == Init => ServiceInv
<1> SUFFICES ASSUME Init PROVE ServiceInv
  OBVIOUS
<1>1. /\ \A t \in Thread : todo[t] = Total(t)
      /\ called = {} /\ failed = FALSE /\ jobq = << >> /\ ct = [l \in Lock |-> 0]
      /\ mutex_ = NULL /\ \A w \in Worker : wk[w].pc = "deq"
  BY DEF Init, Total
<1>2. \A t \in Thread : Len(todo[t]) = Len(Total(t)) /\ Len(Total(t)) \in Nat
  BY <1>1, ScriptTypes
<1>3. \A t \in Thread : Begun(t) = 0
  BY <1>2 DEF Begun
<1>4. \A t \in Thread, l \in Lock : ~Counted(t, Begun(t), l) /\ ~Holds(t, l)
  <2> SUFFICES ASSUME NEW t \in Thread, NEW l \in Lock
               PROVE  ~Counted(t, Begun(t), l) /\ ~Holds(t, l)
    OBVIOUS
  <2>1. Effective(t) = 0
    BY <1>1, <1>3 DEF Effective
  <2>2. QED BY <1>3, <2>1, NothingYet DEF Holds
<1>5. ScriptsInv
  <2> SUFFICES ASSUME NEW t \in Thread, NEW i \in 1 .. Len(todo[t])
               PROVE  todo[t][i] = Total(t)[Begun(t) + i]
    BY <1>2 DEF ScriptsInv
  <2>1. i \in Nat /\ Begun(t) + i = i
    BY <1>2, <1>3
  <2>2. QED BY <1>1, <2>1
<1>6. AloneInv
  BY <1>1, <1>3 DEF AloneInv
<1>7. CallsInv
  BY <1>1 DEF CallsInv, Serving
<1>8. HoldInv /\ CountsInv
  BY <1>1, <1>4 DEF HoldInv, CountsInv
<1>9. HandlersInv
  BY <1>1 DEF HandlersInv, HandlerOK, AcquirePC, ReleasePC, Using, Inside
<1>10. QED BY <1>1, <1>5, <1>6, <1>7, <1>8, <1>9 DEF ServiceInv

LEMMA ServiceKept ==
  ASSUME ServiceInv, UNCHANGED vars
  PROVE  ServiceInv'
<1>1. /\ granted' = granted /\ it' = it /\ mutex_' = mutex_ /\ m' = m /\ wk' = wk
      /\ UNCHANGED <<testVars, failed>> /\ UNCHANGED <<jobq, todo, called>>
  BY DEF vars, serverVars, queueVars, testVars
<1>2. \A v \in Worker : Roams(v)
  BY <1>1 DEF Roams
<1>3. CallsInv'
  BY <1>1, <1>2, CallsAway DEF ServiceInv
<1>4. QED BY <1>1, <1>2, <1>3, PoolService DEF Arrives

LEMMA ServiceNext ==
  ASSUME Proper, Inv, ServiceInv, [Next]_vars
  PROVE  ServiceInv'
<1>1. CASE UNCHANGED vars
  BY <1>1, ServiceKept
<1>2. CASE Next
  <2>1. ASSUME NEW w \in Worker, Serve(w) PROVE ServiceInv'
    BY <2>1, AcquireService, FoundService, PickMutexService, LockMutexService, TestService,
       WaitService, GrantService, UnlockService, ReleaseService, SignalService, StatService,
       ReplyService DEF Serve
  <2>2. ASSUME NEW w \in Worker, deq(w) PROVE ServiceInv'
    BY <2>2, DeqService
  <2>3. ASSUME NEW t \in Thread, Call(t) \/ check(t) PROVE ServiceInv'
    BY <2>3, CallService, CheckService
  <2>4. CASE Shutdown \/ PushPill \/ Join
    BY <2>4, PoolKeepsService
  <2>5. QED BY <1>2, <2>1, <2>2, <2>3, <2>4 DEF Next
<1>3. QED BY <1>1, <1>2

\* For scripts that after the prologue use one lock only, and take and count it
\* as the tester does, no check fails.  The server does not hold its clients to
\* that: with two locks in use at a time the iterator that all handlers share is
\* moved from one lock to the other, and ChecksPass can fail.
LEMMA ProperChecksPass ==
  ASSUME Proper
  PROVE  Spec => []ChecksPass
<1>1. Init => Inv /\ ServiceInv
  BY InitInv, InitService
<1>2. Inv /\ ServiceInv /\ [Next]_vars => (Inv /\ ServiceInv)'
  BY InvStep, ServiceNext
<1>3. Inv /\ ServiceInv => ChecksPass
  BY DEF ServiceInv, ChecksPass
<1>4. QED BY <1>1, <1>2, <1>3, PTL DEF Spec
-----------------------------------------------------------------------------
(***************************************************************************)
(* The tester's own scripts.                                               *)
(***************************************************************************)

At4(t, n, l, p1, p2, p3, p4) ==
    /\ Total(t)[n + 1] = [op |-> p1, l |-> l] /\ Total(t)[n + 2] = [op |-> p2, l |-> l]
    /\ Total(t)[n + 3] = [op |-> p3, l |-> l] /\ Total(t)[n + 4] = [op |-> p4, l |-> l]

\* Behind n operations t holds no lock and counts for none.
Clear(t, n) == \A l \in Lock : ~Held(t, n, l) /\ ~Counted(t, n, l)

\* A thread's count and holding of one lock are not touched by an operation on
\* another.
LEMMA Elsewhere ==
  ASSUME NEW t \in Thread, NEW n \in Nat, NEW l \in Lock, Total(t)[n + 1].l # l
  PROVE  (Held(t, n + 1, l) <=> Held(t, n, l)) /\ (Counted(t, n + 1, l) <=> Counted(t, n, l))
<1>1. PICK i : i = n + 1
  OBVIOUS
<1>2. i \in Nat \ {0} /\ i - 1 = n /\ Total(t)[i].l # l
  BY <1>1
<1>3. Held(t, i, l) <=> Held(t, i - 1, l)
  <2>1. Total(t)[i] \notin {[op |-> "acquire", l |-> l], [op |-> "release", l |-> l]}
    BY <1>2
  <2>2. QED BY <1>2, <2>1, HeldStep
<1>4. Counted(t, i, l) <=> Counted(t, i - 1, l)
  <2>1. Total(t)[i] \notin {[op |-> "check_grant", l |-> l], [op |-> "check_release", l |-> l]}
    BY <1>2
  <2>2. QED BY <1>2, <2>1, CountedStep
<1>5. QED BY <1>1, <1>2, <1>3, <1>4

\* What an operation on l does to the thread's count and holding of l.
LEMMA Here ==
  ASSUME NEW t \in Thread, NEW n \in Nat, NEW l \in Lock, NEW p,
         Total(t)[n + 1] = [op |-> p, l |-> l]
  PROVE  /\ p = "acquire" => Held(t, n + 1, l)
         /\ p = "release" => ~Held(t, n + 1, l)
         /\ p \notin {"acquire", "release"} => (Held(t, n + 1, l) <=> Held(t, n, l))
         /\ p = "check_grant" => Counted(t, n + 1, l)
         /\ p = "check_release" => ~Counted(t, n + 1, l)
         /\ p \notin {"check_grant", "check_release"} => (Counted(t, n + 1, l) <=> Counted(t, n, l))
         /\ InTurn(t, n + 1) <=>
              /\ p = "acquire" => ~Held(t, n, l)
              /\ p = "release" => Held(t, n, l)
              /\ p = "check_grant" => Held(t, n, l) /\ ~Counted(t, n, l)
              /\ p = "check_release" => Counted(t, n, l)
<1>1. PICK i : i = n + 1
  OBVIOUS
<1>2. i \in Nat \ {0} /\ i - 1 = n /\ Total(t)[i] = [op |-> p, l |-> l]
  BY <1>1
<1>3. /\ p = "acquire" => Held(t, i, l)
      /\ p = "release" => ~Held(t, i, l)
      /\ p \notin {"acquire", "release"} => (Held(t, i, l) <=> Held(t, i - 1, l))
  <2>1. p \notin {"acquire", "release"}
          => Total(t)[i] \notin {[op |-> "acquire", l |-> l], [op |-> "release", l |-> l]}
    BY <1>2
  <2>2. /\ p = "acquire" => Total(t)[i] = [op |-> "acquire", l |-> l]
        /\ p = "release" => Total(t)[i] = [op |-> "release", l |-> l]
    BY <1>2
  <2>3. i \in Nat \ {0}
    BY <1>2
  <2>4. QED BY <2>1, <2>2, <2>3, HeldStep
<1>4. /\ p = "check_grant" => Counted(t, i, l)
      /\ p = "check_release" => ~Counted(t, i, l)
      /\ p \notin {"check_grant", "check_release"} => (Counted(t, i, l) <=> Counted(t, i - 1, l))
  <2>1. p \notin {"check_grant", "check_release"}
          => Total(t)[i] \notin {[op |-> "check_grant", l |-> l], [op |-> "check_release", l |-> l]}
    BY <1>2
  <2>2. /\ p = "check_grant" => Total(t)[i] = [op |-> "check_grant", l |-> l]
        /\ p = "check_release" => Total(t)[i] = [op |-> "check_release", l |-> l]
    BY <1>2
  <2>3. i \in Nat \ {0}
    BY <1>2
  <2>4. QED BY <2>1, <2>2, <2>3, CountedStep
<1>5. InTurn(t, i) <=>
        /\ p = "acquire" => ~Held(t, i - 1, l)
        /\ p = "release" => Held(t, i - 1, l)
        /\ p = "check_grant" => Held(t, i - 1, l) /\ ~Counted(t, i - 1, l)
        /\ p = "check_release" => Counted(t, i - 1, l)
  BY <1>2 DEF InTurn
<1>6. QED BY <1>1, <1>2, <1>3, <1>4, <1>5

LEMMA FourElsewhere ==
  ASSUME NEW t \in Thread, NEW n \in Nat, NEW l \in Lock, NEW p1, NEW p2, NEW p3, NEW p4,
         At4(t, n, l, p1, p2, p3, p4), NEW k \in Lock, k # l, NEW i \in n + 1 .. n + 4
  PROVE  (Held(t, i, k) <=> Held(t, n, k)) /\ (Counted(t, i, k) <=> Counted(t, n, k))
<1> DEFINE Same(j) == (Held(t, j, k) <=> Held(t, n, k)) /\ (Counted(t, j, k) <=> Counted(t, n, k))
<1>1. PICK n1, n2, n3 : n1 = n + 1 /\ n2 = n + 2 /\ n3 = n + 3
  OBVIOUS
<1>2. /\ n1 \in Nat /\ n2 \in Nat /\ n3 \in Nat
      /\ n + 1 = n1 /\ n1 + 1 = n2 /\ n2 + 1 = n3 /\ n3 + 1 = n + 4
  BY <1>1
<1>3. Total(t)[n + 1].l # k /\ Total(t)[n1 + 1].l # k /\ Total(t)[n2 + 1].l # k /\ Total(t)[n3 + 1].l # k
  <2>1. /\ Total(t)[n + 1] = [op |-> p1, l |-> l] /\ Total(t)[n1 + 1] = [op |-> p2, l |-> l]
        /\ Total(t)[n2 + 1] = [op |-> p3, l |-> l] /\ Total(t)[n3 + 1] = [op |-> p4, l |-> l]
    BY <1>1, <1>2 DEF At4
  <2>2. QED BY <2>1
<1>4. Same(n1)
  BY <1>1, <1>3, Elsewhere
<1>5. Same(n2)
  BY <1>2, <1>3, <1>4, Elsewhere
<1>6. Same(n3)
  BY <1>2, <1>3, <1>5, Elsewhere
<1>7. Same(n + 4)
  BY <1>2, <1>3, <1>6, Elsewhere
<1>8. i = n1 \/ i = n2 \/ i = n3 \/ i = n + 4
  BY <1>1
<1>9. QED BY <1>4, <1>5, <1>6, <1>7, <1>8

\* t's i-th operation is on l and in turn, and behind it t counts itself a
\* holder only of what it holds.
Orderly(t, i, l) ==
    /\ InTurn(t, i) /\ Total(t)[i].l = l
    /\ \A k \in Lock : Counted(t, i, k) => Held(t, i, k)

\* test2 to test5: the count is taken back before the lock.
LEMMA RoundTurn ==
  ASSUME NEW t \in Thread, NEW n \in Nat, NEW l \in Lock,
         At4(t, n, l, "acquire", "check_grant", "check_release", "release"),
         Clear(t, n)
  PROVE  Clear(t, n + 4) /\ \A i \in n + 1 .. n + 4 : Orderly(t, i, l)
<1>1. PICK n1, n2, n3, n4 : n1 = n + 1 /\ n2 = n + 2 /\ n3 = n + 3 /\ n4 = n + 4
  OBVIOUS
<1>2. /\ n1 \in Nat /\ n2 \in Nat /\ n3 \in Nat
      /\ n + 1 = n1 /\ n1 + 1 = n2 /\ n2 + 1 = n3 /\ n3 + 1 = n4
  BY <1>1
<1>0. /\ Total(t)[n + 1] = [op |-> "acquire", l |-> l]
      /\ Total(t)[n1 + 1] = [op |-> "check_grant", l |-> l]
      /\ Total(t)[n2 + 1] = [op |-> "check_release", l |-> l]
      /\ Total(t)[n3 + 1] = [op |-> "release", l |-> l]
  BY <1>1, <1>2 DEF At4
<1>3. ~Held(t, n, l) /\ ~Counted(t, n, l)
  BY DEF Clear
<1>4. Held(t, n1, l) /\ ~Counted(t, n1, l) /\ InTurn(t, n1)
  <2>1. Total(t)[n + 1] = [op |-> "acquire", l |-> l]
    BY <1>0
  <2>2. QED BY <2>1, <1>2, <1>3, Here
<1>5. Held(t, n2, l) /\ Counted(t, n2, l) /\ InTurn(t, n2)
  <2>1. Total(t)[n1 + 1] = [op |-> "check_grant", l |-> l]
    BY <1>0
  <2>2. QED BY <2>1, <1>2, <1>4, Here
<1>6. Held(t, n3, l) /\ ~Counted(t, n3, l) /\ InTurn(t, n3)
  <2>1. Total(t)[n2 + 1] = [op |-> "check_release", l |-> l]
    BY <1>0
  <2>2. QED BY <2>1, <1>2, <1>5, Here
<1>7. ~Held(t, n4, l) /\ ~Counted(t, n4, l) /\ InTurn(t, n4)
  <2>1. Total(t)[n3 + 1] = [op |-> "release", l |-> l]
    BY <1>0
  <2>2. QED BY <2>1, <1>2, <1>6, Here
<1>8. \A k \in Lock \ {l} : \A i \in n + 1 .. n + 4 : ~Held(t, i, k) /\ ~Counted(t, i, k)
  BY FourElsewhere DEF Clear
<1>9. Clear(t, n4)
  <2>1. n4 \in n + 1 .. n + 4
    BY <1>1
  <2>2. QED BY <1>7, <1>8, <2>1 DEF Clear
<1>10. \A i \in n + 1 .. n + 4 : i = n1 \/ i = n2 \/ i = n3 \/ i = n4
  BY <1>1
<1>11. ASSUME NEW i \in n + 1 .. n + 4 PROVE Orderly(t, i, l)
  <2>1. InTurn(t, i) /\ (Counted(t, i, l) => Held(t, i, l))
    BY <1>4, <1>5, <1>6, <1>7, <1>10, Zenon
  <2>2. Total(t)[i].l = l
    BY <1>1, <1>10 DEF At4
  <2>3. QED BY <1>8, <2>1, <2>2 DEF Orderly
<1>12. QED BY <1>1, <1>9, <1>11

\* lock_demo.
LEMMA StatTurn ==
  ASSUME NEW t \in Thread, NEW n \in Nat, NEW l \in Lock,
         Total(t)[n + 1] = [op |-> "stat", l |-> l], Clear(t, n)
  PROVE  InTurn(t, n + 1) /\ Clear(t, n + 1)
<1>1. InTurn(t, n + 1) /\ ~Held(t, n + 1, l) /\ ~Counted(t, n + 1, l)
  <2>1. ~Held(t, n, l) /\ ~Counted(t, n, l)
    BY DEF Clear
  <2>2. "stat" \notin {"acquire", "release", "check_grant", "check_release"}
    OBVIOUS
  <2>3. InTurn(t, n + 1)
    BY <2>2, Here
  <2>4. ~Held(t, n + 1, l) /\ ~Counted(t, n + 1, l)
    BY <2>1, <2>2, Here
  <2>5. QED BY <2>3, <2>4
<1>2. ASSUME NEW k \in Lock, k # l PROVE ~Held(t, n + 1, k) /\ ~Counted(t, n + 1, k)
  <2>1. ~Held(t, n, k) /\ ~Counted(t, n, k)
    BY DEF Clear
  <2>2. Total(t)[n + 1].l # k
    BY <1>2
  <2>3. QED BY <2>1, <2>2, Elsewhere
<1>3. QED BY <1>1, <1>2 DEF Clear

\* test1: the count is taken back behind the release.
LEMMA NestTurn ==
  ASSUME NEW t \in Thread, NEW n \in Nat, NEW l \in Lock,
         At4(t, n, l, "acquire", "check_grant", "release", "check_release"),
         ~Held(t, n, l), ~Counted(t, n, l)
  PROVE  /\ \A i \in n + 1 .. n + 4 : InTurn(t, i)
         /\ ~Held(t, n + 4, l) /\ ~Counted(t, n + 4, l)
<1>1. PICK n1, n2, n3, n4 : n1 = n + 1 /\ n2 = n + 2 /\ n3 = n + 3 /\ n4 = n + 4
  OBVIOUS
<1>2. /\ n1 \in Nat /\ n2 \in Nat /\ n3 \in Nat
      /\ n + 1 = n1 /\ n1 + 1 = n2 /\ n2 + 1 = n3 /\ n3 + 1 = n4
  BY <1>1
<1>0. /\ Total(t)[n + 1] = [op |-> "acquire", l |-> l]
      /\ Total(t)[n1 + 1] = [op |-> "check_grant", l |-> l]
      /\ Total(t)[n2 + 1] = [op |-> "release", l |-> l]
      /\ Total(t)[n3 + 1] = [op |-> "check_release", l |-> l]
  BY <1>1, <1>2 DEF At4
<1>3. Held(t, n1, l) /\ ~Counted(t, n1, l) /\ InTurn(t, n1)
  <2>1. Total(t)[n + 1] = [op |-> "acquire", l |-> l]
    BY <1>0
  <2>2. QED BY <2>1, <1>2, Here
<1>4. Held(t, n2, l) /\ Counted(t, n2, l) /\ InTurn(t, n2)
  <2>1. Total(t)[n1 + 1] = [op |-> "check_grant", l |-> l]
    BY <1>0
  <2>2. QED BY <2>1, <1>2, <1>3, Here
<1>5. ~Held(t, n3, l) /\ Counted(t, n3, l) /\ InTurn(t, n3)
  <2>1. Total(t)[n2 + 1] = [op |-> "release", l |-> l]
    BY <1>0
  <2>2. QED BY <2>1, <1>2, <1>4, Here
<1>6. ~Held(t, n4, l) /\ ~Counted(t, n4, l) /\ InTurn(t, n4)
  <2>1. Total(t)[n3 + 1] = [op |-> "check_release", l |-> l]
    BY <1>0
  <2>2. QED BY <2>1, <1>2, <1>5, Here
<1>7. \A i \in n + 1 .. n + 4 : i = n1 \/ i = n2 \/ i = n3 \/ i = n4
  BY <1>1
<1>8. QED BY <1>1, <1>3, <1>4, <1>5, <1>6, <1>7

LEMMA PairOps ==
  ASSUME NEW l \in Lock, NEW s, NEW p, NEW q, s = Ops(<<p, q>>, l),
         p \in {"acquire", "check_grant", "release", "check_release"},
         q \in {"acquire", "check_grant", "release", "check_release"}
  PROVE  /\ s \in Seq(Op) /\ Len(s) = 2
         /\ s[1] = [op |-> p, l |-> l] /\ s[2] = [op |-> q, l |-> l]
<1>1. [op |-> p, l |-> l] \in Op /\ [op |-> q, l |-> l] \in Op
  BY DEF Op
<1>2. PICK r1, r2 : r1 = [op |-> p, l |-> l] /\ r2 = [op |-> q, l |-> l]
  OBVIOUS
<1>3. DOMAIN <<p, q>> = 1 .. 2
  OBVIOUS
<1>4. s = [i \in 1 .. 2 |-> [op |-> <<p, q>>[i], l |-> l]]
  BY <1>3, Zenon DEF Ops
<1>5. s[1] = r1 /\ s[2] = r2
  BY <1>2, <1>4
<1>6. \A i \in 1 .. 2 : s[i] \in Op
  BY <1>1, <1>2, <1>5
<1>7. s \in [1 .. 2 -> Op]
  BY <1>4, <1>6
<1>8. s \in Seq(Op) /\ Len(s) = 2
  BY <1>7, ASeq, Zenon
<1>9. QED BY <1>2, <1>5, <1>8

LEMMA FourOps ==
  ASSUME NEW l \in Lock, NEW s, NEW p1, NEW p2, NEW p3, NEW p4,
         s = Ops(<<p1, p2, p3, p4>>, l),
         p1 \in {"acquire", "check_grant", "release", "check_release"},
         p2 \in {"acquire", "check_grant", "release", "check_release"},
         p3 \in {"acquire", "check_grant", "release", "check_release"},
         p4 \in {"acquire", "check_grant", "release", "check_release"}
  PROVE  /\ s \in Seq(Op) /\ Len(s) = 4
         /\ s[1] = [op |-> p1, l |-> l] /\ s[2] = [op |-> p2, l |-> l]
         /\ s[3] = [op |-> p3, l |-> l] /\ s[4] = [op |-> p4, l |-> l]
<1>1. /\ [op |-> p1, l |-> l] \in Op /\ [op |-> p2, l |-> l] \in Op
      /\ [op |-> p3, l |-> l] \in Op /\ [op |-> p4, l |-> l] \in Op
  BY DEF Op
<1>2. PICK r1, r2, r3, r4 : /\ r1 = [op |-> p1, l |-> l] /\ r2 = [op |-> p2, l |-> l]
                            /\ r3 = [op |-> p3, l |-> l] /\ r4 = [op |-> p4, l |-> l]
  OBVIOUS
<1>3. DOMAIN <<p1, p2, p3, p4>> = 1 .. 4
  OBVIOUS
<1>4. s = [i \in 1 .. 4 |-> [op |-> <<p1, p2, p3, p4>>[i], l |-> l]]
  BY <1>3, Zenon DEF Ops
<1>5. s[1] = r1 /\ s[2] = r2 /\ s[3] = r3 /\ s[4] = r4
  BY <1>2, <1>4
<1>6. \A i \in 1 .. 4 : s[i] \in Op
  BY <1>1, <1>2, <1>5
<1>7. s \in [1 .. 4 -> Op]
  BY <1>4, <1>6
<1>8. s \in Seq(Op) /\ Len(s) = 4
  <2>1. PICK n \in Nat : n = 4
    OBVIOUS
  <2>2. s \in [1 .. n -> Op]
    BY <1>7, <2>1, Zenon
  <2>3. s \in Seq(Op) /\ Len(s) = n
    BY ONLY n \in Nat, <2>2, ASeq, Zenon
  <2>4. QED BY <2>1, <2>3, Zenon
<1>9. QED BY <1>2, <1>5, <1>8

\* test1, on one lock or on two.
LEMMA Test1Shape ==
  ASSUME Lock # {}
  PROVE  \E a, b \in Lock :
           \/ test1 = Ops(<<"acquire", "check_grant", "release", "check_release">>, a)
           \/ /\ a # b
              /\ test1 = Ops(<<"acquire", "check_grant">>, a)
                           \o Ops(<<"acquire", "check_grant", "release", "check_release">>, b)
                           \o Ops(<<"release", "check_release">>, a)
<1>1. PICK a, b : a = (CHOOSE l \in Lock : TRUE) /\ b = (CHOOSE l \in Lock : l # a \/ Lock = {a})
  OBVIOUS
<1>2. a \in Lock
  BY <1>1
<1>3. \E l \in Lock : l # a \/ Lock = {a}
  BY <1>2
<1>4. b \in Lock
  BY <1>1, <1>3
<1>5. CASE a = b
  BY <1>1, <1>2, <1>5 DEF test1
<1>6. CASE a # b
  <2>1. test1 = Ops(<<"acquire", "check_grant">>, a)
                  \o Ops(<<"acquire", "check_grant", "release", "check_release">>, b)
                  \o Ops(<<"release", "check_release">>, a)
    BY <1>1, <1>6 DEF test1
  <2>2. QED BY <1>2, <1>4, <1>6, <2>1
<1>7. QED BY <1>5, <1>6

LEMMA Test1Turn ==
  ASSUME Tester
  PROVE  /\ Clear(Leader, Len(Prologue))
         /\ \A i \in 1 .. Len(Prologue) : InTurn(Leader, i)
         /\ Len(Prologue) \in Nat \ {0} /\ Prologue[Len(Prologue)].op = "check_release"
<1>1. PICK a \in Lock, b \in Lock :
        \/ test1 = Ops(<<"acquire", "check_grant", "release", "check_release">>, a)
        \/ /\ a # b
           /\ test1 = Ops(<<"acquire", "check_grant">>, a)
                        \o Ops(<<"acquire", "check_grant", "release", "check_release">>, b)
                        \o Ops(<<"release", "check_release">>, a)
  BY Test1Shape DEF Tester
<1>2. /\ Leader \in Thread /\ Prologue = test1 /\ Clear(Leader, 0)
      /\ \A i \in 1 .. Len(Prologue) : Total(Leader)[i] = Prologue[i]
  BY NothingYet, ScriptTypes DEF Tester, Clear
<1>3. CASE test1 = Ops(<<"acquire", "check_grant", "release", "check_release">>, a)
  <2>1. /\ Len(Prologue) = 4
        /\ Prologue[1] = [op |-> "acquire", l |-> a] /\ Prologue[2] = [op |-> "check_grant", l |-> a]
        /\ Prologue[3] = [op |-> "release", l |-> a]
        /\ Prologue[4] = [op |-> "check_release", l |-> a]
    <3>1. Prologue = Ops(<<"acquire", "check_grant", "release", "check_release">>, a)
      BY <1>2, <1>3
    <3>2. QED BY <3>1, FourOps
  <2>2. At4(Leader, 0, a, "acquire", "check_grant", "release", "check_release")
    BY <1>2, <2>1 DEF At4
  <2>3. /\ \A i \in 0 + 1 .. 0 + 4 : InTurn(Leader, i)
        /\ ~Held(Leader, 0 + 4, a) /\ ~Counted(Leader, 0 + 4, a)
    BY <1>2, <2>2, NestTurn DEF Clear
  <2>4. \A k \in Lock \ {a} : ~Held(Leader, 4, k) /\ ~Counted(Leader, 4, k)
    BY <1>2, <2>2, FourElsewhere DEF Clear
  <2>5. Clear(Leader, 4)
    BY <2>3, <2>4 DEF Clear
  <2>6. QED BY <2>1, <2>3, <2>5
<1>4. CASE /\ a # b
           /\ test1 = Ops(<<"acquire", "check_grant">>, a)
                        \o Ops(<<"acquire", "check_grant", "release", "check_release">>, b)
                        \o Ops(<<"release", "check_release">>, a)
  <2>1. /\ Len(Prologue) = 8
        /\ Prologue[1] = [op |-> "acquire", l |-> a] /\ Prologue[2] = [op |-> "check_grant", l |-> a]
        /\ Prologue[3] = [op |-> "acquire", l |-> b] /\ Prologue[4] = [op |-> "check_grant", l |-> b]
        /\ Prologue[5] = [op |-> "release", l |-> b]
        /\ Prologue[6] = [op |-> "check_release", l |-> b]
        /\ Prologue[7] = [op |-> "release", l |-> a]
        /\ Prologue[8] = [op |-> "check_release", l |-> a]
    <3>2. PICK x, y, z : /\ x = Ops(<<"acquire", "check_grant">>, a)
                         /\ y = Ops(<<"acquire", "check_grant", "release", "check_release">>, b)
                         /\ z = Ops(<<"release", "check_release">>, a)
      OBVIOUS
    <3>3. /\ x \in Seq(Op) /\ Len(x) = 2
          /\ x[1] = [op |-> "acquire", l |-> a] /\ x[2] = [op |-> "check_grant", l |-> a]
      BY <3>2, PairOps
    <3>4. /\ z \in Seq(Op) /\ Len(z) = 2
          /\ z[1] = [op |-> "release", l |-> a] /\ z[2] = [op |-> "check_release", l |-> a]
      BY <3>2, PairOps
    <3>5. /\ y \in Seq(Op) /\ Len(y) = 4
          /\ y[1] = [op |-> "acquire", l |-> b] /\ y[2] = [op |-> "check_grant", l |-> b]
          /\ y[3] = [op |-> "release", l |-> b] /\ y[4] = [op |-> "check_release", l |-> b]
      BY <3>2, FourOps
    <3>6. Prologue = x \o y \o z
      BY <1>2, <1>4, <3>2
    <3>7. Nests(Prologue, x, y, z)
      <4>1. /\ x \in Seq(Op) /\ y \in Seq(Op) /\ z \in Seq(Op)
            /\ Len(x) = 2 /\ Len(y) = 4 /\ Len(z) = 2
        BY <3>3, <3>4, <3>5
      <4>2. QED BY <4>1, <3>6, ThreeParts, Zenon
    <3>8. QED BY <3>3, <3>4, <3>5, <3>7 DEF Nests
  <2>2. PICK n1, n2, n6, n7, n8 : n1 = 1 /\ n2 = 2 /\ n6 = 6 /\ n7 = 7 /\ n8 = 8
    OBVIOUS
  <2>3. /\ n1 \in Nat /\ n2 \in Nat /\ n6 \in Nat /\ n7 \in Nat
        /\ 0 + 1 = n1 /\ n1 + 1 = n2 /\ n2 + 4 = n6 /\ n6 + 1 = n7 /\ n7 + 1 = n8
    BY <2>2
  <2>4. /\ Total(Leader)[0 + 1] = [op |-> "acquire", l |-> a]
        /\ Total(Leader)[n1 + 1] = [op |-> "check_grant", l |-> a]
        /\ Total(Leader)[n6 + 1] = [op |-> "release", l |-> a]
        /\ Total(Leader)[n7 + 1] = [op |-> "check_release", l |-> a]
    BY <1>2, <2>1, <2>2
  <2>5. At4(Leader, n2, b, "acquire", "check_grant", "release", "check_release")
    BY <1>2, <2>1, <2>2 DEF At4
  <2>6. ~Held(Leader, 0, a) /\ ~Counted(Leader, 0, a)
    BY <1>2 DEF Clear
  <2>7. Held(Leader, n1, a) /\ ~Counted(Leader, n1, a) /\ InTurn(Leader, n1)
    <3>1. Total(Leader)[0 + 1] = [op |-> "acquire", l |-> a]
      BY <2>4
    <3>2. QED BY <1>2, <2>3, <2>6, <3>1, Here
  <2>8. Held(Leader, n2, a) /\ Counted(Leader, n2, a) /\ InTurn(Leader, n2)
    <3>1. Total(Leader)[n1 + 1] = [op |-> "check_grant", l |-> a]
      BY <2>4
    <3>2. QED BY <1>2, <2>3, <2>7, <3>1, Here
  <2>9. Held(Leader, n6, a) /\ Counted(Leader, n6, a)
    <3>1. n6 \in n2 + 1 .. n2 + 4
      BY <2>2
    <3>2. (Held(Leader, n6, a) <=> Held(Leader, n2, a)) /\ (Counted(Leader, n6, a) <=> Counted(Leader, n2, a))
      <4>1. Leader \in Thread /\ n2 \in Nat /\ a # b
        BY <1>2, <1>4, <2>3
      <4>2. QED BY <4>1, <2>5, <3>1, FourElsewhere, Zenon
    <3>3. QED BY <2>8, <3>2
  <2>10. ~Held(Leader, n7, a) /\ Counted(Leader, n7, a) /\ InTurn(Leader, n7)
    <3>1. Total(Leader)[n6 + 1] = [op |-> "release", l |-> a]
      BY <2>4
    <3>2. QED BY <1>2, <2>3, <2>9, <3>1, Here
  <2>11. ~Held(Leader, n8, a) /\ ~Counted(Leader, n8, a) /\ InTurn(Leader, n8)
    <3>1. Total(Leader)[n7 + 1] = [op |-> "check_release", l |-> a]
      BY <2>4
    <3>2. QED BY <1>2, <2>3, <2>10, <3>1, Here
  <2>12. \A k \in Lock \ {a} : ~Held(Leader, n2, k) /\ ~Counted(Leader, n2, k)
    <3> SUFFICES ASSUME NEW k \in Lock, k # a
                 PROVE  ~Held(Leader, n2, k) /\ ~Counted(Leader, n2, k)
      OBVIOUS
    <3>1. ~Held(Leader, 0, k) /\ ~Counted(Leader, 0, k)
      BY <1>2 DEF Clear
    <3>2. Total(Leader)[0 + 1].l # k /\ Total(Leader)[n1 + 1].l # k
      BY <2>4
    <3>3. ~Held(Leader, n1, k) /\ ~Counted(Leader, n1, k)
      BY <1>2, <2>3, <3>1, <3>2, Elsewhere
    <3>4. QED BY <1>2, <2>3, <3>2, <3>3, Elsewhere
  <2>13. /\ \A i \in n2 + 1 .. n2 + 4 : InTurn(Leader, i)
         /\ ~Held(Leader, n6, b) /\ ~Counted(Leader, n6, b)
    BY <1>2, <1>4, <2>3, <2>5, <2>12, NestTurn
  <2>14. \A k \in Lock \ {a} : ~Held(Leader, n6, k) /\ ~Counted(Leader, n6, k)
    <3> SUFFICES ASSUME NEW k \in Lock, k # a, k # b
                 PROVE  ~Held(Leader, n6, k) /\ ~Counted(Leader, n6, k)
      BY <2>13
    <3>1. n6 \in n2 + 1 .. n2 + 4
      BY <2>2
    <3>2. QED BY <1>2, <2>3, <2>5, <2>12, <3>1, FourElsewhere
  <2>15. \A k \in Lock \ {a} : ~Held(Leader, n8, k) /\ ~Counted(Leader, n8, k)
    <3> SUFFICES ASSUME NEW k \in Lock, k # a
                 PROVE  ~Held(Leader, n8, k) /\ ~Counted(Leader, n8, k)
      OBVIOUS
    <3>1. Total(Leader)[n6 + 1].l # k /\ Total(Leader)[n7 + 1].l # k
      BY <2>4
    <3>2. ~Held(Leader, n7, k) /\ ~Counted(Leader, n7, k)
      BY <1>2, <2>3, <2>14, <3>1, Elsewhere
    <3>3. QED BY <1>2, <2>3, <3>1, <3>2, Elsewhere
  <2>16. Clear(Leader, n8)
    BY <2>11, <2>15 DEF Clear
  <2>17. \A i \in 1 .. 8 : InTurn(Leader, i)
    <3>1. \A i \in 1 .. 8 : i \in {n1, n2, n7, n8} \/ i \in n2 + 1 .. n2 + 4
      BY <2>2
    <3>2. QED BY <2>7, <2>8, <2>10, <2>11, <2>13, <3>1
  <2>18. QED BY <2>1, <2>2, <2>16, <2>17
<1>5. QED BY <1>1, <1>3, <1>4

\* Where a thread's own script begins.
Start(t) == IF t = Leader THEN Len(Prologue) ELSE 0

LEMMA ScriptAt ==
  ASSUME NEW t \in Thread
  PROVE  /\ Start(t) \in Nat /\ Len(Script[t]) \in Nat
         /\ Len(Total(t)) = Start(t) + Len(Script[t])
         /\ \A i \in 1 .. Len(Script[t]) : Total(t)[Start(t) + i] = Script[t][i]
<1>1. PICK p, s, r : p = Prologue /\ s = Script[t] /\ r = Total(t)
  OBVIOUS
<1>2. p \in Seq(Op) /\ s \in Seq(Op) /\ Len(p) \in Nat /\ Len(s) \in Nat
  BY <1>1
<1>3. CASE t = Leader
  <2>1. r = p \o s
    BY <1>1, <1>3 DEF Total
  <2>2. Joins(r, p, s)
    BY ONLY <1>2, <2>1, Joined, Zenon
  <2>3. Start(t) = Len(p)
    BY <1>1, <1>3 DEF Start
  <2>4. /\ Len(r) = Len(p) + Len(s)
        /\ \A i \in 1 .. Len(s) : r[Len(p) + i] = s[i]
    BY ONLY <2>2 DEF Joins
  <2>5. QED BY <1>1, <1>2, <2>3, <2>4, Zenon
<1>4. CASE t # Leader
  <2>1. r = s /\ Start(t) = 0
    BY <1>1, <1>4 DEF Total, Start
  <2>2. Len(r) = 0 + Len(s) /\ \A i \in 1 .. Len(s) : r[0 + i] = s[i]
    BY ONLY <1>2, <2>1
  <2>3. QED BY <1>1, <1>2, <2>1, <2>2
<1>5. QED BY <1>3, <1>4

\* What a thread does besides the prologue: once or twice a round on the first
\* lock, or a stat.
LEMMA ScriptShape ==
  ASSUME Tester, NEW t \in Thread
  PROVE  \E a \in Lock :
           /\ a = CHOOSE l \in Lock : TRUE
           /\ LET r == Ops(<<"acquire", "check_grant", "check_release", "release">>, a) IN
              Script[t] \in {r, r \o r, Ops(<<"stat">>, a)}
<1>1. PICK a : a = CHOOSE l \in Lock : TRUE
  OBVIOUS
<1>2. a \in Lock
  BY <1>1 DEF Tester
<1>3. PICK r : r = Ops(<<"acquire", "check_grant", "check_release", "release">>, a)
  OBVIOUS
<1>4. test3[t] = IF t = Leader THEN r \o r ELSE r
  <2> DEFINE q == Ops(<<"acquire", "check_grant", "check_release", "release">>, CHOOSE l \in Lock : TRUE)
  <2>1. test3 = [u \in Thread |-> IF u = Leader THEN q \o q ELSE q]
    BY Zenon DEF test3
  <2>2. q = r
    BY <1>1, <1>3, Zenon
  <2> HIDE DEF q
  <2>3. test3[t] = IF t = Leader THEN q \o q ELSE q
    BY <2>1, Zenon
  <2>4. QED BY <2>2, <2>3, Zenon
<1>5. lock_demo = Ops(<<"stat">>, a)
  BY <1>1, Zenon DEF lock_demo
<1>6. Script[t] \in {r, r \o r, Ops(<<"stat">>, a)}
  BY <1>4, <1>5 DEF Tester
<1>7. QED BY <1>1, <1>2, <1>3, <1>6

\* A thread's own script: operations in turn, on the first lock, that leave no
\* lock that is counted and not held.
LEMMA ScriptTurn ==
  ASSUME Tester, NEW t \in Thread, Clear(t, Start(t)),
         NEW i \in Start(t) + 1 .. Len(Total(t))
  PROVE  Orderly(t, i, CHOOSE l \in Lock : TRUE)
<1>1. PICK a \in Lock :
        /\ a = CHOOSE l \in Lock : TRUE
        /\ LET r == Ops(<<"acquire", "check_grant", "check_release", "release">>, a) IN
           Script[t] \in {r, r \o r, Ops(<<"stat">>, a)}
  BY ScriptShape
<1>2. PICK n, s, r : n = Start(t) /\ s = Script[t]
                       /\ r = Ops(<<"acquire", "check_grant", "check_release", "release">>, a)
  OBVIOUS
<1>3. /\ n \in Nat /\ Len(s) \in Nat /\ Len(Total(t)) = n + Len(s) /\ Clear(t, n)
      /\ \A j \in 1 .. Len(s) : Total(t)[n + j] = s[j]
      /\ i \in n + 1 .. n + Len(s)
  BY <1>2, ScriptAt
<1>4. /\ r \in Seq(Op) /\ Len(r) = 4
      /\ r[1] = [op |-> "acquire", l |-> a] /\ r[2] = [op |-> "check_grant", l |-> a]
      /\ r[3] = [op |-> "check_release", l |-> a] /\ r[4] = [op |-> "release", l |-> a]
  BY <1>2, FourOps
<1>5. ASSUME Len(s) \in {4, 8}, \A j \in 1 .. 4 : s[j] = r[j]
      PROVE  At4(t, n, a, "acquire", "check_grant", "check_release", "release")
  <2>1. 1 \in 1 .. Len(s) /\ 2 \in 1 .. Len(s) /\ 3 \in 1 .. Len(s) /\ 4 \in 1 .. Len(s)
    BY <1>5
  <2>2. /\ Total(t)[n + 1] = s[1] /\ Total(t)[n + 2] = s[2]
        /\ Total(t)[n + 3] = s[3] /\ Total(t)[n + 4] = s[4]
    BY ONLY <1>3, <2>1
  <2>3. s[1] = r[1] /\ s[2] = r[2] /\ s[3] = r[3] /\ s[4] = r[4]
    BY ONLY <1>5
  <2>4. QED BY ONLY <1>4, <2>2, <2>3 DEF At4
<1>6. CASE s = r
  <2>1. At4(t, n, a, "acquire", "check_grant", "check_release", "release")
    <3>1. Len(s) = 4 /\ \A j \in 1 .. 4 : s[j] = r[j]
      BY ONLY <1>4, <1>6
    <3>2. QED BY <1>5, <3>1
  <2>2. i \in n + 1 .. n + 4
    BY <1>3, <1>4, <1>6
  <2>3. Orderly(t, i, a)
    BY <1>3, <2>1, <2>2, RoundTurn, Zenon
  <2>4. QED BY <1>1, <2>3, Zenon
<1>7. CASE s = r \o r
  <2>1. Len(s) = 8 /\ \A j \in 1 .. 4 : s[j] = r[j] /\ s[4 + j] = r[j]
    BY ONLY <1>4, <1>7, TwoFours, Zenon
  <2>2. At4(t, n, a, "acquire", "check_grant", "check_release", "release")
    BY <1>5, <2>1
  <2>3. PICK k : k = n + 4
    OBVIOUS
  <2>4. k \in Nat
    BY <1>3, <2>3
  <2>5. At4(t, k, a, "acquire", "check_grant", "check_release", "release")
    <3>1. s[4 + 1] = r[1] /\ s[4 + 2] = r[2] /\ s[4 + 3] = r[3] /\ s[4 + 4] = r[4]
      BY ONLY <2>1
    <3>2. /\ Total(t)[n + 5] = s[5] /\ Total(t)[n + 6] = s[6]
          /\ Total(t)[n + 7] = s[7] /\ Total(t)[n + 8] = s[8]
      BY ONLY <1>3, <2>1
    <3>3. k + 1 = n + 5 /\ k + 2 = n + 6 /\ k + 3 = n + 7 /\ k + 4 = n + 8
      BY ONLY <1>3, <2>3
    <3>4. /\ Total(t)[k + 1] = r[1] /\ Total(t)[k + 2] = r[2]
          /\ Total(t)[k + 3] = r[3] /\ Total(t)[k + 4] = r[4]
      BY ONLY <3>1, <3>2, <3>3
    <3>5. QED BY ONLY <1>4, <3>4 DEF At4
  <2>6. Clear(t, k)
    BY <1>3, <2>2, <2>3, RoundTurn
  <2>7. i \in n + 1 .. n + 4 \/ i \in k + 1 .. k + 4
    <3>1. Len(s) = 8
      BY <2>1
    <3>2. QED BY ONLY <1>3, <2>3, <3>1
  <2>8. ASSUME i \in n + 1 .. n + 4 PROVE Orderly(t, i, a)
    BY <1>3, <2>2, <2>8, RoundTurn, Zenon
  <2>9. ASSUME i \in k + 1 .. k + 4 PROVE Orderly(t, i, a)
    BY <2>4, <2>5, <2>6, <2>9, RoundTurn, Zenon
  <2>10. QED BY <1>1, <2>7, <2>8, <2>9, Zenon
<1>8. CASE s = Ops(<<"stat">>, a)
  <2>1. DOMAIN <<"stat">> = 1 .. 1
    OBVIOUS
  <2>2. s = [j \in 1 .. 1 |-> [op |-> <<"stat">>[j], l |-> a]]
    BY <1>8, <2>1, Zenon DEF Ops
  <2>3. s[1] = [op |-> "stat", l |-> a] /\ DOMAIN s = 1 .. 1
    BY <2>2
  <2>4. Len(s) = 1
    <3>1. DOMAIN s = 1 .. Len(s)
      BY <1>2, LenProperties
    <3>2. QED BY <1>3, <2>3, <3>1
  <2>5. i = n + 1 /\ Total(t)[n + 1] = [op |-> "stat", l |-> a]
    BY <1>3, <2>3, <2>4
  <2>6. InTurn(t, n + 1) /\ Clear(t, n + 1)
    BY <1>3, <2>5, StatTurn
  <2>7. QED BY <1>1, <2>5, <2>6 DEF Clear, Orderly
<1>9. QED BY <1>1, <1>2, <1>6, <1>7, <1>8

\* Behind the prologue the leader holds nothing, as the others at the start.
LEMMA StartClear ==
  ASSUME Tester, NEW t \in Thread
  PROVE  Clear(t, Start(t))
<1>1. CASE t = Leader
  BY <1>1, Test1Turn DEF Start
<1>2. CASE t # Leader
  BY <1>2, NothingYet DEF Start, Clear
<1>3. QED BY <1>1, <1>2

\* An operation of a thread is of test1 or of the thread's own script.
LEMMA TesterTurn ==
  ASSUME Tester, NEW t \in Thread, NEW i \in 1 .. Len(Total(t))
  PROVE  \/ t = Leader /\ i \in 1 .. Len(Prologue) /\ InTurn(t, i)
         \/ i > Start(t) /\ Orderly(t, i, CHOOSE l \in Lock : TRUE)
<1>1. /\ Start(t) \in Nat /\ Len(Total(t)) \in Nat
      /\ Start(t) = IF t = Leader THEN Len(Prologue) ELSE 0
  BY ScriptAt, ScriptTypes DEF Start
<1>2. CASE i > Start(t)
  <2>1. i \in Start(t) + 1 .. Len(Total(t))
    BY <1>1, <1>2
  <2>2. Orderly(t, i, CHOOSE l \in Lock : TRUE)
    BY <2>1, StartClear, ScriptTurn, Zenon
  <2>3. QED BY <1>2, <2>2
<1>3. CASE ~(i > Start(t))
  <2>1. t = Leader /\ i \in 1 .. Len(Prologue)
    BY <1>1, <1>3
  <2>2. QED BY <2>1, Test1Turn
<1>4. QED BY <1>2, <1>3

\* The scripts of lock_tester and lock_demo are such as ProperChecksPass asks for.
LEMMA TesterProper ==
  ASSUME Tester
  PROVE  Proper
<1>1. ASSUME NEW t \in Thread, NEW i \in 1 .. Len(Total(t))
      PROVE  InTurn(t, i)
  BY TesterTurn DEF Orderly
<1>2. ASSUME NEW t \in Thread, NEW i \in 0 .. Len(Total(t)), NEW l \in Lock, Counted(t, i, l)
      PROVE  Held(t, i, l) \/ Alone(t, i)
  <2>1. /\ Start(t) \in Nat /\ Len(Total(t)) \in Nat /\ Len(Prologue) \in Nat
        /\ Start(t) = IF t = Leader THEN Len(Prologue) ELSE 0
    BY ScriptAt, ScriptTypes DEF Start
  <2>2. CASE i < Start(t)
    BY <2>1, <2>2 DEF Alone
  <2>3. CASE i = Start(t)
    BY <1>2, <2>3, StartClear DEF Clear
  <2>4. CASE i > Start(t)
    <3>1. i \in Start(t) + 1 .. Len(Total(t))
      BY <2>1, <2>4
    <3>2. Orderly(t, i, CHOOSE k \in Lock : TRUE)
      BY <3>1, StartClear, ScriptTurn, Zenon
    <3>3. QED BY <1>2, <3>2 DEF Orderly
  <2>5. QED BY <2>1, <2>2, <2>3, <2>4
<1>3. ASSUME NEW t \in Thread, NEW i \in 1 .. Len(Total(t)), ~Prior(t, i)
      PROVE  Total(t)[i].l = CHOOSE l \in Lock : TRUE
  <2>1. ~(t = Leader /\ i \in 1 .. Len(Prologue))
    BY <1>3 DEF Prior
  <2>2. QED BY <2>1, TesterTurn DEF Orderly
<1>4. Prologue # << >> => Prologue[Len(Prologue)].op \in {"check_grant", "check_release"}
  BY Test1Turn
<1>5. QED BY <1>1, <1>2, <1>3, <1>4 DEF Proper

\* lock_tester.cc: with the scripts the tester runs (test1 alone, then test2 to
\* test5, lock_demo beside them), on any set of locks, with any number of
\* threads, of workers and places of the queue, no check fails.  test1 uses two
\* locks, alone; what runs side by side uses one.
THEOREM TesterChecksPass ==
  ASSUME Tester
  PROVE  Spec => []ChecksPass
BY TesterProper, ProperChecksPass
=============================================================================
