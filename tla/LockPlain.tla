----------------------------- MODULE LockPlain ------------------------------
(***************************************************************************)
(* The lock server without caching (lock_server.cc): acquire keeps its RPC *)
(* thread until the lock is free.  The handlers run on the threads of a    *)
(* ThrPool (thr_pool.cc) fed through a bounded fifo (fifo.h), so that a     *)
(* release needs a thread that no waiting acquire occupies.  Its clients   *)
(* are the threads of lock_tester.cc, each with its script of calls and    *)
(* checks; when they are done the pool is destroyed.                       *)
(*                                                                         *)
(* lock_server::it is one iterator for all threads: acquire sets it under  *)
(* mutex_ and uses it after mutex_ is released, release uses no mutex_ at  *)
(* all.  Every use of the iterator is therefore a step of its own.         *)
(***************************************************************************)
EXTENDS Integers, Sequences, FiniteSets

CONSTANTS
    Thread,      \* the tester's threads
    Lock,
    Worker,      \* threads of the pool
    Script,      \* the operations of each thread, see Op
    Leader,      \* the thread that runs its prologue before the others start
    Prologue,    \* what Leader does first (test1 of the tester)
    MaxJobs,     \* fifo::max_
    NULL

Op == [op : {"acquire", "release", "stat", "check_grant", "check_release"}, l : Lock]

ASSUME LockPlainAssumption ==
    /\ Script \in [Thread -> Seq(Op)] /\ Prologue \in Seq(Op) /\ Leader \in Thread
    /\ MaxJobs \in Nat \ {0} /\ Worker # {} /\ IsFiniteSet(Worker)
    /\ NULL \notin Lock \cup Thread \cup Worker \cup BOOLEAN

(***************************************************************************)
(* The tests of lock_tester as scripts, shortened: of test1 the part with  *)
(* a nested lock, of the loops of ten one or two rounds.                   *)
(***************************************************************************)
Ops(s, l) == [i \in DOMAIN s |-> [op |-> s[i], l |-> l]]

\* test1: b inside a; the checks come behind the calls.
test1 ==
    LET a == CHOOSE l \in Lock : TRUE
        b == CHOOSE l \in Lock : l # a \/ Lock = {a}
        Round(l) == Ops(<<"acquire", "check_grant", "release", "check_release">>, l) IN
    IF a = b THEN Round(a)
    ELSE Ops(<<"acquire", "check_grant">>, a) \o Round(b) \o Ops(<<"release", "check_release">>, a)

\* test2 to test5: every thread takes and releases a (here the leader twice,
\* the others once).  They differ in which lock_client a thread calls through,
\* which the server does not look at.
test3 ==
    LET a == CHOOSE l \in Lock : TRUE
        Round == Ops(<<"acquire", "check_grant", "check_release", "release">>, a) IN
    [t \in Thread |-> IF t = Leader THEN Round \o Round ELSE Round]

\* lock_demo: one call of stat, from a process of its own.
lock_demo == LET a == CHOOSE l \in Lock : TRUE IN Ops(<<"stat">>, a)

VARIABLES
    granted,     \* locks_[l]->granted; NULL: no entry in locks_
    it,          \* lock_server::it; NULL is locks_.end()
    mutex_,      \* owner of lock_server::mutex_
    m,           \* locks whose locksStatus_::m is locked
    jobq,        \* fifo::q_
    wk,          \* workers: pc, the thread they serve, the lock a wait is on
    todo,        \* what each thread has still to do
    called,      \* threads that wait for an answer
    ct,          \* the tester's count of holders
    pool,        \* ~ThrPool: "up", "push", "space", "join", "gone"
    pills,       \* poison pills still to be pushed
    failed       \* a check of the tester has failed, or end() was used

serverVars == <<granted, it, mutex_, m>>
queueVars == <<jobq, pool, pills>>
testVars == <<todo, called, ct>>
vars == <<serverVars, queueVars, wk, testVars, failed>>

Pill == [op |-> "pill", l |-> NULL, t |-> NULL]
Job == [op : {"acquire", "release", "stat"}, l : Lock, t : Thread]

WorkerPC == {"deq", "asleep", "exited", "acquire", "found", "m", "lock", "test", "wait", "cv",
             "relock", "grant", "release", "end", "rm", "rlock", "clear", "signal", "unlock", "stat", "reply"}

TypeOK ==
    /\ granted \in [Lock -> BOOLEAN \cup {NULL}]
    /\ it \in Lock \cup {NULL} /\ mutex_ \in Worker \cup {NULL} /\ m \subseteq Lock
    /\ jobq \in Seq(Job \cup {Pill}) /\ Len(jobq) <= MaxJobs
    /\ wk \in [Worker -> [pc : WorkerPC, j : Job \cup {Pill}, x : Lock \cup {NULL}]]
    /\ todo \in [Thread -> Seq(Op)] /\ called \subseteq Thread
    /\ ct \in [Lock -> {0, 1}]
    /\ pool \in {"up", "push", "space", "join", "gone"} /\ pills \in 0 .. Cardinality(Worker)
    /\ failed \in BOOLEAN

Init ==
    /\ granted = [l \in Lock |-> NULL] /\ it = NULL /\ mutex_ = NULL /\ m = {}
    /\ jobq = <<>> /\ pool = "up" /\ pills = Cardinality(Worker)
    /\ wk = [w \in Worker |-> [pc |-> "deq", j |-> Pill, x |-> NULL]]
    /\ todo = [t \in Thread |-> IF t = Leader THEN Prologue \o Script[t] ELSE Script[t]]
    /\ called = {} /\ ct = [l \in Lock |-> 0] /\ failed = FALSE

---------------------------------------------------------------------------
(* fifo and ThrPool *)

\* mutant: the test of max_ is off by one
enq_overfull(j) ==
    /\ Len(jobq) <= MaxJobs
    /\ jobq' = Append(jobq, j)
    /\ LET asleep == {w \in Worker : wk[w].pc = "asleep"} IN
       \/ asleep = {} /\ UNCHANGED wk
       \/ \E w \in asleep : wk' = [wk EXCEPT ![w].pc = "deq"]

\* mutant: enq does not signal non_empty_c_
enq_silent(j) ==
    /\ Len(jobq) < MaxJobs
    /\ jobq' = Append(jobq, j)
    /\ UNCHANGED wk

\* enq on a queue with space: one thread that sleeps in deq is woken.
enq(j) ==
    /\ Len(jobq) < MaxJobs
    /\ jobq' = Append(jobq, j)
    /\ LET asleep == {w \in Worker : wk[w].pc = "asleep"} IN
       \/ asleep = {} /\ UNCHANGED wk
       \/ \E w \in asleep : wk' = [wk EXCEPT ![w].pc = "deq"]

Starts(j) == IF j = Pill THEN "exited" ELSE j.op

\* do_worker, takeJob and deq: sleep on an empty queue, else take the oldest
\* job, telling a thread that waits for space.  A pill ends the worker.
deq(w) ==
    /\ wk[w].pc = "deq"
    /\ \/ /\ jobq = <<>>
          /\ wk' = [wk EXCEPT ![w].pc = "asleep"]
          /\ UNCHANGED <<jobq, pool>>
       \/ /\ jobq # <<>>
          /\ wk' = [wk EXCEPT ![w] = [pc |-> Starts(Head(jobq)), j |-> Head(jobq), x |-> NULL]]
          /\ jobq' = Tail(jobq)
          /\ pool' = IF pool = "space" /\ Len(jobq) <= MaxJobs THEN "push" ELSE pool
    /\ UNCHANGED <<serverVars, pills, testVars, failed>>

\* ~ThrPool: a pill for every worker, waiting for space where there is none.
PushPill ==
    /\ pool = "push" /\ pills > 0
    /\ \/ /\ enq(Pill)
          /\ pills' = pills - 1
          /\ UNCHANGED pool
       \/ /\ Len(jobq) >= MaxJobs
          /\ pool' = "space"
          /\ UNCHANGED <<jobq, wk, pills>>
    /\ UNCHANGED <<serverVars, testVars, failed>>

\* ~ThrPool joins the workers when every pill is pushed.
Join ==
    /\ \/ pool = "push" /\ pills = 0 /\ pool' = "join"
       \/ pool = "join" /\ (\A w \in Worker : wk[w].pc = "exited") /\ pool' = "gone"
    /\ UNCHANGED <<serverVars, jobq, pills, wk, testVars, failed>>

\* The pool is destroyed when nobody will use it again.
Shutdown ==
    /\ pool = "up" /\ \A t \in Thread : todo[t] = <<>>
    /\ pool' = "push"
    /\ UNCHANGED <<serverVars, jobq, pills, wk, testVars, failed>>

---------------------------------------------------------------------------
(* lock_server *)

Go(w, pc) == wk' = [wk EXCEPT ![w].pc = pc]
At(w, pc) == wk[w].pc = pc
Idle == UNCHANGED <<queueVars, testVars>>

\* it->second where it is end() is undefined, taken as the end of the server.
Use(w) == failed' = (it = NULL)

find(l) == IF granted[l] = NULL THEN NULL ELSE l

\* acquire's critical section: the lookup, then one of two ways out of it.
acquire(w) ==
    /\ At(w, "acquire") /\ mutex_ = NULL
    /\ mutex_' = w /\ it' = find(wk[w].j.l)
    /\ Go(w, "found")
    /\ UNCHANGED <<granted, m, failed>> /\ Idle

Found(w) ==
    /\ At(w, "found")
    /\ \/ /\ it # NULL
          /\ mutex_' = NULL
          /\ Go(w, "m")
          /\ UNCHANGED <<granted, it>>
       \* map::insert keeps an entry that is there
       \/ /\ it = NULL
          /\ granted' = [granted EXCEPT ![wk[w].j.l] = IF @ = NULL THEN TRUE ELSE @]
          /\ mutex_' = NULL
          /\ Go(w, "reply")
          /\ UNCHANGED it
    /\ UNCHANGED <<m, failed>> /\ Idle

\* (it->second->m)->lock(): which mutex, and then the wait for it.
PickMutex(w) ==
    /\ wk[w].pc \in {"m", "rm"} /\ Use(w)
    /\ wk' = [wk EXCEPT ![w].x = it, ![w].pc = IF @ = "m" THEN "lock" ELSE "rlock"]
    /\ UNCHANGED serverVars /\ Idle

\* class Mutex: lock waits until nobody has it.
lock(x) == x \notin m /\ m' = m \cup {x}
unlock(x) == m' = m \ {x}

LockMutex(w) ==
    /\ wk[w].pc \in {"lock", "relock", "rlock"}
    /\ lock(wk[w].x)
    /\ Go(w, IF At(w, "rlock") THEN "clear" ELSE "test")
    /\ UNCHANGED <<granted, it, mutex_, failed>> /\ Idle

Taken == it \in {l \in Lock : granted[l] = TRUE}

\* while (it->second->granted)
Test(w) ==
    /\ At(w, "test") /\ Use(w)
    /\ Go(w, IF Taken THEN "wait" ELSE "grant")
    /\ UNCHANGED serverVars /\ Idle

\* mutant: behind the wait granted is not tested again
Wait_once(w) ==
    /\ At(w, "wait") /\ Use(w)
    /\ Go(w, "grant")
    /\ UNCHANGED serverVars /\ Idle

\* cv->wait gives the mutex back while it sleeps.
Wait(w) ==
    /\ At(w, "wait") /\ Use(w)
    /\ wk' = [wk EXCEPT ![w].pc = "cv", ![w].x = it]
    /\ unlock(it)
    /\ UNCHANGED <<granted, it, mutex_>> /\ Idle

\* granted = true in acquire, granted = false in release.
Grant(w) ==
    /\ wk[w].pc \in {"grant", "clear"} /\ Use(w)
    /\ granted' = [l \in Lock |-> IF l = it THEN At(w, "grant") ELSE granted[l]]
    /\ Go(w, IF At(w, "grant") THEN "unlock" ELSE "signal")
    /\ UNCHANGED <<it, mutex_, m>> /\ Idle

\* The end of acquire and of release.
Unlock(w) ==
    /\ At(w, "unlock") /\ Use(w)
    /\ unlock(it)
    /\ Go(w, "reply")
    /\ UNCHANGED <<granted, it, mutex_>> /\ Idle

\* release: the lookup, which takes no mutex_, and the test of its result.
\* RPCERR fails the client's assert.
release(w) ==
    \/ /\ At(w, "release")
       /\ it' = find(wk[w].j.l)
       /\ Go(w, "end")
       /\ UNCHANGED <<granted, mutex_, m, failed>> /\ Idle
    \/ /\ At(w, "end") /\ Use(w)
       /\ Go(w, "rm")
       /\ UNCHANGED serverVars /\ Idle

\* mutant: release does not signal
Signal_none(w) ==
    /\ At(w, "signal") /\ Use(w)
    /\ Go(w, "unlock")
    /\ UNCHANGED serverVars /\ Idle

\* class ConditionVar: signal wakes one of those who sleep in wait, if any
\* does, and that one then locks the mutex again.
signal(w, x) ==
    LET sleepers == {v \in Worker : At(v, "cv") /\ wk[v].x = x} IN
    \/ sleepers = {} /\ Go(w, "unlock")
    \/ \E v \in sleepers : wk' = [wk EXCEPT ![w].pc = "unlock", ![v].pc = "relock"]

Signal(w) ==
    /\ At(w, "signal") /\ Use(w)
    /\ signal(w, it)
    /\ UNCHANGED serverVars /\ Idle

\* stat returns nacquire, which nothing ever counts up.
stat(w) ==
    /\ At(w, "stat")
    /\ Go(w, "reply")
    /\ UNCHANGED <<serverVars, failed>> /\ Idle

\* dispatch answers and the worker goes for the next job.
Reply(w) ==
    /\ At(w, "reply")
    /\ called' = called \ {wk[w].j.t}
    /\ wk' = [wk EXCEPT ![w] = [pc |-> "deq", j |-> Pill, x |-> NULL]]
    /\ UNCHANGED <<serverVars, queueVars, todo, ct, failed>>

Serve(w) ==
    \/ acquire(w) \/ Found(w) \/ PickMutex(w) \/ LockMutex(w) \/ Test(w) \/ Wait(w) \/ Grant(w)
    \/ Unlock(w) \/ release(w) \/ Signal(w) \/ stat(w) \/ Reply(w)

---------------------------------------------------------------------------
(* lock_tester *)

\* The leader runs its prologue alone.
Turn(t) == t = Leader \/ Len(todo[Leader]) <= Len(Script[Leader])

\* lock_client::acquire, release and stat: a call, kept by the connection while
\* the queue is full.
Call(t) ==
    /\ t \notin called /\ todo[t] # <<>> /\ Turn(t)
    /\ LET o == Head(todo[t]) IN
       /\ o.op \in {"acquire", "release", "stat"}
       /\ enq([op |-> o.op, l |-> o.l, t |-> t])
    /\ called' = called \cup {t}
    /\ todo' = [todo EXCEPT ![t] = Tail(@)]
    /\ UNCHANGED <<serverVars, pool, pills, ct, failed>>

check(t) ==
    /\ t \notin called /\ todo[t] # <<>>
    /\ LET o == Head(todo[t]) IN
       \/ /\ o.op = "check_grant"
          /\ failed' = (ct[o.l] # 0)
          /\ ct' = [ct EXCEPT ![o.l] = 1]
       \/ /\ o.op = "check_release"
          /\ failed' = (ct[o.l] # 1)
          /\ ct' = [ct EXCEPT ![o.l] = 0]
    /\ todo' = [todo EXCEPT ![t] = Tail(@)]
    /\ UNCHANGED <<serverVars, queueVars, wk, called>>

Next ==
    /\ ~failed
    /\ \/ \E w \in Worker : deq(w) \/ Serve(w)
       \/ \E t \in Thread : Call(t) \/ check(t)
       \/ Shutdown \/ PushPill \/ Join

\* Threads run; the scheduler need not be fair about a mutex, but here only
\* finitely many calls compete for it.
Fairness ==
    /\ \A w \in Worker : WF_vars(~failed /\ (deq(w) \/ Serve(w)))
    /\ \A t \in Thread : WF_vars(~failed /\ (Call(t) \/ check(t)))
    /\ WF_vars(~failed /\ (Shutdown \/ PushPill \/ Join))

Spec == Init /\ [][Next]_vars
FairSpec == Spec /\ Fairness

---------------------------------------------------------------------------
(* Properties *)

\* The tester's check_grant and check_release never fail, no assert of
\* lock_client fails and end() is never dereferenced: a lock is granted to one
\* thread at a time, although all handlers share one iterator.
ChecksPass == ~failed

\* While a worker sleeps, every queued job has a worker of its own that is on
\* its way to the queue: enq's one signal is not lost, although the workers
\* compete for the queue and finish in any order.
JobsWakeWorkers ==
    (\E w \in Worker : wk[w].pc = "asleep")
      => Len(jobq) <= Cardinality({w \in Worker : wk[w].pc = "deq"})

\* Every thread finishes its script and ~ThrPool returns: blocked acquires
\* leave a worker for the release they wait for, no signal is lost, and every
\* worker gets a pill.
AllFinish == <>(pool = "gone")
=============================================================================
