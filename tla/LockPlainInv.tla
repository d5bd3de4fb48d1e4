---------------------------- MODULE LockPlainInv ----------------------------
(***************************************************************************)
(* What holds of LockPlain in every state, and makes the tester's checks   *)
(* pass: who serves which call, who holds which lock, and what the one     *)
(* iterator of the server points to while a handler is using it.           *)
(***************************************************************************)
EXTENDS LockPlain

(***************************************************************************)
(* The scripts.                                                            *)
(***************************************************************************)
Total(t) == IF t = Leader THEN Prologue \o Script[t] ELSE Script[t]

\* Behind the first i operations of t's script: t has acquired l and not
\* released it; t has counted itself a holder of l and not taken that back.
Held(t, i, l) ==
    \E k \in 1 .. i : /\ Total(t)[k] = [op |-> "acquire", l |-> l]
                      /\ \A j \in k + 1 .. i : Total(t)[j] # [op |-> "release", l |-> l]
Counted(t, i, l) ==
    \E k \in 1 .. i : /\ Total(t)[k] = [op |-> "check_grant", l |-> l]
                      /\ \A j \in k + 1 .. i : Total(t)[j] # [op |-> "check_release", l |-> l]

Alone(t, i) == t = Leader /\ i < Len(Prologue)
Prior(t, i) == t = Leader /\ i <= Len(Prologue)

\* A thread takes a lock it does not hold, gives back one that it holds, counts
\* itself while it holds the lock, and once.
InTurn(t, i) ==
    LET o == Total(t)[i] IN
    /\ o.op = "acquire" => ~Held(t, i - 1, o.l)
    /\ o.op = "release" => Held(t, i - 1, o.l)
    /\ o.op = "check_grant" => Held(t, i - 1, o.l) /\ ~Counted(t, i - 1, o.l)
    /\ o.op = "check_release" => Counted(t, i - 1, o.l)

\* What the tests are written to: operations in turn; a thread that is not
\* alone takes its count back before it gives up the lock, and all such
\* threads use one lock; the prologue ends with a check, so that its last call
\* has been answered when the others start.
Proper ==
    /\ \A t \in Thread : \A i \in 1 .. Len(Total(t)) : InTurn(t, i)
    /\ \A t \in Thread : \A i \in 0 .. Len(Total(t)), l \in Lock :
         Counted(t, i, l) => Held(t, i, l) \/ Alone(t, i)
    /\ \A t, u \in Thread : \A i \in 1 .. Len(Total(t)), j \in 1 .. Len(Total(u)) :
         ~Prior(t, i) /\ ~Prior(u, j) /\ Total(t)[i].op # "stat" /\ Total(u)[j].op # "stat"
           => Total(t)[i].l = Total(u)[j].l
    /\ Prologue # <<>> => Prologue[Len(Prologue)].op \in {"check_grant", "check_release"}

\* The scripts that lock_tester and lock_demo run.
Tester ==
    /\ Lock # {} /\ Prologue = test1
    /\ \A t \in Thread : Script[t] \in {test3[t], lock_demo}

\* How much of its script a thread has behind it, its call under way included.
Begun(t) == Len(Total(t)) - Len(todo[t])

ScriptsInv ==
    \A t \in Thread :
        /\ Len(todo[t]) <= Len(Total(t))
        /\ \A i \in 1 .. Len(todo[t]) : todo[t][i] = Total(t)[Begun(t) + i]

\* While the leader is at its prologue no other thread has begun.
AloneInv ==
    Alone(Leader, Begun(Leader)) => \A t \in Thread \ {Leader} : Begun(t) = 0 /\ t \notin called

(***************************************************************************)
(* The calls: a thread that waits has at most one job, in the queue or     *)
(* with a worker, and that is the call it has begun last.                  *)
(***************************************************************************)
Serving(w) == wk[w].pc \notin {"deq", "asleep", "exited"}

Asked(j) == j.t \in called /\ Total(j.t)[Begun(j.t)] = [op |-> j.op, l |-> j.l]

CallsInv ==
    /\ \A t \in called : Begun(t) >= 1 /\ Total(t)[Begun(t)].op \in {"acquire", "release", "stat"}
    /\ \A w \in Worker : Serving(w) => Asked(wk[w].j)
    /\ \A i \in DOMAIN jobq : jobq[i] # Pill => Asked(jobq[i])
    /\ \A w, v \in Worker : Serving(w) /\ Serving(v) /\ wk[w].j.t = wk[v].j.t => w = v
    /\ \A i, k \in DOMAIN jobq : jobq[i] # Pill /\ jobq[k] # Pill /\ jobq[i].t = jobq[k].t => i = k
    /\ \A w \in Worker : \A i \in DOMAIN jobq :
         Serving(w) /\ jobq[i] # Pill => wk[w].j.t # jobq[i].t

(***************************************************************************)
(* The locks: a call takes effect when granted is set, and that is before  *)
(* it is answered.                                                         *)
(***************************************************************************)
Acted(t) == \E w \in Worker : wk[w].pc \in {"signal", "unlock", "reply"} /\ wk[w].j.t = t

Effective(t) == IF t \in called /\ ~Acted(t) THEN Begun(t) - 1 ELSE Begun(t)

Holds(t, l) == Held(t, Effective(t), l)

HoldInv ==
    \A t \in Thread, l \in Lock :
        Holds(t, l) => granted[l] = TRUE /\ \A u \in Thread : Holds(u, l) => u = t

CountsInv == \A l \in Lock : ct[l] = 1 <=> \E t \in Thread : Counted(t, Begun(t), l)

(***************************************************************************)
(* The handlers.  One that uses the iterator finds its own lock there, for *)
(* whoever moves it meanwhile looks for the same lock.                     *)
(***************************************************************************)
AcquirePC == {"acquire", "found", "m", "lock", "test", "wait", "cv", "relock", "grant"}
ReleasePC == {"release", "end", "rm", "rlock", "clear", "signal"}
Using == {"m", "lock", "test", "wait", "cv", "relock", "grant", "end", "rm", "rlock", "clear",
          "signal", "unlock"}
Inside == {"test", "wait", "grant", "clear", "signal", "unlock"}

HandlerOK(w) ==
    LET l == wk[w].j.l IN
    /\ wk[w].pc \in AcquirePC => wk[w].j.op = "acquire"
    /\ wk[w].pc \in ReleasePC => wk[w].j.op = "release"
    /\ wk[w].pc = "unlock" => wk[w].j.op \in {"acquire", "release"}
    /\ wk[w].pc = "stat" => wk[w].j.op = "stat"
    /\ wk[w].pc \in Using => it = l /\ granted[l] # NULL
    /\ wk[w].pc \in {"lock", "relock", "rlock", "cv"} => wk[w].x = l
    /\ wk[w].pc = "found" => mutex_ = w /\ it = find(l)
    /\ wk[w].pc = "grant" => granted[l] = FALSE
    /\ wk[w].pc \in Inside => l \in m

HandlersInv ==
    /\ \A w \in Worker : HandlerOK(w)
    /\ \A w, v \in Worker : wk[w].pc \in Inside /\ wk[v].pc \in Inside /\ wk[w].j.l = wk[v].j.l
                              => w = v
    /\ \A w \in Worker : mutex_ = w => wk[w].pc = "found"

ServiceInv ==
    /\ ~failed
    /\ ScriptsInv /\ AloneInv /\ CallsInv
    /\ HoldInv /\ CountsInv /\ HandlersInv
=============================================================================
