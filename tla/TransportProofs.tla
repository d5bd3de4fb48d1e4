-------------------------- MODULE TransportProofs --------------------------
(***************************************************************************)
(* Proofs about Transport for any descriptors, connections, pdus and       *)
(* bounds and any finite set of threads: references, writers, wake-ups and *)
(* the freshness of read callbacks.                                        *)
(***************************************************************************)
EXTENDS TransportInv, TLAPS, FiniteSetTheorems

USE TransportAssumption

\* Every set of natural numbers that is not empty has a least one.
LEMMA MinIsMember ==
  ASSUME NEW T, T \subseteq Nat, T # {}
  PROVE  Min(T) \in T
<1> DEFINE R == OpToRel(<, Nat)
<1>1. IsWellFoundedOn(R, Nat)
  BY NatLessThanWellFounded
<1>2. PICK x \in T : \A y \in T : ~ (<<y, x>> \in R)
  BY <1>1, WFMin
<1>3. ASSUME NEW y \in T PROVE x <= y
  <2>1. x \in Nat /\ y \in Nat
    OBVIOUS
  <2>2. ~ (y < x)
    BY <1>2, <2>1 DEF OpToRel
  <2>3. QED BY <2>1, <2>2
<1>4. QED BY <1>3 DEF Min
-----------------------------------------------------------------------------
(* Counting references                                                     *)

UsersOf(f, c) == {w \in Worker : f[w].c = c}
JobsOf(q, c) == {i \in DOMAIN q : q[i] = c}
One(b) == IF b THEN 1 ELSE 0

LEMMA OneIn ==
  ASSUME NEW c, NEW S
  PROVE  Cardinality({x \in {1} : c \in S}) = One(c \in S)
<1>1. CASE c \in S
  <2>1. {x \in {1} : c \in S} = {1}
    BY <1>1
  <2>2. QED BY <1>1, <2>1, FS_Singleton DEF One
<1>2. CASE c \notin S
  <2>1. {x \in {1} : c \in S} = {}
    BY <1>2
  <2>2. QED BY <1>2, <2>1, FS_EmptySet DEF One
<1>3. QED BY <1>1, <1>2

LEMMA OneIs ==
  ASSUME NEW c, NEW a
  PROVE  Cardinality({x \in {1} : a = c}) = One(a = c)
<1>1. CASE a = c
  <2>1. {x \in {1} : a = c} = {1}
    BY <1>1
  <2>2. QED BY <1>1, <2>1, FS_Singleton DEF One
<1>2. CASE a # c
  <2>1. {x \in {1} : a = c} = {}
    BY <1>2
  <2>2. QED BY <1>2, <2>1, FS_EmptySet DEF One
<1>3. QED BY <1>1, <1>2

LEMMA HoldersIs ==
  ASSUME NEW c
  PROVE  Holders(c) = Cardinality(UsersOf(wk, c)) + Cardinality(JobsOf(jobq, c))
                      + One(c \in conns) + One(saved = c) + One(chan = c)
<1>1. Cardinality({x \in {1} : c \in conns}) = One(c \in conns)
  BY OneIn
<1>2. Cardinality({x \in {1} : saved = c}) = One(saved = c)
  BY OneIs
<1>3. Cardinality({x \in {1} : chan = c}) = One(chan = c)
  BY OneIs
<1>4. QED BY <1>1, <1>2, <1>3 DEF Holders, UsersOf, JobsOf

LEMMA UsersFinite ==
  ASSUME NEW f, NEW c
  PROVE  /\ IsFiniteSet(UsersOf(f, c)) /\ Cardinality(UsersOf(f, c)) \in Nat
         /\ Cardinality(UsersOf(f, c)) = 0 <=> UsersOf(f, c) = {}
<1>1. UsersOf(f, c) \in SUBSET Worker
  BY DEF UsersOf
<1>2. IsFiniteSet(UsersOf(f, c))
  BY <1>1, FS_Subset
<1>3. QED BY <1>2, FS_CardinalityType, FS_EmptySet

LEMMA JobsFinite ==
  ASSUME NEW q \in Seq(Conn), NEW c
  PROVE  /\ IsFiniteSet(JobsOf(q, c)) /\ Cardinality(JobsOf(q, c)) \in Nat
         /\ Cardinality(JobsOf(q, c)) = 0 <=> JobsOf(q, c) = {}
<1>1. JobsOf(q, c) \in SUBSET (1 .. Len(q)) /\ Len(q) \in Nat
  BY DEF JobsOf
<1>2. IsFiniteSet(1 .. Len(q))
  BY <1>1, FS_Interval
<1>3. IsFiniteSet(JobsOf(q, c))
  BY <1>1, <1>2, FS_Subset
<1>4. QED BY <1>3, FS_CardinalityType, FS_EmptySet

AlikeBut(f, g, w) == \A v \in Worker \ {w} : g[v].c = f[v].c

\* One worker turns from one connection to another.
LEMMA UserMoves ==
  ASSUME NEW f, NEW g, NEW w \in Worker, AlikeBut(f, g, w),
         NEW c
  PROVE  Cardinality(UsersOf(g, c))
           = Cardinality(UsersOf(f, c)) - One(f[w].c = c) + One(g[w].c = c)
<1>1. CASE (f[w].c = c) <=> (g[w].c = c)
  <2>1. UsersOf(g, c) = UsersOf(f, c)
    BY <1>1 DEF UsersOf, AlikeBut
  <2>2. QED BY <1>1, <2>1, UsersFinite DEF One
<1>2. CASE f[w].c = c /\ g[w].c # c
  <2>1. UsersOf(g, c) = UsersOf(f, c) \ {w} /\ w \in UsersOf(f, c)
    BY <1>2 DEF UsersOf, AlikeBut
  <2>2. Cardinality(UsersOf(f, c) \ {w}) = Cardinality(UsersOf(f, c)) - 1
    <3>1. IsFiniteSet(UsersOf(f, c)) /\ w \in UsersOf(f, c)
      BY <2>1, UsersFinite
    <3>2. QED BY <3>1, FS_RemoveElement
  <2>3. QED BY <1>2, <2>1, <2>2, UsersFinite DEF One
<1>3. CASE f[w].c # c /\ g[w].c = c
  <2>1. UsersOf(g, c) = UsersOf(f, c) \cup {w} /\ w \notin UsersOf(f, c)
    BY <1>3 DEF UsersOf, AlikeBut
  <2>2. Cardinality(UsersOf(g, c)) = Cardinality(UsersOf(f, c)) + 1
    BY <2>1, UsersFinite, FS_AddElement
  <2>3. QED BY <1>3, <2>2, UsersFinite DEF One
<1>4. QED BY <1>1, <1>2, <1>3

\* Workers only drop what they have.
LEMMA UsersDrop ==
  ASSUME NEW f, NEW g, NEW c, \A v \in Worker : g[v].c = c => f[v].c = c
  PROVE  Cardinality(UsersOf(g, c)) <= Cardinality(UsersOf(f, c))
<1>1. UsersOf(g, c) \subseteq UsersOf(f, c)
  BY DEF UsersOf
<1>2. QED BY <1>1, UsersFinite, FS_Subset

LEMMA JobAdded ==
  ASSUME NEW q \in Seq(Conn), NEW a \in Conn, NEW c
  PROVE  Cardinality(JobsOf(Append(q, a), c)) = Cardinality(JobsOf(q, c)) + One(a = c)
<1> DEFINE r == Append(q, a)
           n == Len(q) + 1
<1>1. /\ r \in Seq(Conn) /\ DOMAIN r = 1 .. n /\ DOMAIN q = 1 .. Len(q) /\ Len(q) \in Nat
      /\ r[n] = a /\ \A i \in 1 .. Len(q) : r[i] = q[i]
  OBVIOUS
<1>2. DOMAIN r = DOMAIN q \cup {n} /\ n \notin DOMAIN q
  BY <1>1
<1> HIDE DEF r, n
<1>3. CASE a = c
  <2>1. JobsOf(r, c) = JobsOf(q, c) \cup {n} /\ n \notin JobsOf(q, c)
    BY <1>1, <1>2, <1>3 DEF JobsOf
  <2>2. QED BY <1>3, <2>1, JobsFinite, FS_AddElement DEF One, r
<1>4. CASE a # c
  <2>1. JobsOf(r, c) = JobsOf(q, c)
    BY <1>1, <1>2, <1>4 DEF JobsOf
  <2>2. QED BY <1>4, <2>1, JobsFinite DEF One, r
<1>5. QED BY <1>3, <1>4

LEMMA JobTaken ==
  ASSUME NEW q \in Seq(Conn), q # << >>, NEW c
  PROVE  Cardinality(JobsOf(Tail(q), c)) = Cardinality(JobsOf(q, c)) - One(Head(q) = c)
<1> DEFINE r == Tail(q)
           A == JobsOf(r, c)
           B == JobsOf(q, c) \ {1}
           g == [i \in A |-> i + 1]
<1>1. /\ r \in Seq(Conn) /\ DOMAIN q = 1 .. Len(q) /\ Len(q) \in Nat \ {0}
      /\ DOMAIN r = 1 .. Len(q) - 1 /\ Head(q) = q[1]
      /\ \A i \in 1 .. Len(q) - 1 : r[i] = q[i + 1]
  OBVIOUS
<1> HIDE DEF r
<1>2. \A i \in A : i \in Nat /\ i + 1 \in B
  BY <1>1 DEF JobsOf
<1>3. \A j \in B : j - 1 \in A /\ (j - 1) + 1 = j
  BY <1>1 DEF JobsOf
<1>4. g \in Bijection(A, B)
  <2>1. g \in [A -> B]
    BY <1>2
  <2>2. \A i, j \in A : g[i] = g[j] => i = j
    BY <1>2
  <2>3. \A j \in B : \E i \in A : g[i] = j
    BY <1>3
  <2> HIDE DEF A, B, g
  <2>4. QED BY <2>1, <2>2, <2>3 DEF Bijection, Injection, Surjection, IsInjective
<1>5. IsFiniteSet(A) /\ Cardinality(B) = Cardinality(A)
  <2>1. IsFiniteSet(A)
    BY <1>1, JobsFinite
  <2> HIDE DEF A, B, g
  <2>2. ExistsBijection(A, B)
    BY <1>4 DEF ExistsBijection
  <2>3. QED BY <2>1, <2>2, FS_Bijection
<1>6. 1 \in JobsOf(q, c) <=> Head(q) = c
  BY <1>1 DEF JobsOf
<1>7. Cardinality(B) = Cardinality(JobsOf(q, c)) - One(Head(q) = c)
  <2>1. IsFiniteSet(JobsOf(q, c)) /\ Cardinality(JobsOf(q, c)) \in Nat
    BY JobsFinite
  <2>2. Cardinality(B) = IF 1 \in JobsOf(q, c) THEN Cardinality(JobsOf(q, c)) - 1
                         ELSE Cardinality(JobsOf(q, c))
    BY <2>1, FS_RemoveElement
  <2> HIDE DEF B
  <2>3. CASE Head(q) = c
    BY <1>6, <2>2, <2>3 DEF One
  <2>4. CASE Head(q) # c
    BY <1>6, <2>1, <2>2, <2>4 DEF One
  <2>5. QED BY <2>3, <2>4
<1>8. QED BY <1>5, <1>7 DEF r
-----------------------------------------------------------------------------
(* Types and objects                                                       *)

Object == [st : {"none", "open", "freed"}, fd : Fd \cup {0}, srv : BOOLEAN,
           dead : BOOLEAN, refno : Nat, buf : BOOLEAN, wsz : {0, PduLen},
           wdone : -1 .. PduLen, rdone : 0 .. PduLen]
Place == [pc : WorkerPC, c : Conn \cup {NULL}, op : {"none", "reply", "stale", "call", "close"}]
Round == [pc : {"top", "copy", "select", "read", "write"}, r : SUBSET Fd, w : SUBSET Fd,
          owner : [Fd -> Conn \cup {NULL}], eagain : BOOLEAN]
Socket == [open : BOOLEAN, in : 0 .. MaxUnits, sent : 0 .. MaxUnits, shut : {"no", "eof", "rst"}]

Typed ==
    /\ conn \in [Conn -> Object] /\ wk \in [Worker -> Place] /\ loop \in Round
    /\ sock \in [Fd -> Socket] /\ callbacks \in [Fd -> Conn \cup {NULL}]
    /\ rfds \subseteq Fd /\ wfds \subseteq Fd
    /\ pending \in BOOLEAN /\ pipe \in BOOLEAN
    /\ jobq \in Seq(Conn) /\ Len(jobq) <= MaxJobs
    /\ conns \subseteq Conn /\ saved \in Conn \cup {NULL} /\ chan \in Conn \cup {NULL}
    /\ calls \in 0 .. MaxCalls /\ aborted \in BOOLEAN

LEMMA TypedIs == TypeOK <=> Typed
BY DEF TypeOK, Typed, Object, Place, Round, Socket

LEMMA Places ==
  /\ {"idle", "dispatch", "latest", "send", "turn", "turnWoken"} \subseteq WorkerPC
  /\ {"complete", "completeWoken", "remove", "removing", "removed", "decref"} \subseteq WorkerPC
BY DEF WorkerPC

FreedObject == [NoConnection EXCEPT !.st = "freed"]

LEMMA FreedIs ==
  /\ FreedObject \in Object /\ FreedObject.st = "freed" /\ FreedObject.refno = 0
  /\ ~FreedObject.buf /\ ~FreedObject.dead
<1>1. 0 \in -1 .. PduLen /\ 0 \in 0 .. PduLen /\ 0 \in Nat
  OBVIOUS
<1>2. /\ NoConnection \in Object /\ NoConnection.refno = 0
      /\ ~NoConnection.buf /\ ~NoConnection.dead
  BY <1>1 DEF NoConnection, Object
<1>3. QED BY <1>2 DEF FreedObject, Object

\* The reference that is about to go is the last one to a dead connection.
Dies(c) == Open(c) /\ conn[c].dead /\ conn[c].refno = 1

LEMMA DecrefIs ==
  ASSUME conn \in [Conn -> Object], NEW c \in Conn, conn[c].refno >= 1
  PROVE  /\ decref(conn, c) \in [Conn -> Object]
         /\ \A d \in Conn \ {c} : decref(conn, c)[d] = conn[d]
         /\ Dies(c) => decref(conn, c)[c] = FreedObject
         /\ ~Dies(c) => decref(conn, c)[c] = [conn[c] EXCEPT !.refno = conn[c].refno - 1]
<1> DEFINE r == IF Dies(c) THEN FreedObject ELSE [conn[c] EXCEPT !.refno = conn[c].refno - 1]
<1>1. decref(conn, c) = [conn EXCEPT ![c] = r]
  <2>1. conn[c].refno \in Nat
    BY DEF Object
  <2>2. conn[c].refno - 1 = 0 <=> conn[c].refno = 1
    BY <2>1
  <2>3. r = IF conn[c].refno - 1 = 0 /\ conn[c].st = "open" /\ conn[c].dead THEN FreedObject
            ELSE [conn[c] EXCEPT !.refno = conn[c].refno - 1]
    BY <2>2 DEF Dies, Open
  <2> HIDE DEF r
  <2>4. QED BY <2>3 DEF decref, FreedObject
<1>2. r \in Object
  BY FreedIs DEF Object
<1> HIDE DEF r
<1>3. /\ decref(conn, c) \in [Conn -> Object] /\ decref(conn, c)[c] = r
      /\ \A d \in Conn \ {c} : decref(conn, c)[d] = conn[d]
  BY <1>1, <1>2
<1>4. QED BY <1>3 DEF r

\* Who has a connection has it alive.
LEMMA HeldIsOpen ==
  ASSUME TypeOK, ObjectsInv, CountInv, NEW c \in Conn,
         \/ \E w \in Worker : wk[w].c = c
         \/ \E i \in DOMAIN jobq : jobq[i] = c
         \/ c \in conns \/ saved = c \/ chan = c
  PROVE  Open(c) /\ conn[c].refno >= 1
<1>1. /\ conn[c] \in Object /\ jobq \in Seq(Conn)
  BY TypedIs DEF Typed
<1>2. Holders(c) <= conn[c].refno
  BY DEF CountInv
<1>3. /\ Cardinality(UsersOf(wk, c)) \in Nat /\ Cardinality(JobsOf(jobq, c)) \in Nat
      /\ Cardinality(UsersOf(wk, c)) = 0 <=> UsersOf(wk, c) = {}
      /\ Cardinality(JobsOf(jobq, c)) = 0 <=> JobsOf(jobq, c) = {}
  BY <1>1, UsersFinite, JobsFinite
<1>4. \/ UsersOf(wk, c) # {} \/ JobsOf(jobq, c) # {} \/ c \in conns \/ saved = c \/ chan = c
  BY DEF UsersOf, JobsOf
<1>5. Holders(c) \in Nat /\ Holders(c) >= 1
  BY <1>3, <1>4, HoldersIs DEF One
<1>6. conn[c].refno >= 1
  BY <1>1, <1>2, <1>5 DEF Object
<1>7. QED BY <1>6 DEF ObjectsInv
-----------------------------------------------------------------------------
(* Steps that exchange references                                          *)

\* The object is as it was, but for its count and what has been read of a pdu.
Same(d) ==
    /\ conn'[d].st = conn[d].st /\ conn'[d].fd = conn[d].fd /\ conn'[d].dead = conn[d].dead
    /\ conn'[d].buf = conn[d].buf /\ conn'[d].wsz = conn[d].wsz /\ conn'[d].wdone = conn[d].wdone
    /\ ~Open(d) => conn'[d].refno = conn[d].refno

\* The object is deleted, and nobody knows it any more.
Gone(d) ==
    /\ Open(d) /\ conn'[d] = FreedObject
    /\ \A w \in Worker : wk'[w].c # d
    /\ \A f \in Fd : callbacks[f] # d

\* The object c is made, on a descriptor that nobody has.
Made(c, f) ==
    /\ c \in Conn /\ f \in Fd /\ ~Open(c)
    /\ conn'[c].st = "open" /\ conn'[c].fd = f /\ ~conn'[c].dead /\ ~conn'[c].buf
    /\ \A d \in Conn : Open(d) /\ conn[d].fd = f => Gone(d)
    /\ callbacks'[f] = c /\ rfds' = rfds \cup {f} /\ wfds' = wfds /\ pipe' = TRUE
    /\ sock'[f].open /\ sock'[f].in = 0 /\ sock'[f].sent = 0

Calm == {"idle", "dispatch", "latest", "send", "turnWoken", "decref"}

Moved(w) ==
    \/ wk'[w] = wk[w]
    \/ /\ wk[w].pc \in Calm /\ wk'[w].pc \in Calm
       /\ wk'[w].pc = "idle" <=> wk'[w].c = NULL
       /\ wk'[w].pc = "latest" => saved' # NULL
       /\ wk'[w].op = "close" => wk'[w].pc = "decref"

\* A step of this kind; c is the object it makes, NULL if it makes none.
Exchanges(c, f) ==
    /\ IF c = NULL THEN UNCHANGED <<callbacks, rfds, wfds, pipe>> ELSE Made(c, f)
    /\ \A d \in Conn \ {c} : Same(d) \/ Gone(d)
    /\ \A w \in Worker : Moved(w)
    /\ \A g \in Fd : c = NULL \/ g # f =>
         /\ callbacks'[g] = callbacks[g]
         /\ \/ sock'[g] = sock[g]
            \/ sock'[g] = ClosedSocket /\ \E d \in Conn : Gone(d) /\ conn[d].fd = g
    /\ saved # NULL => saved' # NULL
    /\ UNCHANGED <<pending, loop>>

LEMMA ExchangeKeeps ==
  ASSUME TransportIInv, TypeOK', NEW c, NEW f, Exchanges(c, f)
  PROVE  /\ ObjectsInv' /\ PollInv' /\ WorkersInv' /\ LoopInv' /\ SocketsInv'
         /\ OneWriter' /\ NoLostWakeup'
<1>1. Typed /\ Typed'
  BY TypedIs DEF TransportIInv, TypeOK, Typed, Object, Place, Round, Socket
<1>2. /\ TypeOK /\ ObjectsInv /\ CountInv /\ PollInv /\ WorkersInv /\ LoopInv /\ SocketsInv
      /\ OneWriter /\ NoLostWakeup
  BY DEF TransportIInv
<1>3. FreedObject.st = "freed" /\ FreedObject.refno = 0 /\ ~FreedObject.buf /\ ~FreedObject.dead
  BY FreedIs
\* Of two objects on one descriptor one is gone.
<1>4. ASSUME NEW d \in Conn, Open(d), Same(d), d # c
      PROVE  /\ c # NULL => conn[d].fd # f
             /\ sock'[conn[d].fd] = sock[conn[d].fd]
  <2>1. ~Gone(d)
    BY <1>3, <1>4 DEF Gone, Same, Open
  <2>2. c # NULL => conn[d].fd # f
    BY <1>4, <2>1 DEF Exchanges, Made
  <2>3. ~\E e \in Conn : Gone(e) /\ conn[e].fd = conn[d].fd
    BY <1>2, <1>4, <2>1 DEF Gone, ObjectsInv
  <2>4. conn[d].fd \in Fd
    BY <1>2, <1>4 DEF ObjectsInv
  <2>5. QED BY <2>2, <2>3, <2>4 DEF Exchanges
<1>5. ASSUME NEW d \in Conn
      PROVE  Same(d) \/ Gone(d) \/ (d = c /\ c # NULL /\ Made(c, f))
  BY <1>5 DEF Exchanges
<1>6. ObjectsInv'
  <2>1. ASSUME NEW d \in Conn
        PROVE  /\ ~Open(d)' => conn'[d].refno = 0 /\ ~conn'[d].buf /\ ~conn'[d].dead
               /\ Open(d)' => conn'[d].fd \in Fd /\ sock'[conn'[d].fd].open
    <3>1. CASE d = c /\ c # NULL /\ Made(c, f)
      BY <3>1 DEF Made, Open
    <3>2. CASE Gone(d)
      BY <1>3, <3>2 DEF Gone, Open
    <3>3. CASE Same(d) /\ ~(d = c /\ c # NULL /\ Made(c, f))
      <4>1. d # c
        BY <3>3 DEF Exchanges
      <4>2. QED BY <1>2, <1>4, <3>3, <4>1 DEF Same, Open, ObjectsInv
    <3>4. QED BY <1>5, <3>1, <3>2, <3>3
  <2>2. ASSUME NEW d \in Conn, NEW e \in Conn, Open(d)', Open(e)', conn'[d].fd = conn'[e].fd
        PROVE  d = e
    <3>1. ASSUME NEW x \in Conn, Open(x)', ~(x = c /\ c # NULL)
          PROVE  Open(x) /\ Same(x) /\ conn'[x].fd = conn[x].fd /\ (c # NULL => conn[x].fd # f)
      <4>1. x # c
        BY <3>1
      <4>2. Same(x)
        BY <1>3, <3>1, <4>1 DEF Exchanges, Gone, Open
      <4>3. QED BY <1>4, <3>1, <4>1, <4>2 DEF Same, Open
    <3>2. CASE c = NULL
      BY <1>2, <2>2, <3>1, <3>2 DEF ObjectsInv
    <3>3. CASE c # NULL
      <4>1. conn'[c].fd = f
        BY <3>3 DEF Exchanges, Made
      <4>2. QED BY <1>2, <2>2, <3>1, <3>3, <4>1 DEF ObjectsInv
    <3>4. QED BY <3>2, <3>3
  <2>3. QED BY <2>1, <2>2 DEF ObjectsInv
\* Who is registered stays registered on the same descriptor.
<1>7. ASSUME NEW g \in Fd, callbacks[g] # NULL
      PROVE  /\ c # NULL => g # f
             /\ callbacks'[g] = callbacks[g] /\ callbacks[g] \in Conn
             /\ Open(callbacks[g]) /\ Same(callbacks[g]) /\ conn[callbacks[g]].fd = g
             /\ callbacks[g] # c
  <2>1. callbacks[g] \in Conn /\ Open(callbacks[g]) /\ conn[callbacks[g]].fd = g
    BY <1>1, <1>2, <1>7 DEF Typed, PollInv
  <2>2. ~Gone(callbacks[g])
    BY DEF Gone
  <2>3. callbacks[g] # c
    BY <1>7, <2>1 DEF Exchanges, Made
  <2>4. Same(callbacks[g])
    BY <2>1, <2>2, <2>3 DEF Exchanges
  <2>5. c # NULL => g # f
    BY <1>4, <2>1, <2>3, <2>4
  <2>6. callbacks'[g] = callbacks[g]
    BY <2>5 DEF Exchanges
  <2>7. QED BY <2>1, <2>3, <2>4, <2>5, <2>6
<1>8. \A w \in Worker : wk[w].pc \notin Calm => wk'[w] = wk[w]
  BY DEF Exchanges, Moved
<1>9. ASSUME NEW w \in Worker, wk'[w].pc \notin Calm
      PROVE  wk'[w] = wk[w] /\ wk[w].pc \notin Calm
  BY <1>9 DEF Exchanges, Moved
<1>10. PollInv'
  <2>1. ASSUME NEW g \in Fd, callbacks'[g] # NULL
        PROVE  /\ Open(callbacks[g])' /\ conn'[callbacks'[g]].fd = g
               /\ conn'[callbacks'[g]].dead => \E w \in Worker : Removes(w)' /\ wk'[w].c = callbacks'[g]
    <3>1. CASE c # NULL /\ g = f
      BY <3>1 DEF Exchanges, Made, Open
    <3>2. CASE ~(c # NULL /\ g = f)
      <4>1. callbacks[g] # NULL
        BY <2>1, <3>2 DEF Exchanges
      <4>2. /\ callbacks'[g] = callbacks[g] /\ Open(callbacks[g]) /\ Same(callbacks[g])
            /\ conn[callbacks[g]].fd = g
        BY <1>7, <4>1
      <4>3. Open(callbacks[g])' /\ conn'[callbacks'[g]].fd = g
        BY <4>2 DEF Same, Open
      <4>4. ASSUME conn'[callbacks'[g]].dead
            PROVE  \E w \in Worker : Removes(w)' /\ wk'[w].c = callbacks'[g]
        <5>1. PICK w \in Worker : Removes(w) /\ wk[w].c = callbacks[g]
          BY <1>2, <4>1, <4>2, <4>4 DEF PollInv, Same
        <5>2. wk'[w] = wk[w]
          BY <1>8, <5>1 DEF Removes, Calm
        <5>3. QED BY <4>2, <5>1, <5>2 DEF Removes
      <4>5. QED BY <4>3, <4>4
    <3>3. QED BY <3>1, <3>2
  <2>2. ASSUME NEW g \in rfds' \cup wfds' PROVE callbacks'[g] # NULL
    <3>1. g \in rfds \cup wfds \/ (c # NULL /\ g = f)
      BY DEF Exchanges, Made
    <3>2. CASE c # NULL /\ g = f
      BY <3>2 DEF Exchanges, Made
    <3>3. CASE g \in rfds \cup wfds
      <4>1. g \in Fd /\ callbacks[g] # NULL
        BY <1>1, <1>2, <3>3 DEF PollInv, Typed
      <4>2. QED BY <1>7, <4>1
    <3>4. QED BY <3>1, <3>2, <3>3
  <2>3. QED BY <2>1, <2>2 DEF PollInv
\* Who is not calm has its connection as before.
<1>11. ASSUME NEW w \in Worker, wk'[w].pc \notin Calm, wk[w].pc # "idle"
       PROVE  /\ wk[w].c \in Conn /\ Open(wk[w].c) /\ Same(wk[w].c) /\ wk[w].c # c
              /\ c # NULL => conn[wk[w].c].fd # f
  <2>1. wk[w].c \in Conn
    BY <1>1, <1>2, <1>11 DEF WorkersInv, Typed, Place
  <2>2. Open(wk[w].c)
    BY <1>2, <2>1, HeldIsOpen
  <2>3. wk[w].c # c
    BY <2>1, <2>2 DEF Exchanges, Made
  <2>4. ~Gone(wk[w].c)
    BY <1>9, <1>11 DEF Gone
  <2>5. Same(wk[w].c)
    BY <2>1, <2>3, <2>4 DEF Exchanges
  <2>6. QED BY <1>4, <2>1, <2>2, <2>3, <2>5
<1>12. WorkersInv'
  <2> SUFFICES ASSUME NEW w \in Worker
      PROVE  /\ wk'[w].pc = "idle" <=> wk'[w].c = NULL
             /\ wk'[w].pc = "latest" => saved' # NULL
             /\ wk'[w].op = "close" => Removes(w)' \/ wk'[w].pc = "decref"
             /\ Removes(w)' => conn'[wk'[w].c].dead
             /\ wk'[w].pc \in {"removing", "removed"} => conn'[wk'[w].c].fd \notin rfds' \cup wfds'
             /\ wk'[w].pc = "removed" /\ loop'.pc \in {"select", "read"}
                  => conn'[wk'[w].c].fd \notin loop'.r
             /\ wk'[w].pc = "removing" /\ loop'.pc = "copy" => pipe'
             /\ wk'[w].pc = "complete" => conn'[wk'[w].c].wsz = PduLen
             /\ wk'[w].pc = "completeWoken" => conn'[wk'[w].c].dead \/ conn'[wk'[w].c].wdone = PduLen
    BY DEF WorkersInv
  <2>1. /\ wk'[w].pc = "idle" <=> wk'[w].c = NULL
        /\ wk'[w].pc = "latest" => saved' # NULL
        /\ wk'[w].op = "close" => Removes(w)' \/ wk'[w].pc = "decref"
    BY <1>2 DEF WorkersInv, Exchanges, Moved, Removes
  <2>2. CASE wk'[w].pc \in Calm
    BY <2>1, <2>2 DEF Calm, Removes
  <2>3. CASE wk'[w].pc \notin Calm
    <3>1. wk'[w] = wk[w] /\ wk[w].pc \notin Calm /\ wk[w].pc # "idle"
      BY <1>9, <2>3 DEF Calm
    <3>2. /\ Same(wk[w].c)
          /\ c # NULL => conn[wk[w].c].fd # f
      BY <1>11, <2>3, <3>1
    <3>3. Removes(w)' => conn'[wk'[w].c].dead
      BY <1>2, <3>1, <3>2 DEF WorkersInv, Same, Removes
    <3>4. ASSUME wk'[w].pc \in {"removing", "removed"}
          PROVE  conn'[wk'[w].c].fd \notin rfds' \cup wfds'
      BY <1>2, <3>1, <3>2, <3>4 DEF WorkersInv, Same, Exchanges, Made
    <3>5. /\ wk'[w].pc = "removed" /\ loop'.pc \in {"select", "read"}
               => conn'[wk'[w].c].fd \notin loop'.r
          /\ wk'[w].pc = "complete" => conn'[wk'[w].c].wsz = PduLen
          /\ wk'[w].pc = "completeWoken" => conn'[wk'[w].c].dead \/ conn'[wk'[w].c].wdone = PduLen
      BY <1>2, <3>1, <3>2 DEF WorkersInv, Same, Exchanges
    <3>6. wk'[w].pc = "removing" /\ loop'.pc = "copy" => pipe'
      BY <1>2, <3>1 DEF WorkersInv, Exchanges, Made
    <3>7. QED BY <2>1, <3>3, <3>4, <3>5, <3>6
  <2>4. QED BY <2>2, <2>3
<1>13. LoopInv'
  <2>1. loop' = loop /\ loop.r \subseteq Fd
    BY <1>1 DEF Exchanges, Typed, Round
  <2>2. QED BY <1>2, <1>7, <2>1 DEF LoopInv
<1>14. SocketsInv'
  <2>1. ClosedSocket.in = 0 /\ ClosedSocket.sent = 0
    BY DEF ClosedSocket
  <2>2. ASSUME NEW g \in Fd PROVE sock'[g].in <= sock'[g].sent
    BY <1>2, <2>1 DEF SocketsInv, Exchanges, Made
  <2>3. QED BY <2>2 DEF SocketsInv
<1> DEFINE Writers(d) == {w \in Worker : wk[w].c = d /\ wk[w].op # "close"
                    /\ wk[w].pc \in {"complete", "completeWoken", "remove", "removing", "removed"}}
<1>15. OneWriter'
  <2>1. ASSUME NEW d \in Conn
        PROVE  Cardinality(Writers(d)') <= 1 /\ (conn'[d].buf <=> Writers(d)' # {})
    <3>1. Writers(d)' = Writers(d)
      BY <1>8, <1>9 DEF Calm
    <3>2. Cardinality(Writers(d)) <= 1 /\ (conn[d].buf <=> Writers(d) # {})
      BY <1>2 DEF OneWriter
    <3>3. conn'[d].buf <=> Writers(d) # {}
      <4>1. CASE Same(d)
        BY <3>2, <4>1 DEF Same
      <4>2. CASE Gone(d)
        <5>1. Writers(d)' = {}
          BY <4>2 DEF Gone
        <5>2. QED BY <1>3, <3>1, <4>2, <5>1 DEF Gone
      <4>3. CASE d = c /\ c # NULL /\ Made(c, f)
        <5>1. ~conn[d].buf /\ ~conn'[d].buf
          BY <1>2, <4>3 DEF Made, ObjectsInv
        <5>2. QED BY <3>2, <5>1
      <4>4. QED BY <1>5, <4>1, <4>2, <4>3
    <3>4. QED BY <3>1, <3>2, <3>3
  <2>2. QED BY <2>1 DEF OneWriter
<1>16. NoLostWakeup'
  <2> SUFFICES ASSUME NEW w \in Worker
      PROVE  /\ wk'[w].pc = "complete" =>
                   ~conn'[wk'[w].c].dead /\ conn'[wk'[w].c].fd \in wfds'
                   /\ callbacks'[conn'[wk'[w].c].fd] = wk'[w].c
             /\ wk'[w].pc = "turn" => conn'[wk'[w].c].buf
             /\ wk'[w].pc = "removing" => pending' /\ (loop'.pc = "select" => pipe')
    BY DEF NoLostWakeup
  <2>1. CASE wk'[w].pc \in Calm
    BY <2>1 DEF Calm
  <2>2. CASE wk'[w].pc \notin Calm
    <3>1. wk'[w] = wk[w] /\ wk[w].pc \notin Calm /\ wk[w].pc # "idle"
      BY <1>9, <2>2 DEF Calm
    <3>2. /\ wk[w].c \in Conn /\ Same(wk[w].c) /\ Open(wk[w].c)
          /\ c # NULL => conn[wk[w].c].fd # f
      BY <1>11, <2>2, <3>1
    <3>3. conn[wk[w].c].fd \in Fd
      BY <1>2, <3>2 DEF ObjectsInv
    <3>4. ASSUME wk'[w].pc = "complete"
          PROVE  ~conn'[wk'[w].c].dead /\ conn'[wk'[w].c].fd \in wfds'
                 /\ callbacks'[conn'[wk'[w].c].fd] = wk'[w].c
      <4>1. /\ ~conn[wk[w].c].dead /\ conn[wk[w].c].fd \in wfds
            /\ callbacks[conn[wk[w].c].fd] = wk[w].c
        BY <1>2, <3>1, <3>4 DEF NoLostWakeup
      <4>2. wfds' = wfds
        BY DEF Exchanges, Made
      <4>3. callbacks'[conn[wk[w].c].fd] = callbacks[conn[wk[w].c].fd]
        BY <3>2, <3>3 DEF Exchanges
      <4>4. QED BY <3>1, <3>2, <4>1, <4>2, <4>3 DEF Same
    <3>5. /\ wk'[w].pc = "turn" => conn'[wk'[w].c].buf
      BY <1>2, <3>1, <3>2 DEF NoLostWakeup, Same
    <3>6. wk'[w].pc = "removing" => pending' /\ (loop'.pc = "select" => pipe')
      BY <1>2, <3>1 DEF NoLostWakeup, Exchanges, Made
    <3>7. QED BY <3>4, <3>5, <3>6
  <2>3. QED BY <2>1, <2>2
<1>17. QED BY <1>6, <1>10, <1>12, <1>13, <1>14, <1>15, <1>16

LEMMA TypedNext == TypeOK' <=> Typed'
BY DEF TypeOK, Typed, Object, Place, Round, Socket

LEMMA HoldersNext ==
  ASSUME NEW c
  PROVE  Holders(c)' = Cardinality(UsersOf(wk', c)) + Cardinality(JobsOf(jobq', c))
                       + One(c \in conns') + One(saved' = c) + One(chan' = c)
<1>1. Cardinality({x \in {1} : c \in conns'}) = One(c \in conns')
  BY OneIn
<1>2. Cardinality({x \in {1} : saved' = c}) = One(saved' = c)
  BY OneIs
<1>3. Cardinality({x \in {1} : chan' = c}) = One(chan' = c)
  BY OneIs
<1>4. QED BY <1>1, <1>2, <1>3 DEF Holders, UsersOf, JobsOf

LEMMA CountsAre ==
  ASSUME Typed, NEW c \in Conn
  PROVE  /\ Cardinality(UsersOf(wk, c)) \in Nat /\ Cardinality(JobsOf(jobq, c)) \in Nat
         /\ conn[c].refno \in Nat /\ One(c \in conns) \in {0, 1}
         /\ One(saved = c) \in {0, 1} /\ One(chan = c) \in {0, 1}
BY UsersFinite, JobsFinite DEF Typed, Object, One

\* The last reference to a dead connection is that of worker w, of one of the
\* tables, or of one of the queued jobs.
LEMMA LastUser ==
  ASSUME TransportIInv, NEW c \in Conn, conn[c].refno = 1, NEW w \in Worker, wk[w].c = c
  PROVE  \A v \in Worker \ {w} : wk[v].c # c
<1>1. Typed /\ Holders(c) <= 1
  BY TypedIs DEF TransportIInv, CountInv
<1>2. Cardinality(UsersOf(wk, c)) <= 1
  BY <1>1, CountsAre, HoldersIs
<1>3. w \in UsersOf(wk, c)
  BY DEF UsersOf
<1>4. Cardinality(UsersOf(wk, c)) = 1
  BY <1>2, <1>3, UsersFinite
<1>5. PICK x : UsersOf(wk, c) = {x}
  BY <1>4, UsersFinite, FS_Singleton
<1>6. QED BY <1>3, <1>5 DEF UsersOf

LEMMA LastOwner ==
  ASSUME TransportIInv, NEW c \in Conn, conn[c].refno = 1, saved = c \/ chan = c \/ c \in conns
  PROVE  \A v \in Worker : wk[v].c # c
<1>1. Typed /\ Holders(c) <= 1
  BY TypedIs DEF TransportIInv, CountInv
<1>2. Cardinality(UsersOf(wk, c)) = 0
  <2>1. One(saved = c) + One(chan = c) + One(c \in conns) >= 1
    BY DEF One
  <2>2. QED BY <1>1, <2>1, CountsAre, HoldersIs
<1>3. UsersOf(wk, c) = {}
  BY <1>2, UsersFinite
<1>4. QED BY <1>3 DEF UsersOf

LEMMA DeadUnregistered ==
  ASSUME TransportIInv, NEW c \in Conn, conn[c].dead,
         \A w \in Worker : wk[w].c = c => ~Removes(w)
  PROVE  \A f \in Fd : callbacks[f] # c
BY DEF TransportIInv, PollInv

LEMMA ClosedIs ==
  ASSUME Typed, NEW c \in Conn, conn[c].refno >= 1
  PROVE  \A f : f \in Closed(decref(conn, c)) <=> Dies(c) /\ conn[c].fd = f
<1> DEFINE cs == decref(conn, c)
<1>1. /\ \A d \in Conn \ {c} : cs[d] = conn[d]
      /\ Dies(c) => cs[c].st = "freed"
      /\ ~Dies(c) => cs[c].st = conn[c].st
  <2>1. conn \in [Conn -> Object]
    BY DEF Typed
  <2>2. ([conn[c] EXCEPT !.refno = conn[c].refno - 1]).st = conn[c].st
    BY <2>1 DEF Object
  <2>3. QED BY <2>1, <2>2, DecrefIs, FreedIs
<1> HIDE DEF cs
<1>2. QED BY <1>1 DEF Closed, Dies, Open, cs

\* decref as a step of the object.
LEMMA DecrefSame ==
  ASSUME Typed, NEW c \in Conn, conn[c].refno >= 1, NEW cs, cs = decref(conn, c)
  PROVE  /\ cs \in [Conn -> Object]
         /\ \A d \in Conn \ {c} : cs[d] = conn[d]
         /\ cs[c].refno = conn[c].refno - 1
         /\ Dies(c) => cs[c] = FreedObject
         /\ ~Dies(c) => /\ cs[c].st = conn[c].st /\ cs[c].fd = conn[c].fd /\ cs[c].dead = conn[c].dead
                        /\ cs[c].buf = conn[c].buf /\ cs[c].wsz = conn[c].wsz /\ cs[c].wdone = conn[c].wdone
<1>1. conn \in [Conn -> Object] /\ conn[c] \in Object
  BY DEF Typed
<1>2. /\ cs \in [Conn -> Object]
      /\ \A d \in Conn \ {c} : cs[d] = conn[d]
      /\ Dies(c) => cs[c] = FreedObject
      /\ ~Dies(c) => cs[c] = [conn[c] EXCEPT !.refno = conn[c].refno - 1]
  BY <1>1, DecrefIs
<1>3. Dies(c) => conn[c].refno = 1
  BY DEF Dies
<1>4. QED BY <1>1, <1>2, <1>3, FreedIs DEF Object
-----------------------------------------------------------------------------
(* The steps that exchange references                                      *)

LEMMA Parts ==
  TransportIInv <=> /\ Typed /\ ObjectsInv /\ CountInv /\ PollInv /\ WorkersInv /\ LoopInv
                    /\ SocketsInv /\ OneWriter /\ NoLostWakeup
BY TypedIs DEF TransportIInv

LEMMA ExchangeStep ==
  ASSUME TransportIInv, Typed', CountInv', NEW c, NEW f, Exchanges(c, f)
  PROVE  TransportIInv'
<1>1. TypeOK'
  BY TypedNext
<1>2. QED BY <1>1, ExchangeKeeps DEF TransportIInv

\* A worker that has no connection.
LEMMA IdleHasNone ==
  ASSUME TransportIInv, NEW w \in Worker
  PROVE  /\ wk[w] \in Place
         /\ wk[w].pc = "idle" => wk[w].c = NULL
         /\ wk[w].pc # "idle" => wk[w].c \in Conn /\ Open(wk[w].c) /\ conn[wk[w].c].refno >= 1
<1>1. /\ wk[w] \in Place /\ TypeOK /\ ObjectsInv /\ CountInv
      /\ wk[w].pc = "idle" <=> wk[w].c = NULL
  BY Parts DEF Typed, WorkersInv, TransportIInv
<1>2. wk[w].c # NULL => wk[w].c \in Conn
  BY <1>1 DEF Place
<1>3. QED BY <1>1, <1>2, HeldIsOpen

\* Between f and g one user turns from connection a to connection b.
UserTurns(f, g, a, b) ==
    \A d : Cardinality(UsersOf(g, d)) = Cardinality(UsersOf(f, d)) - One(a = d) + One(b = d)

LEMMA UsersAfter ==
  ASSUME NEW w \in Worker, AlikeBut(wk, wk', w)
  PROVE  UserTurns(wk, wk', wk[w].c, wk'[w].c)
BY UserMoves DEF UserTurns

\* One worker goes on.
LEMMA Turns ==
  ASSUME Typed, NEW w \in Worker, NEW p \in Place, wk' = [wk EXCEPT ![w] = p]
  PROVE  /\ wk' \in [Worker -> Place] /\ wk'[w] = p /\ \A v \in Worker \ {w} : wk'[v] = wk[v]
         /\ UserTurns(wk, wk', wk[w].c, p.c)
<1>1. /\ wk' \in [Worker -> Place] /\ wk'[w] = p /\ \A v \in Worker \ {w} : wk'[v] = wk[v]
  BY DEF Typed
<1>2. AlikeBut(wk, wk', w)
  BY <1>1 DEF AlikeBut
<1>3. UserTurns(wk, wk', wk[w].c, wk'[w].c)
  BY <1>2, UsersAfter
<1>4. QED BY <1>1, <1>3

\* How the count of d's holders moves.
LEMMA Recount ==
  ASSUME Typed, jobq' \in Seq(Conn), NEW a, NEW b, UserTurns(wk, wk', a, b), NEW d \in Conn
  PROVE  /\ Holders(d) \in Nat /\ Holders(d)' \in Nat
         /\ Holders(d)' = Holders(d) - One(a = d) + One(b = d)
                + Cardinality(JobsOf(jobq', d)) - Cardinality(JobsOf(jobq, d))
                + One(d \in conns') - One(d \in conns) + One(saved' = d) - One(saved = d)
                + One(chan' = d) - One(chan = d)
<1> DEFINE u == Cardinality(UsersOf(wk, d))     v == Cardinality(UsersOf(wk', d))
           j == Cardinality(JobsOf(jobq, d))    k == Cardinality(JobsOf(jobq', d))
           x == One(a = d)                      y == One(b = d)
           n == One(d \in conns)                m == One(d \in conns')
           s == One(saved = d)                  t == One(saved' = d)
           h == One(chan = d)                   i == One(chan' = d)
<1>1. v = u - x + y
  BY DEF UserTurns
<1>2. u \in Nat /\ v \in Nat /\ j \in Nat /\ k \in Nat
  BY UsersFinite, JobsFinite DEF Typed
<1>3. /\ x \in {0, 1} /\ y \in {0, 1} /\ n \in {0, 1} /\ m \in {0, 1}
      /\ s \in {0, 1} /\ t \in {0, 1} /\ h \in {0, 1} /\ i \in {0, 1}
  BY DEF One
<1>4. Holders(d) = u + j + n + s + h
  BY HoldersIs
<1>5. Holders(d)' = v + k + m + t + i
  BY HoldersNext
<1> HIDE DEF u, v, j, k, x, y, n, m, s, t, h, i
<1>6. /\ Holders(d) \in Nat /\ Holders(d)' \in Nat
      /\ Holders(d)' = Holders(d) - x + y + k - j + m - n + t - s + i - h
  BY <1>1, <1>2, <1>3, <1>4, <1>5
<1>7. QED BY <1>6 DEF j, k, x, y, n, m, s, t, h, i

LEMMA TakeJobStep ==
  ASSUME TransportIInv, NEW w \in Worker, TakeJob(w)
  PROVE  TransportIInv'
<1>1. Typed /\ wk[w].c = NULL /\ wk \in [Worker -> Place]
  BY Parts, IdleHasNone DEF TakeJob, Typed
<1>2. /\ jobq \in Seq(Conn) /\ jobq # << >> /\ Head(jobq) \in Conn /\ Tail(jobq) \in Seq(Conn)
      /\ Len(Tail(jobq)) <= Len(jobq) /\ Len(jobq) <= MaxJobs
  BY <1>1 DEF Typed, TakeJob
<1> DEFINE p == [pc |-> "dispatch", c |-> Head(jobq), op |-> "reply"]
<1>3. p \in Place
  BY <1>2, Places DEF Place
<1>4. p.c = Head(jobq) /\ p.pc = "dispatch" /\ p.op = "reply"
  OBVIOUS
<1>5. wk' = [wk EXCEPT ![w] = p]
  BY DEF TakeJob
<1> HIDE DEF p
<1>6. wk' \in [Worker -> Place] /\ wk'[w] = p /\ \A v \in Worker \ {w} : wk'[v] = wk[v]
  BY <1>1, <1>3, <1>5, Turns
<1>7. UserTurns(wk, wk', NULL, p.c)
  <2>1. UserTurns(wk, wk', wk[w].c, p.c)
    BY <1>1, <1>3, <1>5, Turns
  <2>2. QED BY <1>1, <2>1
<1>8. Typed'
  <2>1. Len(Tail(jobq)) \in Nat /\ Len(jobq) \in Nat /\ MaxJobs \in Nat
    BY <1>2
  <2>2. jobq' \in Seq(Conn) /\ Len(jobq') <= MaxJobs
    BY <1>2, <2>1 DEF TakeJob
  <2>3. QED BY <1>1, <1>6, <2>2 DEF Typed, TakeJob, pollVars
<1>9. jobq' \in Seq(Conn)
  BY <1>2 DEF TakeJob
<1>10. CountInv'
  <2> SUFFICES ASSUME NEW d \in Conn PROVE Holders(d)' <= conn[d].refno
    BY DEF CountInv, TakeJob
  <2>1. Holders(d) <= conn[d].refno
    BY Parts DEF CountInv
  <2>2. Cardinality(JobsOf(jobq', d)) = Cardinality(JobsOf(jobq, d)) - One(Head(jobq) = d)
    BY <1>2, JobTaken DEF TakeJob
  <2>3. Cardinality(JobsOf(jobq, d)) \in Nat /\ conn[d].refno \in Nat
    BY <1>1, CountsAre
  <2>4. conns' = conns /\ saved' = saved /\ chan' = chan
    BY DEF TakeJob
  <2>5. /\ Holders(d) \in Nat /\ Holders(d)' \in Nat
        /\ Holders(d)' = Holders(d) - One(NULL = d) + One(p.c = d)
              + Cardinality(JobsOf(jobq', d)) - Cardinality(JobsOf(jobq, d))
              + One(d \in conns') - One(d \in conns) + One(saved' = d) - One(saved = d)
              + One(chan' = d) - One(chan = d)
    BY <1>1, <1>9, <1>7, Recount
  <2>6. QED BY <1>4, <2>1, <2>2, <2>3, <2>4, <2>5 DEF One
<1>11. Exchanges(NULL, 0)
  <2>1. \A d \in Conn : Same(d)
    BY DEF TakeJob, Same
  <2>2. \A v \in Worker : Moved(v)
    BY <1>2, <1>6, <1>4 DEF Moved, Calm, TakeJob
  <2>3. QED BY <2>1, <2>2 DEF Exchanges, TakeJob, pollVars
<1>12. QED BY <1>8, <1>10, <1>11, ExchangeStep

LEMMA IncrefIs ==
  ASSUME NEW cs \in [Conn -> Object], NEW c \in Conn, NEW r, r = incref(cs, c)
  PROVE  /\ r \in [Conn -> Object]
         /\ \A d \in Conn \ {c} : r[d] = cs[d]
         /\ r[c].refno = cs[c].refno + 1
         /\ r[c].st = cs[c].st /\ r[c].fd = cs[c].fd /\ r[c].dead = cs[c].dead
         /\ r[c].buf = cs[c].buf /\ r[c].wsz = cs[c].wsz /\ r[c].wdone = cs[c].wdone
<1>1. cs[c].refno + 1 \in Nat
  BY DEF Object
<1> DEFINE o == [cs[c] EXCEPT !.refno = cs[c].refno + 1]
<1>2. /\ o \in Object /\ o.refno = cs[c].refno + 1
      /\ o.st = cs[c].st /\ o.fd = cs[c].fd /\ o.dead = cs[c].dead
      /\ o.buf = cs[c].buf /\ o.wsz = cs[c].wsz /\ o.wdone = cs[c].wdone
  BY <1>1 DEF Object
<1>3. r = [cs EXCEPT ![c] = o]
  BY DEF incref
<1> HIDE DEF o
<1>4. r \in [Conn -> Object] /\ r[c] = o /\ \A d \in Conn \ {c} : r[d] = cs[d]
  BY <1>2, <1>3
<1>5. QED BY <1>2, <1>4

LEMMA ClosedSocketIs ==
  ClosedSocket \in Socket /\ ClosedSocket.in = 0 /\ ClosedSocket.sent = 0
<1>1. 0 \in 0 .. MaxUnits
  OBVIOUS
<1>2. QED BY <1>1 DEF ClosedSocket, Socket

\* A reference to x is dropped in a step that also closes descriptors.
LEMMA Released ==
  ASSUME TransportIInv, NEW x \in Conn, conn[x].refno >= 1, NEW cs, cs = decref(conn, x),
         conn'[x] = cs[x],
         Dies(x) => /\ \A w \in Worker : wk'[w].c # x
                    /\ \A w \in Worker : wk[w].c = x => ~Removes(w)
  PROVE  /\ Same(x) \/ Gone(x)
         /\ CloseSockets(cs) =>
              /\ sock' \in [Fd -> Socket]
              /\ \A g \in Fd : \/ sock'[g] = sock[g]
                               \/ sock'[g] = ClosedSocket /\ \E d \in Conn : Gone(d) /\ conn[d].fd = g
         /\ \A g : g \in Closed(cs) => Gone(x) /\ conn[x].fd = g
<1>1. Typed /\ Open(x)
  BY Parts DEF ObjectsInv
<1>2. /\ Dies(x) => cs[x] = FreedObject
      /\ ~Dies(x) => /\ cs[x].st = conn[x].st /\ cs[x].fd = conn[x].fd /\ cs[x].dead = conn[x].dead
                     /\ cs[x].buf = conn[x].buf /\ cs[x].wsz = conn[x].wsz /\ cs[x].wdone = conn[x].wdone
  BY <1>1, DecrefSame
<1>3. CASE Dies(x)
  <2>1. \A f \in Fd : callbacks[f] # x
    BY <1>3, DeadUnregistered DEF Dies
  <2>2. Gone(x)
    BY <1>1, <1>2, <1>3, <2>1 DEF Gone
  <2>3. \A g : g \in Closed(cs) => conn[x].fd = g
    BY <1>1, ClosedIs
  <2>4. CloseSockets(cs) =>
          /\ sock' \in [Fd -> Socket]
          /\ \A g \in Fd : \/ sock'[g] = sock[g]
                           \/ sock'[g] = ClosedSocket /\ g \in Closed(cs)
    BY <1>1, ClosedSocketIs DEF CloseSockets, Typed
  <2>5. QED BY <2>2, <2>3, <2>4
<1>4. CASE ~Dies(x)
  <2>1. Same(x)
    BY <1>1, <1>2, <1>4 DEF Same
  <2>2. \A g : g \notin Closed(cs)
    BY <1>1, <1>4, ClosedIs
  <2>3. CloseSockets(cs) => /\ sock' \in [Fd -> Socket]
                            /\ \A g \in Fd : sock'[g] = sock[g]
    BY <1>1, <2>2 DEF CloseSockets, Typed
  <2>4. QED BY <2>1, <2>2, <2>3
<1>5. QED BY <1>3, <1>4

LEMMA DropRefStep ==
  ASSUME TransportIInv, NEW w \in Worker, DropRef(w)
  PROVE  TransportIInv'
<1> DEFINE x == wk[w].c
           cs == decref(conn, x)
<1>1. Typed /\ x \in Conn /\ Open(x) /\ conn[x].refno >= 1 /\ wk[w].pc = "decref" /\ x # NULL
  BY Parts, IdleHasNone DEF DropRef
<1>2. IdleWorker \in Place /\ IdleWorker.c = NULL /\ IdleWorker.pc = "idle" /\ IdleWorker.op = "none"
  BY Places DEF IdleWorker, Place
<1>3. wk' = [wk EXCEPT ![w] = IdleWorker] /\ conn' = cs /\ CloseSockets(cs)
  BY DEF DropRef
<1>4. wk' \in [Worker -> Place] /\ wk'[w] = IdleWorker /\ \A v \in Worker \ {w} : wk'[v] = wk[v]
  BY <1>1, <1>2, <1>3, Turns
<1>5. UserTurns(wk, wk', x, NULL)
  BY <1>1, <1>2, <1>3, Turns
<1> HIDE DEF x, cs
<1>6. Dies(x) => /\ \A v \in Worker : wk'[v].c # x
                 /\ \A v \in Worker : wk[v].c = x => ~Removes(v)
  <2>1. Dies(x) => \A v \in Worker \ {w} : wk[v].c # x
    BY <1>1, LastUser DEF Dies, x
  <2>2. ~Removes(w)
    BY <1>1 DEF Removes
  <2>3. QED BY <1>1, <1>2, <1>4, <2>1, <2>2
<1>7. /\ conn' \in [Conn -> Object]
      /\ \A d \in Conn \ {x} : conn'[d] = conn[d]
      /\ conn'[x].refno = conn[x].refno - 1
  BY <1>1, <1>3, DecrefSame DEF cs
<1>8. /\ Same(x) \/ Gone(x)
      /\ sock' \in [Fd -> Socket]
      /\ \A g \in Fd : \/ sock'[g] = sock[g]
                       \/ sock'[g] = ClosedSocket /\ \E d \in Conn : Gone(d) /\ conn[d].fd = g
  BY <1>1, <1>3, <1>6, Released DEF cs
<1>9. Typed'
  BY <1>1, <1>4, <1>7, <1>8 DEF Typed, DropRef, pollVars, ownerVars
<1>10. CountInv'
  <2> SUFFICES ASSUME NEW d \in Conn PROVE Holders(d)' <= conn'[d].refno
    BY DEF CountInv
  <2>1. Holders(d) <= conn[d].refno
    BY Parts DEF CountInv
  <2>2. jobq' = jobq /\ conns' = conns /\ saved' = saved /\ chan' = chan
    BY DEF DropRef, ownerVars
  <2>3. Cardinality(JobsOf(jobq, d)) \in Nat /\ conn[d].refno \in Nat /\ jobq \in Seq(Conn)
    BY <1>1, CountsAre DEF Typed
  <2>4. /\ Holders(d) \in Nat /\ Holders(d)' \in Nat
        /\ Holders(d)' = Holders(d) - One(x = d) + One(NULL = d)
              + Cardinality(JobsOf(jobq', d)) - Cardinality(JobsOf(jobq, d))
              + One(d \in conns') - One(d \in conns) + One(saved' = d) - One(saved = d)
              + One(chan' = d) - One(chan = d)
    BY <1>1, <1>5, <2>2, <2>3, Recount
  <2>5. CASE d = x
    <3>1. NULL # d /\ conn'[d].refno = conn[d].refno - 1
      BY <1>7, <2>5
    <3>2. QED BY <2>1, <2>2, <2>3, <2>4, <2>5, <3>1 DEF One
  <2>6. CASE d # x
    <3>1. NULL # d /\ conn'[d] = conn[d]
      BY <1>7, <2>6
    <3>2. QED BY <2>1, <2>2, <2>3, <2>4, <2>6, <3>1 DEF One
  <2>7. QED BY <2>5, <2>6
<1>11. Exchanges(NULL, 0)
  <2>1. \A d \in Conn : Same(d) \/ Gone(d)
    BY <1>7, <1>8 DEF Same
  <2>2. \A v \in Worker : Moved(v)
    BY <1>1, <1>2, <1>4 DEF Moved, Calm
  <2>3. QED BY <1>8, <2>1, <2>2 DEF Exchanges, DropRef, pollVars, ownerVars
<1>12. QED BY <1>9, <1>10, <1>11, ExchangeStep

\* Counts that move no less than the holders.
LEMMA Recounted ==
  ASSUME TransportIInv, Typed', jobq' = jobq, NEW a, NEW b, UserTurns(wk, wk', a, b),
         \A d \in Conn : conn'[d].refno >= conn[d].refno - One(a = d) + One(b = d)
                           + One(d \in conns') - One(d \in conns) + One(saved' = d) - One(saved = d)
                           + One(chan' = d) - One(chan = d)
  PROVE  CountInv'
<1> SUFFICES ASSUME NEW d \in Conn PROVE Holders(d)' <= conn'[d].refno
  BY DEF CountInv
<1>1. Typed /\ Holders(d) <= conn[d].refno
  BY Parts DEF CountInv
<1>2. /\ Cardinality(JobsOf(jobq, d)) \in Nat /\ conn[d].refno \in Nat /\ conn'[d].refno \in Nat
      /\ jobq' \in Seq(Conn)
  <2>1. conn' \in [Conn -> Object] /\ jobq' \in Seq(Conn)
    BY DEF Typed
  <2>2. Cardinality(JobsOf(jobq, d)) \in Nat /\ conn[d].refno \in Nat
    BY <1>1, CountsAre
  <2>3. QED BY <2>1, <2>2 DEF Object
<1> DEFINE j == Cardinality(JobsOf(jobq, d))
           x == One(a = d)         y == One(b = d)
           n == One(d \in conns)   m == One(d \in conns')
           s == One(saved = d)     t == One(saved' = d)
           h == One(chan = d)      i == One(chan' = d)
<1>3. /\ x \in {0, 1} /\ y \in {0, 1} /\ n \in {0, 1} /\ m \in {0, 1}
      /\ s \in {0, 1} /\ t \in {0, 1} /\ h \in {0, 1} /\ i \in {0, 1}
  BY DEF One
<1>4. /\ Holders(d) \in Nat /\ Holders(d)' \in Nat
      /\ Holders(d)' = Holders(d) - x + y + Cardinality(JobsOf(jobq', d)) - j + m - n + t - s + i - h
  BY <1>1, <1>2, Recount
<1>5. Cardinality(JobsOf(jobq', d)) = j /\ j \in Nat
  BY <1>2
<1>6. conn'[d].refno >= conn[d].refno - x + y + m - n + t - s + i - h
  OBVIOUS
<1> HIDE DEF j, x, y, n, m, s, t, h, i
<1> DEFINE q == 0 - x + y + m - n + t - s + i - h
<1>7. q \in Int
  BY <1>3
<1>8. Holders(d)' = Holders(d) + q
  BY <1>3, <1>4, <1>5
<1>9. conn'[d].refno >= conn[d].refno + q
  <2> DEFINE k == conn[d].refno
             l == conn'[d].refno
  <2>1. k \in Nat /\ l \in Nat
    BY <1>2
  <2>2. l >= k - x + y + m - n + t - s + i - h
    BY <1>6
  <2> HIDE DEF k, l
  <2>3. l >= k + q
    BY <1>3, <2>1, <2>2
  <2>4. QED BY <2>3 DEF k, l
<1>10. Holders(d) <= conn[d].refno
  BY <1>1
<1> HIDE DEF q
<1>11. QED BY <1>2, <1>4, <1>7, <1>8, <1>9, <1>10

LEMMA SendDeadStep ==
  ASSUME TransportIInv, NEW w \in Worker, SendDead(w)
  PROVE  TransportIInv'
<1> DEFINE p == AfterSend(w)
<1>1. /\ Typed /\ wk[w] \in Place /\ wk[w].c # NULL /\ wk[w].pc \in {"send", "turnWoken"}
  BY Parts, IdleHasNone DEF SendDead
<1>2. IdleWorker \in Place /\ IdleWorker.c = NULL /\ IdleWorker.pc = "idle" /\ IdleWorker.op = "none"
  BY Places DEF IdleWorker, Place
<1>3. /\ p \in Place
      /\ \/ p.pc = "idle" /\ p.c = NULL /\ p.op = "none"
         \/ p.pc = "decref" /\ p.c = wk[w].c
  BY <1>1, <1>2, Places DEF AfterSend, Place
<1>4. wk' = [wk EXCEPT ![w] = p]
  BY DEF SendDead
<1> HIDE DEF p
<1>5. wk' \in [Worker -> Place] /\ wk'[w] = p /\ \A v \in Worker \ {w} : wk'[v] = wk[v]
  BY <1>1, <1>3, <1>4, Turns
<1>6. UserTurns(wk, wk', wk[w].c, p.c)
  BY <1>1, <1>3, <1>4, Turns
<1>7. UNCHANGED <<conn, pollVars, loop, ownerVars, sock, aborted>>
  BY DEF SendDead
<1>8. Typed'
  BY <1>1, <1>5, <1>7 DEF Typed, pollVars, ownerVars
<1>9. CountInv'
  <2>1. ASSUME NEW d \in Conn
        PROVE  conn'[d].refno >= conn[d].refno - One(wk[w].c = d) + One(p.c = d)
                           + One(d \in conns') - One(d \in conns) + One(saved' = d) - One(saved = d)
                           + One(chan' = d) - One(chan = d)
    <3>1. conn'[d].refno = conn[d].refno /\ conn[d].refno \in Nat
      BY <1>1, <1>7, CountsAre
    <3>2. conns' = conns /\ saved' = saved /\ chan' = chan
      BY <1>7 DEF ownerVars
    <3>3. p.c = d => wk[w].c = d
      BY <1>3
    <3>4. QED BY <3>1, <3>2, <3>3 DEF One
  <2>2. jobq' = jobq
    BY <1>7 DEF ownerVars
  <2>3. QED BY <1>6, <1>8, <2>1, <2>2, Recounted
<1>10. Exchanges(NULL, 0)
  <2>1. \A d \in Conn : Same(d)
    BY <1>7 DEF Same
  <2>2. \A v \in Worker : Moved(v)
    BY <1>1, <1>3, <1>5 DEF Moved, Calm
  <2>3. QED BY <1>7, <2>1, <2>2 DEF Exchanges, pollVars, ownerVars
<1>11. QED BY <1>8, <1>9, <1>10, ExchangeStep

\* A reference to y is taken.
LEMMA Taken ==
  ASSUME TransportIInv, NEW y \in Conn, conn[y].refno >= 1, conn' = incref(conn, y)
  PROVE  /\ conn' \in [Conn -> Object] /\ \A d \in Conn : Same(d)
         /\ conn'[y].refno = conn[y].refno + 1
         /\ \A d \in Conn \ {y} : conn'[d].refno = conn[d].refno
<1>1. conn \in [Conn -> Object] /\ Open(y)
  BY Parts DEF Typed, ObjectsInv
<1> DEFINE r == incref(conn, y)
<1>2. /\ r \in [Conn -> Object]
      /\ \A d \in Conn \ {y} : r[d] = conn[d]
      /\ r[y].refno = conn[y].refno + 1
      /\ r[y].st = conn[y].st /\ r[y].fd = conn[y].fd /\ r[y].dead = conn[y].dead
      /\ r[y].buf = conn[y].buf /\ r[y].wsz = conn[y].wsz /\ r[y].wdone = conn[y].wdone
  BY <1>1, IncrefIs
<1> HIDE DEF r
<1>3. conn' = r
  BY DEF r
<1>4. QED BY <1>1, <1>2, <1>3 DEF Same

\* A reference to x is exchanged for one to y.
LEMMA Swapped ==
  ASSUME TransportIInv, NEW x \in Conn, NEW y \in Conn, x # y,
         conn[x].refno >= 1, conn[y].refno >= 1,
         conn' = incref(decref(conn, x), y), CloseSockets(decref(conn, x)),
         Dies(x) => /\ \A w \in Worker : wk'[w].c # x
                    /\ \A w \in Worker : wk[w].c = x => ~Removes(w)
  PROVE  /\ conn' \in [Conn -> Object] /\ \A d \in Conn : Same(d) \/ Gone(d)
         /\ sock' \in [Fd -> Socket]
         /\ \A g \in Fd : \/ sock'[g] = sock[g]
                          \/ sock'[g] = ClosedSocket /\ \E d \in Conn : Gone(d) /\ conn[d].fd = g
         /\ conn'[x].refno = conn[x].refno - 1
         /\ conn'[y].refno = conn[y].refno + 1
         /\ \A d \in Conn \ {x, y} : conn'[d].refno = conn[d].refno
<1> DEFINE cs == decref(conn, x)
           r == incref(cs, y)
<1>1. Typed /\ conn \in [Conn -> Object] /\ Open(y)
  BY Parts DEF Typed, ObjectsInv
<1>2. /\ cs \in [Conn -> Object]
      /\ \A d \in Conn \ {x} : cs[d] = conn[d]
      /\ cs[x].refno = conn[x].refno - 1
  BY <1>1, DecrefSame
<1> HIDE DEF cs
<1>3. /\ r \in [Conn -> Object]
      /\ \A d \in Conn \ {y} : r[d] = cs[d]
      /\ r[y].refno = cs[y].refno + 1
      /\ r[y].st = cs[y].st /\ r[y].fd = cs[y].fd /\ r[y].dead = cs[y].dead
      /\ r[y].buf = cs[y].buf /\ r[y].wsz = cs[y].wsz /\ r[y].wdone = cs[y].wdone
  BY <1>2, IncrefIs
<1>4. conn' = r
  BY DEF r, cs
<1> HIDE DEF r
<1>5. conn'[x] = cs[x]
  BY <1>3, <1>4
<1>6. /\ Same(x) \/ Gone(x)
      /\ sock' \in [Fd -> Socket]
      /\ \A g \in Fd : \/ sock'[g] = sock[g]
                       \/ sock'[g] = ClosedSocket /\ \E d \in Conn : Gone(d) /\ conn[d].fd = g
  BY <1>5, Released DEF cs
<1>7. ASSUME NEW d \in Conn, d # x PROVE Same(d)
  <2>1. CASE d = y
    BY <1>1, <1>2, <1>3, <1>4, <1>7, <2>1 DEF Same
  <2>2. CASE d # y
    BY <1>2, <1>3, <1>4, <1>7, <2>2 DEF Same
  <2>3. QED BY <2>1, <2>2
<1>8. QED BY <1>2, <1>3, <1>4, <1>6, <1>7

LEMMA LatestStep ==
  ASSUME TransportIInv, NEW w \in Worker, Latest(w)
  PROVE  TransportIInv'
<1> DEFINE x == wk[w].c
<1>1. /\ Typed /\ wk[w] \in Place /\ wk[w].pc = "latest"
      /\ x \in Conn /\ Open(x) /\ conn[x].refno >= 1 /\ x # NULL
  BY Parts, IdleHasNone DEF Latest
<1>2. saved \in Conn /\ conn[saved].refno >= 1 /\ saved # NULL
  <2>1. saved # NULL
    BY <1>1, Parts DEF WorkersInv
  <2>2. saved \in Conn
    BY <1>1, <2>1 DEF Typed
  <2>3. QED BY <2>1, <2>2, HeldIsOpen DEF TransportIInv
<1>3. UNCHANGED <<pollVars, loop, ownerVars, aborted>>
  BY DEF Latest
<1>4. ASSUME NEW p \in Place, wk' = [wk EXCEPT ![w] = p], p.pc = "send", p.op = wk[w].op,
             p.c \in Conn,
             conn' \in [Conn -> Object], sock' \in [Fd -> Socket],
             \A d \in Conn : Same(d) \/ Gone(d),
             \A g \in Fd : \/ sock'[g] = sock[g]
                           \/ sock'[g] = ClosedSocket /\ \E d \in Conn : Gone(d) /\ conn[d].fd = g,
             \A d \in Conn : conn'[d].refno = conn[d].refno - One(x = d) + One(p.c = d)
      PROVE  TransportIInv'
  <2>1. /\ wk' \in [Worker -> Place] /\ wk'[w] = p /\ \A v \in Worker \ {w} : wk'[v] = wk[v]
    BY <1>1, <1>4, Turns
  <2>2. UserTurns(wk, wk', x, p.c)
    BY <1>1, <1>4, Turns
  <2>3. Typed'
    BY <1>1, <1>3, <1>4, <2>1 DEF Typed, pollVars, ownerVars
  <2>4. CountInv'
    <3>1. jobq' = jobq /\ conns' = conns /\ saved' = saved /\ chan' = chan
      BY <1>3 DEF ownerVars
    <3>2. ASSUME NEW d \in Conn
          PROVE  conn'[d].refno >= conn[d].refno - One(x = d) + One(p.c = d)
                           + One(d \in conns') - One(d \in conns) + One(saved' = d) - One(saved = d)
                           + One(chan' = d) - One(chan = d)
      <4>1. conn'[d].refno = conn[d].refno - One(x = d) + One(p.c = d) /\ conn[d].refno \in Nat
        BY <1>1, <1>4, CountsAre
      <4>2. QED BY <3>1, <4>1 DEF One
    <3>3. QED BY <2>2, <2>3, <3>1, <3>2, Recounted
  <2>5. Exchanges(NULL, 0)
    <3>1. wk[w].op # "close"
      BY <1>1, Parts DEF WorkersInv, Removes
    <3>2. \A v \in Worker : Moved(v)
      BY <1>1, <1>4, <2>1, <3>1 DEF Moved, Calm
    <3>3. QED BY <1>3, <1>4, <3>2 DEF Exchanges, pollVars, ownerVars
  <2>6. QED BY <2>3, <2>4, <2>5, ExchangeStep
<1>5. CASE conn[x].dead /\ x # saved
  <2> DEFINE p == [wk[w] EXCEPT !.pc = "send", !.c = saved]
  <2>1. /\ p \in Place /\ p.pc = "send" /\ p.op = wk[w].op /\ p.c = saved
    BY <1>1, <1>2, Places DEF Place
  <2>2. /\ wk' = [wk EXCEPT ![w] = p]
        /\ conn' = incref(decref(conn, x), saved) /\ CloseSockets(decref(conn, x))
    BY <1>5 DEF Latest
  <2> HIDE DEF p, x
  <2>3. wk' \in [Worker -> Place] /\ wk'[w] = p /\ \A v \in Worker \ {w} : wk'[v] = wk[v]
    BY <1>1, <2>1, <2>2, Turns
  <2>4. Dies(x) => /\ \A v \in Worker : wk'[v].c # x
                   /\ \A v \in Worker : wk[v].c = x => ~Removes(v)
    <3>1. Dies(x) => \A v \in Worker \ {w} : wk[v].c # x
      BY <1>1, LastUser DEF Dies, x
    <3>2. ~Removes(w)
      BY <1>1 DEF Removes
    <3>3. QED BY <1>5, <2>1, <2>3, <3>1, <3>2
  <2>5. /\ conn' \in [Conn -> Object] /\ \A d \in Conn : Same(d) \/ Gone(d)
        /\ sock' \in [Fd -> Socket]
        /\ \A g \in Fd : \/ sock'[g] = sock[g]
                         \/ sock'[g] = ClosedSocket /\ \E d \in Conn : Gone(d) /\ conn[d].fd = g
        /\ conn'[x].refno = conn[x].refno - 1
        /\ conn'[saved].refno = conn[saved].refno + 1
        /\ \A d \in Conn \ {x, saved} : conn'[d].refno = conn[d].refno
    BY <1>1, <1>2, <1>5, <2>2, <2>4, Swapped
  <2>6. \A d \in Conn : conn[d].refno \in Nat
    BY <1>1, CountsAre
  <2>7. \A d \in Conn : conn'[d].refno = conn[d].refno - One(x = d) + One(p.c = d)
    BY <1>1, <1>2, <1>5, <2>1, <2>5, <2>6 DEF One
  <2>8. QED BY <1>2, <1>4, <2>1, <2>2, <2>5, <2>7
<1>6. CASE ~(conn[x].dead /\ x # saved)
  <2> DEFINE p == [wk[w] EXCEPT !.pc = "send"]
  <2>1. /\ p \in Place /\ p.pc = "send" /\ p.op = wk[w].op /\ p.c = x
    BY <1>1, Places DEF Place
  <2>2. /\ wk' = [wk EXCEPT ![w] = p] /\ conn' = conn /\ sock' = sock
    BY <1>6 DEF Latest
  <2> HIDE DEF p, x
  <2>3. \A d \in Conn : Same(d) /\ conn[d].refno \in Nat
    BY <1>1, <2>2, CountsAre DEF Same
  <2>4. ASSUME NEW d \in Conn
        PROVE  conn'[d].refno = conn[d].refno - One(x = d) + One(p.c = d)
    <3>1. conn'[d].refno = conn[d].refno /\ conn[d].refno \in Nat
      BY <2>2, <2>3
    <3>2. p.c = x
      BY <2>1
    <3>3. One(p.c = d) = One(x = d) /\ One(x = d) \in {0, 1}
      BY <3>2 DEF One
    <3>4. QED BY <3>1, <3>3
  <2>5. conn' \in [Conn -> Object] /\ sock' \in [Fd -> Socket]
    BY <1>1, <2>2 DEF Typed
  <2>6. QED BY <1>1, <1>4, <2>1, <2>2, <2>3, <2>4, <2>5
<1>7. QED BY <1>5, <1>6

\* The sockets that are closed are those of objects that go.
SocketsGo ==
    \A g \in Fd : \/ sock'[g] = sock[g]
                  \/ sock'[g] = ClosedSocket /\ \E d \in Conn : Gone(d) /\ conn[d].fd = g

\* How many of the tables, workers aside, point to d more than before.
OwnersGain(d) ==
    One(d \in conns') - One(d \in conns) + One(saved' = d) - One(saved = d)
    + One(chan' = d) - One(chan = d)

\* The thread w goes on to p, and the counts follow the pointers.
Turn(w, p) ==
    /\ wk' = [wk EXCEPT ![w] = p]
    /\ wk[w].pc \in Calm /\ p.pc \in Calm
    /\ p.pc = "idle" <=> p.c = NULL
    /\ p.pc = "latest" => saved' # NULL
    /\ p.op = "close" => p.pc = "decref"
    /\ \A d \in Conn :
         conn'[d].refno = conn[d].refno - One(wk[w].c = d) + One(p.c = d) + OwnersGain(d)

\* Nothing else moves but the tables and what goes with the last reference.
Kept ==
    /\ conn' \in [Conn -> Object] /\ \A d \in Conn : Same(d) \/ Gone(d)
    /\ sock' \in [Fd -> Socket] /\ SocketsGo
    /\ conns' \subseteq Conn /\ saved' \in Conn \cup {NULL} /\ chan' \in Conn \cup {NULL}
    /\ saved # NULL => saved' # NULL
    /\ calls' \in 0 .. MaxCalls
    /\ UNCHANGED <<pollVars, loop, jobq, aborted>>

LEMMA TurnKeeps ==
  ASSUME TransportIInv, NEW w \in Worker, NEW p \in Place, Turn(w, p), Kept
  PROVE  TransportIInv'
<1>1. Typed
  BY Parts
<1>2. wk' \in [Worker -> Place] /\ wk'[w] = p /\ \A v \in Worker \ {w} : wk'[v] = wk[v]
  BY <1>1, Turns DEF Turn
<1>3. UserTurns(wk, wk', wk[w].c, p.c)
  BY <1>1, Turns DEF Turn
<1>4. Typed'
  BY <1>1, <1>2 DEF Typed, pollVars, Kept
<1>5. CountInv'
  <2>1. ASSUME NEW d \in Conn
        PROVE  conn'[d].refno >= conn[d].refno - One(wk[w].c = d) + One(p.c = d)
                         + One(d \in conns') - One(d \in conns) + One(saved' = d) - One(saved = d)
                         + One(chan' = d) - One(chan = d)
    <3> DEFINE k == conn[d].refno      l == conn'[d].refno
               x == One(wk[w].c = d)   y == One(p.c = d)
               n == One(d \in conns)   m == One(d \in conns')
               s == One(saved = d)     t == One(saved' = d)
               h == One(chan = d)      i == One(chan' = d)
               g == OwnersGain(d)
    <3>1. /\ x \in {0, 1} /\ y \in {0, 1} /\ n \in {0, 1} /\ m \in {0, 1}
          /\ s \in {0, 1} /\ t \in {0, 1} /\ h \in {0, 1} /\ i \in {0, 1}
      BY DEF One
    <3>2. k \in Nat
      BY <1>1, CountsAre
    <3>3. g = m - n + t - s + i - h
      BY DEF OwnersGain
    <3>4. l = k - x + y + g
      BY DEF Turn
    <3> HIDE DEF k, l, x, y, n, m, s, t, h, i, g
    <3>5. l >= k - x + y + m - n + t - s + i - h
      BY <3>1, <3>2, <3>3, <3>4
    <3>6. QED BY <3>5 DEF k, l, x, y, n, m, s, t, h, i
  <2>2. jobq' = jobq
    BY DEF Kept
  <2>3. QED BY <1>3, <1>4, <2>1, <2>2, Recounted
<1>6. Exchanges(NULL, 0)
  <2>1. \A v \in Worker : Moved(v)
    BY <1>2 DEF Moved, Turn
  <2>2. QED BY <2>1 DEF Exchanges, pollVars, SocketsGo, Kept
<1>7. QED BY <1>4, <1>5, <1>6, ExchangeStep

LEMMA DispatchStep ==
  ASSUME TransportIInv, NEW w \in Worker, Dispatch(w)
  PROVE  TransportIInv'
<1> DEFINE c == wk[w].c
           cs == IF saved \in {c, NULL} THEN conn ELSE decref(conn, saved)
<1>1. /\ Typed /\ wk[w] \in Place /\ wk[w].pc = "dispatch" /\ wk[w].pc \in Calm
      /\ c \in Conn /\ Open(c) /\ conn[c].refno >= 1 /\ c # NULL
  BY Parts, IdleHasNone DEF Dispatch, Calm
<1>2. UNCHANGED <<pollVars, loop, jobq, conns, chan, calls, aborted>>
  BY DEF Dispatch
<1>3. /\ conn \in [Conn -> Object] /\ sock \in [Fd -> Socket] /\ conns' \subseteq Conn
      /\ saved \in Conn \cup {NULL} /\ chan' \in Conn \cup {NULL} /\ calls' \in 0 .. MaxCalls
      /\ \A d \in Conn : conn[d].refno \in Nat
  BY <1>1, <1>2, CountsAre DEF Typed
<1>4. wk[w].op # "close"
  BY <1>1, Parts DEF WorkersInv, Removes
<1>5. CASE /\ wk' = [wk EXCEPT ![w].pc = "send", ![w].op = "stale"]
           /\ UNCHANGED <<conn, saved, sock>>
  <2> DEFINE p == [wk[w] EXCEPT !.pc = "send", !.op = "stale"]
  <2>1. /\ p \in Place /\ p.pc = "send" /\ p.op = "stale" /\ p.c = c
    BY <1>1, Places DEF Place
  <2>2. wk' = [wk EXCEPT ![w] = p]
    BY <1>5
  <2> HIDE DEF p
  <2>3. ASSUME NEW d \in Conn
        PROVE  /\ Same(d)
               /\ conn'[d].refno = conn[d].refno - One(wk[w].c = d) + One(p.c = d) + OwnersGain(d)
    <3>1. OwnersGain(d) = 0
      BY <1>2, <1>5 DEF OwnersGain, One
    <3>2. p.c = wk[w].c
      BY <2>1
    <3>3. One(p.c = d) = One(wk[w].c = d) /\ One(wk[w].c = d) \in {0, 1}
      BY <3>2 DEF One
    <3>4. QED BY <1>3, <1>5, <3>1, <3>3 DEF Same
  <2>4. SocketsGo
    BY <1>5 DEF SocketsGo
  <2>5. p.pc \in Calm
    BY <2>1 DEF Calm
  <2>6. Turn(w, p)
    BY <1>1, <2>1, <2>2, <2>3, <2>5 DEF Turn
  <2>7. Kept
    BY <1>2, <1>3, <1>5, <2>3, <2>4 DEF Kept
  <2>8. QED BY <2>1, <2>6, <2>7, TurnKeeps
<1>6. CASE /\ \E pc \in {"decref", "send", "latest"} : wk' = [wk EXCEPT ![w].pc = pc]
           /\ conn' = IF saved = c THEN conn ELSE incref(cs, c)
           /\ saved' = c
           /\ CloseSockets(cs)
  <2>1. PICK pc \in {"decref", "send", "latest"} : wk' = [wk EXCEPT ![w].pc = pc]
    BY <1>6
  <2> DEFINE p == [wk[w] EXCEPT !.pc = pc]
  <2>2. /\ p \in Place /\ p.pc = pc /\ p.op = wk[w].op /\ p.c = c
    BY <1>1, Places DEF Place
  <2>3. wk' = [wk EXCEPT ![w] = p]
    BY <2>1
  <2>4. pc \in Calm /\ pc # "idle"
    BY DEF Calm
  <2> HIDE DEF p, c
  <2>5. ASSUME conn' \in [Conn -> Object], \A d \in Conn : Same(d) \/ Gone(d),
               sock' \in [Fd -> Socket], SocketsGo,
               \A d \in Conn : conn'[d].refno = conn[d].refno + One(saved' = d) - One(saved = d)
        PROVE  TransportIInv'
    <3>1. ASSUME NEW d \in Conn
          PROVE  conn'[d].refno = conn[d].refno - One(wk[w].c = d) + One(p.c = d) + OwnersGain(d)
      <4>1. conns' = conns /\ chan' = chan
        BY <1>2
      <4>2. OwnersGain(d) = One(saved' = d) - One(saved = d) /\ OwnersGain(d) \in Int
        BY <4>1 DEF OwnersGain, One
      <4>3. One(p.c = d) = One(wk[w].c = d) /\ One(wk[w].c = d) \in {0, 1}
        BY <2>2 DEF One, c
      <4>4. conn'[d].refno = conn[d].refno + One(saved' = d) - One(saved = d) /\ conn[d].refno \in Nat
        BY <1>3, <2>5
      <4>5. One(saved' = d) \in {0, 1} /\ One(saved = d) \in {0, 1}
        BY DEF One
      <4>6. QED BY <4>2, <4>3, <4>4, <4>5
    <3>2. saved' \in Conn /\ saved' # NULL
      BY <1>1, <1>6
    <3>3. Turn(w, p)
      BY <1>1, <1>4, <2>2, <2>3, <2>4, <3>1, <3>2 DEF Turn
    <3>4. Kept
      BY <1>2, <1>3, <2>5, <3>2 DEF Kept
    <3>5. QED BY <2>2, <3>3, <3>4, TurnKeeps
  <2>6. CASE saved \in {c, NULL}
    <3>1. cs = conn
      BY <2>6
    <3>2. \A g : g \notin Closed(conn)
      BY DEF Closed
    <3>3. sock' = sock
      BY <1>3, <1>6, <3>1, <3>2 DEF CloseSockets
    <3>4. SocketsGo /\ sock' \in [Fd -> Socket]
      BY <1>3, <3>3 DEF SocketsGo
    <3>5. CASE saved = c
      <4>1. conn' = conn /\ saved' = saved
        BY <1>6, <3>5
      <4>2. ASSUME NEW d \in Conn
            PROVE  Same(d) /\ conn'[d].refno = conn[d].refno + One(saved' = d) - One(saved = d)
        <5>1. conn[d].refno \in Nat /\ One(saved' = d) = One(saved = d) /\ One(saved = d) \in {0, 1}
          BY <1>3, <4>1 DEF One
        <5>2. QED BY <4>1, <5>1 DEF Same
      <4>3. QED BY <1>3, <2>5, <3>4, <4>1, <4>2
    <3>6. CASE saved # c
      <4>1. conn' = incref(conn, c) /\ saved = NULL /\ saved' = c
        BY <1>6, <2>6, <3>1, <3>6
      <4>2. /\ conn' \in [Conn -> Object] /\ \A d \in Conn : Same(d)
            /\ conn'[c].refno = conn[c].refno + 1
            /\ \A d \in Conn \ {c} : conn'[d].refno = conn[d].refno
        BY <1>1, <4>1, Taken
      <4>3. \A d \in Conn : conn'[d].refno = conn[d].refno + One(saved' = d) - One(saved = d)
        BY <1>3, <4>1, <4>2 DEF One
      <4>4. QED BY <2>5, <3>4, <4>2, <4>3
    <3>7. QED BY <3>5, <3>6
  <2>7. CASE saved \notin {c, NULL}
    <3>1. /\ saved \in Conn /\ saved # c /\ saved # NULL /\ saved' = c
          /\ conn' = incref(decref(conn, saved), c) /\ CloseSockets(decref(conn, saved))
      BY <1>3, <1>6, <2>7
    <3>2. conn[saved].refno >= 1
      BY <3>1, HeldIsOpen DEF TransportIInv
    <3>3. wk' \in [Worker -> Place] /\ wk'[w] = p /\ \A v \in Worker \ {w} : wk'[v] = wk[v]
      BY <1>1, <2>2, <2>3, Turns
    <3>4. Dies(saved) => /\ \A v \in Worker : wk'[v].c # saved
                         /\ \A v \in Worker : wk[v].c = saved => ~Removes(v)
      <4>1. Dies(saved) => \A v \in Worker : wk[v].c # saved
        BY <3>1, LastOwner DEF Dies
      <4>2. QED BY <2>2, <3>1, <3>3, <4>1
    <3>5. /\ conn' \in [Conn -> Object] /\ \A d \in Conn : Same(d) \/ Gone(d)
          /\ sock' \in [Fd -> Socket] /\ SocketsGo
          /\ conn'[saved].refno = conn[saved].refno - 1
          /\ conn'[c].refno = conn[c].refno + 1
          /\ \A d \in Conn \ {saved, c} : conn'[d].refno = conn[d].refno
      BY <1>1, <3>1, <3>2, <3>4, Swapped DEF SocketsGo
    <3>6. ASSUME NEW d \in Conn
          PROVE  conn'[d].refno = conn[d].refno + One(saved' = d) - One(saved = d)
      <4>1. conn[d].refno \in Nat
        BY <1>3
      <4>2. CASE d = saved
        <5>1. saved' # d /\ conn'[d].refno = conn[d].refno - 1
          BY <3>1, <3>5, <4>2
        <5>2. QED BY <4>1, <4>2, <5>1 DEF One
      <4>3. CASE d = c
        <5>1. saved' = d /\ saved # d /\ conn'[d].refno = conn[d].refno + 1
          BY <3>1, <3>5, <4>3
        <5>2. QED BY <4>1, <5>1 DEF One
      <4>4. CASE d \notin {saved, c}
        <5>1. saved' # d /\ saved # d /\ conn'[d].refno = conn[d].refno
          BY <3>1, <3>5, <4>4
        <5>2. QED BY <4>1, <5>1 DEF One
      <4>5. QED BY <4>2, <4>3, <4>4
    <3>7. QED BY <2>5, <3>5, <3>6
  <2>8. QED BY <2>6, <2>7
<1>7. QED BY <1>5, <1>6 DEF Dispatch

LEMMA NewConnectionIs ==
  ASSUME NEW cs \in [Conn -> Object], NEW c \in Conn, NEW f \in Fd, NEW srv \in BOOLEAN,
         NEW r, r = NewConnection(cs, c, f, srv)
  PROVE  /\ r \in [Conn -> Object] /\ \A d \in Conn \ {c} : r[d] = cs[d]
         /\ r[c].st = "open" /\ r[c].fd = f /\ ~r[c].dead /\ ~r[c].buf /\ r[c].refno = 1
<1> DEFINE o == [NoConnection EXCEPT !.st = "open", !.fd = f, !.srv = srv, !.refno = 1]
<1>1. 0 \in -1 .. PduLen /\ 0 \in 0 .. PduLen /\ 0 \in Nat /\ 1 \in Nat
  OBVIOUS
<1>2. /\ o \in Object /\ o.st = "open" /\ o.fd = f /\ ~o.dead /\ ~o.buf /\ o.refno = 1
  BY <1>1 DEF NoConnection, Object
<1>3. r = [cs EXCEPT ![c] = o]
  BY DEF NewConnection
<1> HIDE DEF o
<1>4. QED BY <1>2, <1>3

\* The kernel gives out f, one of the free descriptors.
NewSocket(cs, f) ==
    sock' = [g \in Fd |-> CASE g = f -> [ClosedSocket EXCEPT !.open = TRUE]
                            [] g # f /\ g \in Closed(cs) -> ClosedSocket
                            [] OTHER -> sock[g]]

\* The descriptors closed on the way are those of objects that go.
ClosedGo(cs) == \A g : g \in Closed(cs) => \E d \in Conn : Gone(d) /\ conn[d].fd = g

\* The tables of PollMgr and of the kernel when a connection is made.
LEMMA ConnectionMade ==
  ASSUME TransportIInv, NEW c \in Conn, ~Open(c), NEW cs, NEW f \in FreeFds(cs),
         ClosedGo(cs),
         add_callback(f, {"r"}, c), NewSocket(cs, f),
         conn'[c].st = "open", conn'[c].fd = f, ~conn'[c].dead, ~conn'[c].buf
  PROVE  /\ Made(c, f) /\ pending' = pending
         /\ sock' \in [Fd -> Socket] /\ callbacks' \in [Fd -> Conn \cup {NULL}]
         /\ rfds' \subseteq Fd /\ wfds' \subseteq Fd /\ pipe' \in BOOLEAN /\ aborted' \in BOOLEAN
         /\ \A g \in Fd \ {f} :
              /\ callbacks'[g] = callbacks[g]
              /\ \/ sock'[g] = sock[g]
                 \/ sock'[g] = ClosedSocket /\ \E d \in Conn : Gone(d) /\ conn[d].fd = g
<1>1. Typed /\ ObjectsInv
  BY Parts
<1>2. ASSUME NEW d \in Conn, Open(d), conn[d].fd = f PROVE Gone(d) /\ f \in Fd
  <2>1. f \in Fd /\ sock[f].open
    BY <1>1, <1>2 DEF ObjectsInv
  <2>2. f \in Closed(cs)
    BY <2>1 DEF FreeFds
  <2>3. PICK e \in Conn : Gone(e) /\ conn[e].fd = f
    BY <2>2 DEF ClosedGo
  <2>4. e = d
    BY <1>1, <1>2, <2>3 DEF ObjectsInv, Gone
  <2>5. QED BY <2>1, <2>3, <2>4
<1>3. f \in Fd
  <2>1. CASE f \in Closed(cs)
    <3>1. PICK e \in Conn : Gone(e) /\ conn[e].fd = f
      BY <2>1 DEF ClosedGo
    <3>2. QED BY <1>2, <3>1 DEF Gone
  <2>2. QED BY <2>1 DEF FreeFds
<1> DEFINE o == [ClosedSocket EXCEPT !.open = TRUE]
<1>4. o \in Socket /\ o.open /\ o.in = 0 /\ o.sent = 0
  <2>1. 0 \in 0 .. MaxUnits
    OBVIOUS
  <2>2. QED BY <2>1 DEF ClosedSocket, Socket
<1>5. sock' = [g \in Fd |-> IF g = f THEN o ELSE IF g \in Closed(cs) THEN ClosedSocket ELSE sock[g]]
  BY DEF NewSocket
<1> HIDE DEF o
<1>6. /\ sock' \in [Fd -> Socket] /\ sock'[f] = o
      /\ \A g \in Fd \ {f} : \/ sock'[g] = sock[g]
                             \/ sock'[g] = ClosedSocket /\ g \in Closed(cs)
  BY <1>1, <1>3, <1>4, <1>5, ClosedSocketIs DEF Typed
<1>7. /\ callbacks' = [callbacks EXCEPT ![f] = c] /\ pending' = pending
      /\ rfds' = rfds \cup {f} /\ wfds' = wfds /\ pipe' = TRUE
      /\ aborted' \in BOOLEAN
  BY DEF add_callback, watch_fd
<1>8. /\ callbacks' \in [Fd -> Conn \cup {NULL}] /\ callbacks'[f] = c
      /\ \A g \in Fd \ {f} : callbacks'[g] = callbacks[g]
  BY <1>1, <1>3, <1>7 DEF Typed
<1>9. Made(c, f)
  BY <1>2, <1>3, <1>4, <1>6, <1>7, <1>8 DEF Made
<1>10. rfds' \subseteq Fd /\ wfds' \subseteq Fd /\ pipe' \in BOOLEAN
  BY <1>1, <1>3, <1>7 DEF Typed
<1>11. QED BY <1>6, <1>7, <1>8, <1>9, <1>10 DEF ClosedGo

LEMMA UnusedIs ==
  ASSUME TransportIInv, Unused # {}
  PROVE  Min(Unused) \in Conn /\ ~Open(Min(Unused)) /\ conn[Min(Unused)].refno = 0
<1>1. Unused \subseteq Nat
  BY DEF Unused
<1>2. Min(Unused) \in Unused
  BY <1>1, MinIsMember
<1>3. Min(Unused) \in Conn /\ ~Open(Min(Unused))
  BY <1>2 DEF Unused, Open
<1>4. QED BY <1>3, Parts DEF ObjectsInv

LEMMA FreeFdIs ==
  ASSUME Typed, NEW cs, FreeFds(cs) # {}
  PROVE  Min(FreeFds(cs)) \in FreeFds(cs)
<1>1. ASSUME NEW c \in Conn PROVE conn[c].fd \in Nat
  <2>1. conn[c] \in Object
    BY DEF Typed
  <2>2. conn[c].fd \in Fd \cup {0}
    BY <2>1 DEF Object
  <2>3. CASE conn[c].fd \in Fd
    BY <2>3
  <2>4. CASE conn[c].fd = 0
    BY <2>4
  <2>5. QED BY <2>2, <2>3, <2>4
<1>2. FreeFds(cs) \subseteq Nat
  BY <1>1 DEF FreeFds, Closed
<1>3. QED BY <1>2, MinIsMember

\* get_refconn lets a dead channel go.
LEMMA ChannelGoes ==
  ASSUME TransportIInv, chan # NULL, isdead(chan), NEW cs, cs = decref(conn, chan),
         conn'[chan] = cs[chan], \A w \in Worker : wk'[w].c = chan => wk[w].c = chan
  PROVE  /\ chan \in Conn /\ cs \in [Conn -> Object] /\ conn[chan].refno >= 1
         /\ Open(chan) /\ \A d \in Conn \ {chan} : cs[d] = conn[d]
         /\ cs[chan].refno = conn[chan].refno - 1
         /\ Same(chan) \/ Gone(chan)
         /\ CloseSockets(cs) => sock' \in [Fd -> Socket] /\ SocketsGo
         /\ ClosedGo(cs)
<1>1. chan \in Conn /\ Typed
  BY Parts DEF Typed
<1>2. conn[chan].refno >= 1 /\ Open(chan)
  BY <1>1, HeldIsOpen DEF TransportIInv
<1>3. /\ cs \in [Conn -> Object] /\ \A d \in Conn \ {chan} : cs[d] = conn[d]
      /\ cs[chan].refno = conn[chan].refno - 1
  <2>1. Typed /\ chan \in Conn /\ conn[chan].refno >= 1 /\ cs = decref(conn, chan)
    BY <1>1, <1>2
  <2>2. QED BY <2>1, DecrefSame, ZenonT(30)
<1>4. Dies(chan) => \A w \in Worker : wk[w].c # chan
  BY <1>1, LastOwner DEF Dies
<1>5. Dies(chan) => /\ \A w \in Worker : wk'[w].c # chan
                    /\ \A w \in Worker : wk[w].c = chan => ~Removes(w)
  BY <1>4
<1> DEFINE goes ==
             \A g \in Fd : \/ sock'[g] = sock[g]
                           \/ sock'[g] = ClosedSocket /\ \E d \in Conn : Gone(d) /\ conn[d].fd = g
           x == chan
<1>6. /\ x \in Conn /\ conn[x].refno >= 1 /\ cs = decref(conn, x) /\ conn'[x] = cs[x]
      /\ Dies(x) => /\ \A w \in Worker : wk'[w].c # x
                    /\ \A w \in Worker : wk[w].c = x => ~Removes(w)
  BY <1>1, <1>2, <1>5
<1>7. goes <=> SocketsGo
  BY DEF SocketsGo
<1> HIDE DEF x
<1>8. /\ Same(x) \/ Gone(x)
      /\ CloseSockets(cs) => sock' \in [Fd -> Socket] /\ goes
      /\ \A g : g \in Closed(cs) => Gone(x) /\ conn[x].fd = g
  BY <1>6, Released
<1> HIDE DEF goes
<1> USE DEF x
<1>9. ClosedGo(cs)
  BY <1>1, <1>8 DEF ClosedGo
<1>10. QED BY <1>1, <1>2, <1>3, <1>7, <1>8, <1>9

LEMMA CallStep ==
  ASSUME TransportIInv, NEW w \in Worker, Call(w)
  PROVE  TransportIInv'
<1> DEFINE stale == chan # NULL /\ isdead(chan)
           cs == IF stale THEN decref(conn, chan) ELSE conn
<1>1. /\ Typed /\ wk[w] \in Place /\ wk[w].pc = "idle" /\ wk[w].pc \in Calm /\ wk[w].c = NULL
  BY Parts, IdleHasNone DEF Call, Calm
<1>2. UNCHANGED <<loop, jobq, conns, saved>> /\ calls' \in 0 .. MaxCalls
  BY <1>1 DEF Call, Typed
<1>3. /\ conn \in [Conn -> Object] /\ sock \in [Fd -> Socket] /\ conns' \subseteq Conn
      /\ saved' \in Conn \cup {NULL} /\ chan \in Conn \cup {NULL}
      /\ \A d \in Conn : conn[d].refno \in Nat
  BY <1>1, <1>2, CountsAre DEF Typed
<1>4. wk[w].op # "close"
  BY <1>1, Parts DEF WorkersInv, Removes
<1>5. CASE /\ chan # NULL /\ ~stale
           /\ conn' = incref(conn, chan)
           /\ wk' = [wk EXCEPT ![w] = [pc |-> "send", c |-> chan, op |-> "call"]]
           /\ UNCHANGED <<chan, sock, pollVars, aborted>>
  <2> DEFINE p == [pc |-> "send", c |-> chan, op |-> "call"]
  <2>1. chan \in Conn /\ conn[chan].refno >= 1
    BY <1>3, <1>5, HeldIsOpen DEF TransportIInv
  <2>2. p \in Place /\ p.pc \in Calm /\ p.pc = "send" /\ p.c = chan /\ p.op = "call"
    BY <2>1, Places DEF Place, Calm
  <2>3. wk' = [wk EXCEPT ![w] = p]
    BY <1>5
  <2> HIDE DEF p
  <2>4. /\ conn' \in [Conn -> Object] /\ \A d \in Conn : Same(d)
        /\ conn'[chan].refno = conn[chan].refno + 1
        /\ \A d \in Conn \ {chan} : conn'[d].refno = conn[d].refno
    BY <1>5, <2>1, Taken
  <2>5. ASSUME NEW d \in Conn
        PROVE  conn'[d].refno = conn[d].refno - One(wk[w].c = d) + One(p.c = d) + OwnersGain(d)
    <3>1. OwnersGain(d) = 0
      BY <1>2, <1>5 DEF OwnersGain, One
    <3>2. One(wk[w].c = d) = 0
      BY <1>1 DEF One
    <3>3. conn'[d].refno = conn[d].refno + One(p.c = d)
      BY <1>3, <2>1, <2>2, <2>4 DEF One
    <3> DEFINE o == One(p.c = d)
    <3>4. o \in {0, 1}
      BY DEF One
    <3>5. conn'[d].refno = conn[d].refno - 0 + o + 0
      <4>1. conn'[d].refno = conn[d].refno + o /\ conn[d].refno \in Nat
        BY <1>3, <3>3
      <4> HIDE DEF o
      <4>2. QED BY <3>4, <4>1
    <3>6. QED BY <3>1, <3>2, <3>5
  <2>6. Turn(w, p)
    BY <1>1, <1>5, <2>2, <2>3, <2>5 DEF Turn
  <2>7. Kept
    BY <1>2, <1>3, <1>5, <2>4 DEF Kept, SocketsGo
  <2>8. QED BY <2>2, <2>6, <2>7, TurnKeeps
<1>6. CASE /\ chan = NULL \/ stale
           /\ conn' = cs
           /\ chan' = NULL
           /\ CloseSockets(cs)
           /\ UNCHANGED <<wk, pollVars, aborted>>
  <2> DEFINE p == wk[w]
  <2>1. wk' = [wk EXCEPT ![w] = p]
    BY <1>1, <1>6 DEF Typed
  <2>2. /\ conn' \in [Conn -> Object] /\ \A d \in Conn : Same(d) \/ Gone(d)
        /\ sock' \in [Fd -> Socket] /\ SocketsGo
        /\ \A d \in Conn : conn'[d].refno = conn[d].refno - One(chan = d)
    <3>1. CASE chan = NULL
      <4>1. conn' = conn /\ \A g : g \notin Closed(conn)
        BY <1>6, <3>1 DEF Closed
      <4>2. sock' = sock
        BY <1>3, <1>6, <3>1, <4>1 DEF CloseSockets
      <4>3. \A d \in Conn : One(chan = d) = 0
        BY <3>1 DEF One
      <4>4. QED BY <1>3, <4>1, <4>2, <4>3 DEF Same, SocketsGo
    <3>2. CASE chan # NULL
      <4>1. stale /\ cs = decref(conn, chan)
        BY <1>6, <3>2
      <4> HIDE DEF cs
      <4>2. /\ chan \in Conn /\ cs \in [Conn -> Object]
            /\ \A d \in Conn \ {chan} : cs[d] = conn[d]
            /\ cs[chan].refno = conn[chan].refno - 1
            /\ Same(chan) \/ Gone(chan)
            /\ sock' \in [Fd -> Socket] /\ SocketsGo
        BY <1>6, <3>2, <4>1, ChannelGoes
      <4>3. \A d \in Conn : Same(d) \/ Gone(d)
        BY <1>6, <4>2 DEF Same
      <4>4. \A d \in Conn : conn'[d].refno = conn[d].refno - One(chan = d)
        BY <1>3, <1>6, <4>2 DEF One
      <4>5. QED BY <1>6, <4>2, <4>3, <4>4
    <3>3. QED BY <3>1, <3>2
  <2>3. ASSUME NEW d \in Conn
        PROVE  conn'[d].refno = conn[d].refno - One(wk[w].c = d) + One(p.c = d) + OwnersGain(d)
    <3>1. OwnersGain(d) = 0 - One(chan = d) /\ One(chan = d) \in {0, 1}
      BY <1>2, <1>6 DEF OwnersGain, One
    <3>2. One(wk[w].c = d) = 0
      BY <1>1 DEF One
    <3>3. conn'[d].refno = conn[d].refno - One(chan = d) /\ conn[d].refno \in Nat
      BY <1>3, <2>2
    <3> DEFINE o == One(chan = d)
    <3>4. o \in {0, 1} /\ OwnersGain(d) = 0 - o /\ conn'[d].refno = conn[d].refno - o
      BY <3>1, <3>3
    <3> HIDE DEF o
    <3>5. conn'[d].refno = conn[d].refno - 0 + 0 + OwnersGain(d)
      BY <3>3, <3>4
    <3>6. QED BY <3>2, <3>5
  <2>4. Turn(w, p)
    BY <1>1, <1>4, <2>1, <2>3 DEF Turn
  <2>5. Kept
    BY <1>2, <1>3, <1>6, <2>2 DEF Kept
  <2>6. QED BY <1>1, <2>4, <2>5, TurnKeeps
<1>7. CASE /\ chan = NULL \/ stale
           /\ Unused # {} /\ FreeFds(cs) # {}
           /\ LET c == Min(Unused)
                  f == Min(FreeFds(cs)) IN
              /\ connect_to_dst(cs, c, f)
              /\ chan' = c
              /\ wk' = [wk EXCEPT ![w] = [pc |-> "send", c |-> c, op |-> "call"]]
  <2> DEFINE c == Min(Unused)
             f == Min(FreeFds(cs))
             p == [pc |-> "send", c |-> c, op |-> "call"]
             ns == NewConnection(cs, c, f, FALSE)
  <2>1. c \in Conn /\ ~Open(c) /\ conn[c].refno = 0 /\ c # NULL
    BY <1>7, UnusedIs
  <2>2. f \in FreeFds(cs)
    BY <1>1, <1>7, FreeFdIs
  <2>3. /\ conn' = incref(ns, c) /\ add_callback(f, {"r"}, c) /\ NewSocket(cs, f)
        /\ chan' = c /\ wk' = [wk EXCEPT ![w] = p]
    BY <1>7 DEF connect_to_dst, NewSocket
  <2>4. p \in Place /\ p.pc \in Calm /\ p.pc = "send" /\ p.c = c /\ p.op = "call"
    BY <2>1, Places DEF Place, Calm
  <2> HIDE DEF p, c, f
  <2>5. /\ wk' \in [Worker -> Place] /\ wk'[w] = p /\ \A v \in Worker \ {w} : wk'[v] = wk[v]
    BY <1>1, <2>3, <2>4, Turns
  <2>6. UserTurns(wk, wk', NULL, c)
    <3>1. UserTurns(wk, wk', wk[w].c, p.c)
      BY <1>1, <2>3, <2>4, Turns
    <3>2. QED BY <1>1, <2>4, <3>1
  <2>7. c # chan
    BY <2>1, HeldIsOpen DEF TransportIInv
  <2>8. \A v \in Worker : wk'[v].c = chan /\ chan # NULL => wk[v].c = chan
    BY <2>4, <2>5, <2>7
  <2>9. cs \in [Conn -> Object]
    <3>1. CASE stale
      <4>1. chan \in Conn /\ conn[chan].refno >= 1
        BY <1>3, <3>1, HeldIsOpen DEF TransportIInv
      <4>2. QED BY <1>1, <3>1, <4>1, DecrefSame
    <3>2. QED BY <1>3, <3>1
  <2> HIDE DEF cs
  <2>10. f \in Fd
    <3>1. CASE f \in Closed(cs)
      BY <1>3, <3>1, Parts DEF Closed, ObjectsInv, Open
    <3>2. QED BY <2>2, <3>1 DEF FreeFds
  <2> DEFINE srv == FALSE
  <2>11. ns = NewConnection(cs, c, f, srv) /\ srv \in BOOLEAN
    OBVIOUS
  <2> HIDE DEF ns, srv
  <2>12. /\ ns \in [Conn -> Object] /\ \A d \in Conn \ {c} : ns[d] = cs[d]
         /\ ns[c].st = "open" /\ ns[c].fd = f /\ ~ns[c].dead /\ ~ns[c].buf /\ ns[c].refno = 1
    BY <2>1, <2>9, <2>10, <2>11, NewConnectionIs
  <2>13. /\ conn' \in [Conn -> Object] /\ \A d \in Conn \ {c} : conn'[d] = cs[d]
         /\ conn'[c].st = "open" /\ conn'[c].fd = f /\ ~conn'[c].dead /\ ~conn'[c].buf
         /\ conn'[c].refno = 2
    <3>1. /\ conn' \in [Conn -> Object]
          /\ \A d \in Conn \ {c} : conn'[d] = ns[d]
          /\ conn'[c].refno = ns[c].refno + 1
          /\ conn'[c].st = ns[c].st /\ conn'[c].fd = ns[c].fd /\ conn'[c].dead = ns[c].dead
          /\ conn'[c].buf = ns[c].buf
      <4>1. ns \in [Conn -> Object] /\ c \in Conn /\ conn' = incref(ns, c)
        BY <2>1, <2>3, <2>12
      <4>2. QED BY <4>1, IncrefIs
    <3>2. conn'[c].refno = 2 /\ ~conn'[c].dead /\ ~conn'[c].buf
      BY <2>12, <3>1
    <3>3. QED BY <2>12, <3>1, <3>2
  <2>14. /\ \A d \in Conn \ {c} : Same(d) \/ Gone(d)
         /\ \A d \in Conn \ {c} : conn'[d].refno = conn[d].refno - One(chan = d)
         /\ ClosedGo(cs)
    <3>1. CASE ~stale
      <4>1. cs = conn /\ chan = NULL
        BY <1>7, <3>1 DEF cs
      <4>2. \A d \in Conn : One(chan = d) = 0
        BY <4>1 DEF One
      <4>3. QED BY <1>3, <2>13, <4>1, <4>2 DEF Same, Closed, ClosedGo
    <3>2. CASE stale
      <4>1. cs = decref(conn, chan) /\ chan \in Conn /\ conn'[chan] = cs[chan]
        BY <1>3, <2>7, <2>13, <3>2 DEF cs
      <4>2. /\ \A d \in Conn \ {chan} : cs[d] = conn[d]
            /\ cs[chan].refno = conn[chan].refno - 1
            /\ Same(chan) \/ Gone(chan)
            /\ ClosedGo(cs)
        BY <2>8, <3>2, <4>1, ChannelGoes
      <4>3. \A d \in Conn \ {c} : Same(d) \/ Gone(d)
        BY <2>13, <4>2 DEF Same
      <4>4. ASSUME NEW d \in Conn \ {c} PROVE conn'[d].refno = conn[d].refno - One(chan = d)
        <5>1. conn'[d] = cs[d] /\ conn[d].refno \in Nat
          BY <1>3, <2>13
        <5>2. CASE d = chan
          BY <4>2, <5>1, <5>2 DEF One
        <5>3. CASE d # chan
          BY <4>2, <5>1, <5>3 DEF One
        <5>4. QED BY <5>2, <5>3
      <4>5. QED BY <4>2, <4>3, <4>4
    <3>3. QED BY <3>1, <3>2
  <2>15. /\ Made(c, f) /\ pending' = pending
         /\ sock' \in [Fd -> Socket] /\ callbacks' \in [Fd -> Conn \cup {NULL}]
         /\ rfds' \subseteq Fd /\ wfds' \subseteq Fd /\ pipe' \in BOOLEAN /\ aborted' \in BOOLEAN
         /\ \A g \in Fd \ {f} :
              /\ callbacks'[g] = callbacks[g]
              /\ \/ sock'[g] = sock[g]
                 \/ sock'[g] = ClosedSocket /\ \E d \in Conn : Gone(d) /\ conn[d].fd = g
    <3>1. /\ c \in Conn /\ ~Open(c) /\ f \in FreeFds(cs) /\ ClosedGo(cs)
          /\ add_callback(f, {"r"}, c) /\ NewSocket(cs, f)
          /\ conn'[c].st = "open" /\ conn'[c].fd = f /\ ~conn'[c].dead /\ ~conn'[c].buf
      BY <2>1, <2>2, <2>3, <2>13, <2>14
    <3>2. QED BY <3>1, ConnectionMade
  <2>16. Typed'
    BY <1>1, <1>2, <1>3, <2>1, <2>3, <2>5, <2>13, <2>15 DEF Typed
  <2>17. CountInv'
    <3>1. ASSUME NEW d \in Conn
          PROVE  conn'[d].refno >= conn[d].refno - One(NULL = d) + One(c = d)
                         + One(d \in conns') - One(d \in conns) + One(saved' = d) - One(saved = d)
                         + One(chan' = d) - One(chan = d)
      <4>1. conns' = conns /\ saved' = saved /\ chan' = c
        BY <1>2, <2>3
      <4>2. conn[d].refno \in Nat /\ conn'[d].refno \in Nat
        BY <1>3, <2>13 DEF Object
      <4>3. CASE d = c
        <5>1. conn[d].refno = 0 /\ conn'[d].refno = 2 /\ chan # d /\ NULL # d
          BY <2>1, <2>7, <2>13, <4>3
        <5>2. QED BY <4>1, <5>1 DEF One
      <4>4. CASE d # c
        <5>1. conn'[d].refno = conn[d].refno - One(chan = d) /\ NULL # d
          BY <2>14, <4>4
        <5>2. QED BY <4>1, <4>2, <4>4, <5>1 DEF One
      <4>5. QED BY <4>3, <4>4
    <3>2. jobq' = jobq
      BY <1>2
    <3>3. QED BY <2>6, <2>16, <3>1, <3>2, Recounted
  <2>18. Exchanges(c, f)
    <3>1. \A v \in Worker : Moved(v)
      BY <1>1, <2>1, <2>4, <2>5 DEF Moved
    <3>2. QED BY <1>2, <2>1, <2>14, <2>15, <3>1 DEF Exchanges
  <2>19. QED BY <2>16, <2>17, <2>18, ExchangeStep
<1>8. QED BY <1>5, <1>6, <1>7 DEF Call

LEMMA AcceptStep ==
  ASSUME TransportIInv, accept_conn
  PROVE  TransportIInv'
<1> DEFINE garbage == {c \in conns : isdead(c) /\ ref(c) = 1}
           c == Min(Unused)
           f == Min(FreeFds(conn))
           cs(S) == [d \in Conn |-> IF d \in S THEN decref(conn, d)[d] ELSE conn[d]]
<1>1. PICK S \in SUBSET garbage :
        /\ conn' = NewConnection(cs(S), c, f, TRUE)
        /\ conns' = (conns \ S) \cup {c}
        /\ add_callback(f, {"r"}, c)
        /\ NewSocket(cs(S), f)
  BY DEF accept_conn, process_accept, NewSocket
<1> DEFINE r == cs(S)
<1>2. UNCHANGED <<loop, wk, jobq, saved, chan, calls>> /\ Unused # {} /\ FreeFds(conn) # {}
  BY DEF accept_conn, process_accept
<1>3. /\ Typed /\ conn \in [Conn -> Object] /\ conns \subseteq Conn
      /\ \A d \in Conn : conn[d].refno \in Nat
  BY Parts, CountsAre DEF Typed
<1>4. c \in Conn /\ ~Open(c) /\ conn[c].refno = 0 /\ c # NULL
  BY <1>2, UnusedIs
<1>5. f \in FreeFds(conn) /\ f \in Fd /\ ~sock[f].open
  <2>1. f \in FreeFds(conn)
    BY <1>2, <1>3, FreeFdIs
  <2>2. \A g : g \notin Closed(conn)
    BY DEF Closed
  <2>3. QED BY <2>1, <2>2 DEF FreeFds
<1> HIDE DEF c, f
<1>6. ASSUME NEW d \in S
      PROVE  /\ d \in Conn /\ d \in conns /\ Open(d) /\ conn[d].dead /\ conn[d].refno = 1
             /\ r[d] = FreedObject
             /\ \A w \in Worker : wk[w].c # d
             /\ \A g \in Fd : callbacks[g] # d
  <2>1. d \in Conn /\ d \in conns /\ conn[d].dead /\ conn[d].refno = 1
    BY <1>3 DEF isdead, ref
  <2>2. Open(d)
    BY <2>1, HeldIsOpen DEF TransportIInv
  <2>3. r[d] = decref(conn, d)[d]
    BY <2>1
  <2>4. Dies(d)
    BY <2>1, <2>2 DEF Dies
  <2>5. decref(conn, d)[d] = FreedObject
    <3>1. conn \in [Conn -> Object] /\ d \in Conn /\ conn[d].refno >= 1
      BY <1>3, <2>1
    <3> HIDE DEF r
    <3>2. QED BY <2>4, <3>1, DecrefIs
  <2>6. \A w \in Worker : wk[w].c # d
    BY <2>1, LastOwner
  <2>7. \A g \in Fd : callbacks[g] # d
    BY <2>1, <2>6, DeadUnregistered
  <2>8. QED BY <2>1, <2>2, <2>3, <2>5, <2>6, <2>7
<1>7. r \in [Conn -> Object] /\ \A d \in Conn : d \notin S => r[d] = conn[d]
  <2>1. ASSUME NEW d \in Conn
        PROVE  (IF d \in S THEN decref(conn, d)[d] ELSE conn[d]) \in Object
    <3>1. CASE d \in S
      BY <1>6, <3>1, FreedIs
    <3>2. CASE d \notin S
      BY <1>3, <3>2
    <3>3. QED BY <3>1, <3>2
  <2>2. QED BY <2>1
<1> DEFINE srv == TRUE
<1>8. /\ conn' = NewConnection(r, c, f, srv) /\ srv \in BOOLEAN
      /\ NewSocket(r, f) /\ add_callback(f, {"r"}, c)
  BY <1>1
<1>9. c \notin S /\ c \notin conns
  BY <1>3, <1>4, HeldIsOpen DEF TransportIInv
<1> HIDE DEF srv, r
<1>10. /\ conn' \in [Conn -> Object] /\ \A d \in Conn \ {c} : conn'[d] = r[d]
       /\ conn'[c].st = "open" /\ conn'[c].fd = f /\ ~conn'[c].dead /\ ~conn'[c].buf
       /\ conn'[c].refno = 1
  <2>1. /\ r \in [Conn -> Object] /\ c \in Conn /\ f \in Fd /\ srv \in BOOLEAN
        /\ conn' = NewConnection(r, c, f, srv)
    BY <1>4, <1>5, <1>7, <1>8
  <2>2. QED BY <2>1, NewConnectionIs
<1>11. ASSUME NEW d \in S PROVE Gone(d)
  <2>1. conn'[d] = r[d] /\ r[d] = FreedObject
    BY <1>6, <1>9, <1>10
  <2>2. Open(d) /\ \A w \in Worker : wk'[w].c # d
    BY <1>2, <1>6
  <2>3. \A g \in Fd : callbacks[g] # d
    BY <1>6
  <2>4. QED BY <2>1, <2>2, <2>3 DEF Gone
<1>12. \A d \in Conn \ {c} : d \in S \/ (conn'[d] = conn[d] /\ Same(d))
  BY <1>7, <1>10 DEF Same
<1>13. ClosedGo(r)
  <2>1. ASSUME NEW g, g \in Closed(r) PROVE \E d \in Conn : Gone(d) /\ conn[d].fd = g
    <3>1. PICK d \in Conn : conn[d].st = "open" /\ r[d].st = "freed" /\ conn[d].fd = g
      BY <2>1 DEF Closed
    <3>2. d \in S
      BY <1>7, <3>1
    <3>3. QED BY <1>11, <3>1, <3>2
  <2>2. QED BY <2>1 DEF ClosedGo
<1>14. f \in FreeFds(r)
  BY <1>5 DEF FreeFds
<1>15. /\ Made(c, f) /\ pending' = pending
       /\ sock' \in [Fd -> Socket] /\ callbacks' \in [Fd -> Conn \cup {NULL}]
       /\ rfds' \subseteq Fd /\ wfds' \subseteq Fd /\ pipe' \in BOOLEAN /\ aborted' \in BOOLEAN
       /\ \A g \in Fd \ {f} :
            /\ callbacks'[g] = callbacks[g]
            /\ \/ sock'[g] = sock[g]
               \/ sock'[g] = ClosedSocket /\ \E d \in Conn : Gone(d) /\ conn[d].fd = g
  BY <1>4, <1>8, <1>10, <1>13, <1>14, ConnectionMade
<1>16. conns' = (conns \ S) \cup {c}
  BY <1>1
<1>17. Typed'
  BY <1>2, <1>3, <1>4, <1>10, <1>15, <1>16 DEF Typed
<1>18. CountInv'
  <2>1. UserTurns(wk, wk', NULL, NULL)
    <3>1. ASSUME NEW d
          PROVE  Cardinality(UsersOf(wk, d)) = Cardinality(UsersOf(wk, d)) - One(NULL = d) + One(NULL = d)
      BY UsersFinite DEF One
    <3>2. QED BY <1>2, <3>1 DEF UserTurns
  <2>2. ASSUME NEW d \in Conn
        PROVE  conn'[d].refno >= conn[d].refno - One(NULL = d) + One(NULL = d)
                       + One(d \in conns') - One(d \in conns) + One(saved' = d) - One(saved = d)
                       + One(chan' = d) - One(chan = d)
    <3>1. saved' = saved /\ chan' = chan /\ NULL # d /\ conn[d].refno \in Nat
      BY <1>2, <1>3
    <3>2. conn'[d].refno \in Nat /\ conn'[d].refno >= conn[d].refno + One(d \in conns') - One(d \in conns)
      <4>1. CASE d = c
        BY <1>4, <1>9, <1>10, <1>16, <4>1 DEF One
      <4>2. CASE d \in S
        <5>1. conn'[d].refno = 0 /\ conn[d].refno = 1 /\ d \in conns /\ d \notin conns'
          BY <1>6, <1>9, <1>11, <1>16, <4>2, FreedIs DEF Gone
        <5>2. QED BY <5>1 DEF One
      <4>3. CASE d # c /\ d \notin S
        <5>1. conn'[d] = conn[d] /\ (d \in conns' <=> d \in conns)
          BY <1>12, <1>16, <4>3
        <5>2. QED BY <3>1, <5>1 DEF One
      <4>4. QED BY <4>1, <4>2, <4>3
    <3>3. QED BY <3>1, <3>2 DEF One
  <2>3. jobq' = jobq
    BY <1>2
  <2>4. QED BY <1>17, <2>1, <2>2, <2>3, Recounted
<1>19. Exchanges(c, f)
  <2>1. \A w \in Worker : Moved(w)
    BY <1>2 DEF Moved
  <2>2. \A d \in Conn \ {c} : Same(d) \/ Gone(d)
    BY <1>11, <1>12
  <2>3. QED BY <1>2, <1>4, <1>15, <2>1, <2>2 DEF Exchanges
<1>20. QED BY <1>17, <1>18, <1>19, ExchangeStep
-----------------------------------------------------------------------------
(* The steps on the connections that are there                             *)

\* The thread has a pdu under way.
Writes(w) ==
    wk[w].op # "close"
    /\ wk[w].pc \in {"complete", "completeWoken", "remove", "removing", "removed"}

Exclusive ==
    \A c \in Conn :
        /\ \A v, u \in Worker : Writes(v) /\ Writes(u) /\ wk[v].c = c /\ wk[u].c = c => v = u
        /\ conn[c].buf <=> \E v \in Worker : Writes(v) /\ wk[v].c = c

LEMMA AtMostOne ==
  ASSUME NEW W, IsFiniteSet(W)
  PROVE  Cardinality(W) <= 1 <=> \A v, u \in W : v = u
<1>1. Cardinality(W) \in Nat
  BY FS_CardinalityType
<1>2. CASE W = {}
  BY <1>2, FS_EmptySet
<1>3. CASE W # {}
  <2>1. PICK x : x \in W
    BY <1>3
  <2>2. ASSUME Cardinality(W) <= 1, NEW v \in W, NEW u \in W PROVE v = u
    <3>1. Cardinality(W) # 0
      BY <1>3, FS_EmptySet
    <3>2. Cardinality(W) = 1
      BY <1>1, <2>2, <3>1
    <3>3. PICK y : W = {y}
      BY <3>2, FS_Singleton
    <3>4. QED BY <2>2, <3>3
  <2>3. ASSUME \A v, u \in W : v = u PROVE Cardinality(W) <= 1
    <3>1. W = {x}
      BY <2>1, <2>3
    <3>2. QED BY <3>1, FS_Singleton
  <2>4. QED BY <2>2, <2>3
<1>4. QED BY <1>2, <1>3

LEMMA ExclusiveIs == OneWriter <=> Exclusive
<1> DEFINE W(c) == {w \in Worker : wk[w].c = c /\ wk[w].op # "close"
                      /\ wk[w].pc \in {"complete", "completeWoken", "remove", "removing", "removed"}}
<1>1. ASSUME NEW c
      PROVE  /\ \A v : v \in W(c) <=> v \in Worker /\ Writes(v) /\ wk[v].c = c
             /\ Cardinality(W(c)) <= 1 <=> \A v, u \in W(c) : v = u
  <2>1. W(c) \in SUBSET Worker
    OBVIOUS
  <2>2. IsFiniteSet(W(c))
    BY <2>1, FS_Subset
  <2>3. Cardinality(W(c)) <= 1 <=> \A v, u \in W(c) : v = u
    BY <2>2, AtMostOne
  <2>4. QED BY <2>3 DEF Writes
<1>2. OneWriter <=> \A c \in Conn : Cardinality(W(c)) <= 1 /\ (conn[c].buf <=> W(c) # {})
  BY DEF OneWriter
<1> HIDE DEF W
<1> DEFINE one(c) == \A v, u \in Worker : Writes(v) /\ Writes(u) /\ wk[v].c = c /\ wk[u].c = c => v = u
           some(c) == \E v \in Worker : Writes(v) /\ wk[v].c = c
<1>3. ASSUME NEW c \in Conn
      PROVE  (Cardinality(W(c)) <= 1 <=> one(c)) /\ (W(c) # {} <=> some(c))
  <2>1. W(c) # {} <=> some(c)
    BY <1>1
  <2>2. (\A v, u \in W(c) : v = u) <=> one(c)
    BY <1>1
  <2>3. QED BY <1>1, <2>1, <2>2
<1>4. Exclusive <=> \A c \in Conn : one(c) /\ (conn[c].buf <=> some(c))
  BY DEF Exclusive
<1> HIDE DEF one, some
<1>5. QED BY <1>2, <1>3, <1>4

LEMMA ExclusiveNext == OneWriter' <=> Exclusive'
BY ExclusiveIs, PTL

\* Which connections are open, and on which descriptors, is as before.
LEMMA ObjectsKept ==
  ASSUME TransportIInv,
         \A d \in Conn : conn'[d].st = conn[d].st /\ conn'[d].fd = conn[d].fd,
         \A d \in Conn : ~Open(d) => conn'[d] = conn[d],
         \A g \in Fd : sock'[g].open = sock[g].open
  PROVE  ObjectsInv'
<1>1. ObjectsInv
  BY DEF TransportIInv
<1>2. \A d \in Conn : Open(d)' <=> Open(d)
  BY DEF Open
<1>3. QED BY <1>1, <1>2 DEF ObjectsInv

\* Nobody takes a connection, and no count changes.
LEMMA CountKept ==
  ASSUME TransportIInv, UNCHANGED ownerVars,
         \A d \in Conn : conn'[d].refno = conn[d].refno,
         \A v \in Worker : wk'[v].c = wk[v].c \/ wk'[v].c = NULL
  PROVE  CountInv'
<1> SUFFICES ASSUME NEW d \in Conn PROVE Holders(d)' <= conn'[d].refno
  BY DEF CountInv
<1>1. Typed /\ Holders(d) <= conn[d].refno
  BY Parts DEF CountInv
<1> DEFINE u == Cardinality(UsersOf(wk, d))
           v == Cardinality(UsersOf(wk', d))
           j == Cardinality(JobsOf(jobq, d))
           k == One(d \in conns) + One(saved = d) + One(chan = d)
<1>2. v <= u /\ u \in Nat /\ v \in Nat
  BY UsersDrop, UsersFinite
<1>3. j \in Nat /\ k \in Nat /\ conn[d].refno \in Nat
  <2>1. /\ j \in Nat /\ conn[d].refno \in Nat /\ One(d \in conns) \in {0, 1}
        /\ One(saved = d) \in {0, 1} /\ One(chan = d) \in {0, 1}
    BY <1>1, CountsAre
  <2>2. QED BY <2>1
<1>4. Holders(d) = u + j + k /\ Holders(d)' = v + j + k
  <2>1. /\ Holders(d) = u + j + One(d \in conns) + One(saved = d) + One(chan = d)
        /\ Holders(d)' = v + Cardinality(JobsOf(jobq', d)) + One(d \in conns') + One(saved' = d)
                           + One(chan' = d)
    BY HoldersIs, HoldersNext
  <2>2. /\ Cardinality(JobsOf(jobq', d)) = j /\ One(d \in conns') = One(d \in conns)
        /\ One(saved' = d) = One(saved = d) /\ One(chan' = d) = One(chan = d)
    BY DEF ownerVars
  <2>3. One(d \in conns) \in {0, 1} /\ One(saved = d) \in {0, 1} /\ One(chan = d) \in {0, 1}
    BY DEF One
  <2> HIDE DEF u, v, j
  <2>4. QED BY <1>2, <1>3, <2>1, <2>2, <2>3
<1>5. conn'[d].refno = conn[d].refno
  OBVIOUS
<1> HIDE DEF u, v, j, k
<1>6. QED BY <1>1, <1>2, <1>3, <1>4, <1>5

\* Who writes to which connection is as before.
LEMMA WritersKept ==
  ASSUME TransportIInv, \A d \in Conn : conn'[d].buf = conn[d].buf,
         \A v \in Worker : /\ Writes(v)' <=> Writes(v)
                           /\ Writes(v) => wk'[v].c = wk[v].c
  PROVE  OneWriter'
<1>1. Exclusive
  BY ExclusiveIs DEF TransportIInv
<1>2. Exclusive'
  BY <1>1 DEF Exclusive
<1>3. QED BY <1>2, ExclusiveNext

\* The whole invariant from its parts.
LEMMA PartsNext ==
  ASSUME Typed', ObjectsInv', CountInv', PollInv', WorkersInv', LoopInv', SocketsInv',
         OneWriter', NoLostWakeup'
  PROVE  TransportIInv'
<1>1. TypeOK'
  BY TypedNext
<1>2. QED BY <1>1 DEF TransportIInv

\* Only sockets change, and none opens or closes.
LEMMA NetworkKeeps ==
  ASSUME TransportIInv, UNCHANGED <<conn, pollVars, loop, wk, ownerVars, aborted>>,
         sock' \in [Fd -> Socket], SocketsInv', \A g \in Fd : sock'[g].open = sock[g].open
  PROVE  TransportIInv'
<1>1. /\ Typed /\ PollInv /\ WorkersInv /\ LoopInv /\ NoLostWakeup
  BY Parts
<1>2. Typed'
  BY <1>1 DEF Typed, pollVars, ownerVars
<1>3. ObjectsInv'
  BY ObjectsKept
<1>4. CountInv'
  BY CountKept
<1>5. OneWriter'
  BY WritersKept DEF Writes
<1>6. PollInv'
  BY <1>1 DEF PollInv, Open, Removes, pollVars
<1>7. WorkersInv'
  BY <1>1 DEF WorkersInv, Removes, pollVars, ownerVars
<1>8. LoopInv' /\ NoLostWakeup'
  BY <1>1 DEF LoopInv, NoLostWakeup, pollVars
<1>9. QED BY <1>2, <1>3, <1>4, <1>5, <1>6, <1>7, <1>8, PartsNext

LEMMA ArriveStep ==
  ASSUME TransportIInv, NEW f \in Fd, Arrive(f)
  PROVE  TransportIInv'
<1>1. /\ sock \in [Fd -> Socket] /\ sock[f] \in Socket /\ SocketsInv
  BY Parts DEF Typed
<1> DEFINE o == [sock[f] EXCEPT !.in = sock[f].in + 1, !.sent = sock[f].sent + 1]
<1>2. /\ o \in Socket /\ o.in <= o.sent /\ o.open = sock[f].open
  <2>1. /\ sock[f].in \in 0 .. MaxUnits /\ sock[f].sent \in 0 .. MaxUnits
        /\ sock[f].in <= sock[f].sent /\ sock[f].sent < MaxUnits
    BY <1>1 DEF Socket, SocketsInv, Arrive
  <2>2. /\ sock[f].in + 1 \in 0 .. MaxUnits /\ sock[f].sent + 1 \in 0 .. MaxUnits
        /\ sock[f].in + 1 <= sock[f].sent + 1
    BY <2>1
  <2>3. QED BY <1>1, <2>2 DEF Socket
<1>3. sock' = [sock EXCEPT ![f] = o]
  BY DEF Arrive
<1> HIDE DEF o
<1>4. /\ sock' \in [Fd -> Socket] /\ sock'[f] = o /\ \A g \in Fd \ {f} : sock'[g] = sock[g]
  BY <1>1, <1>2, <1>3
<1>5. SocketsInv' /\ \A g \in Fd : sock'[g].open = sock[g].open
  BY <1>1, <1>2, <1>4 DEF SocketsInv
<1>6. UNCHANGED <<conn, pollVars, loop, wk, ownerVars, aborted>>
  BY DEF Arrive
<1>7. QED BY <1>4, <1>5, <1>6, NetworkKeeps

LEMMA BreakStep ==
  ASSUME TransportIInv, NEW f \in Fd, Break(f)
  PROVE  TransportIInv'
<1>1. /\ sock \in [Fd -> Socket] /\ sock[f] \in Socket /\ SocketsInv
  BY Parts DEF Typed
<1>2. PICK o \in Socket :
        /\ sock' = [sock EXCEPT ![f] = o] /\ o.in <= o.sent /\ o.open = sock[f].open
  <2> DEFINE a == [sock[f] EXCEPT !.shut = "eof"]
             b == [sock[f] EXCEPT !.shut = "rst", !.in = 0]
  <2>1. /\ sock[f].in \in 0 .. MaxUnits /\ sock[f].sent \in 0 .. MaxUnits
        /\ sock[f].in <= sock[f].sent /\ 0 \in 0 .. MaxUnits
    BY <1>1 DEF Socket, SocketsInv
  <2>2. a \in Socket /\ a.in <= a.sent /\ a.open = sock[f].open
    BY <1>1, <2>1 DEF Socket
  <2>3. b \in Socket /\ b.in <= b.sent /\ b.open = sock[f].open
    <3>1. b \in Socket /\ b.in = 0 /\ b.sent = sock[f].sent /\ b.open = sock[f].open
      BY <1>1, <2>1 DEF Socket
    <3> HIDE DEF b
    <3>2. QED BY <2>1, <3>1
  <2>4. sock' = [sock EXCEPT ![f] = a] \/ sock' = [sock EXCEPT ![f] = b]
    BY DEF Break
  <2> HIDE DEF a, b
  <2>5. QED BY <2>2, <2>3, <2>4
<1>3. /\ sock' \in [Fd -> Socket] /\ sock'[f] = o /\ \A g \in Fd \ {f} : sock'[g] = sock[g]
  BY <1>1, <1>2
<1>4. SocketsInv' /\ \A g \in Fd : sock'[g].open = sock[g].open
  BY <1>1, <1>2, <1>3 DEF SocketsInv
<1>5. UNCHANGED <<conn, pollVars, loop, wk, ownerVars, aborted>>
  BY DEF Break
<1>6. QED BY <1>3, <1>4, <1>5, NetworkKeeps

LEMMA LoopTopStep ==
  ASSUME TransportIInv, LoopTop
  PROVE  TransportIInv'
<1>1. /\ Typed /\ ObjectsInv /\ PollInv /\ WorkersInv /\ LoopInv /\ SocketsInv /\ NoLostWakeup
  BY Parts
<1>2. UNCHANGED <<conn, callbacks, rfds, wfds, pipe, ownerVars, sock, aborted>>
  BY DEF LoopTop
<1>3. /\ loop' \in Round /\ loop'.pc = "copy" /\ pending' = FALSE
  BY <1>1 DEF LoopTop, Typed, Round
\* Who removes is pending, and goes on.
<1>4. wk' \in [Worker -> Place]
      /\ \A w \in Worker :
           /\ wk'[w].c = wk[w].c /\ wk'[w].op = wk[w].op
           /\ wk[w].pc # "removing" => wk'[w].pc = wk[w].pc
           /\ wk[w].pc = "removing" => wk'[w].pc = "removed"
  <2>1. ASSUME NEW w \in Worker
        PROVE  /\ wk[w] \in Place
               /\ [wk[w] EXCEPT !.pc = "removed"] \in Place
               /\ [wk[w] EXCEPT !.pc = "removed"].pc = "removed"
               /\ [wk[w] EXCEPT !.pc = "removed"].c = wk[w].c
               /\ [wk[w] EXCEPT !.pc = "removed"].op = wk[w].op
               /\ wk[w].pc = "removing" => pending
    <3>1. wk[w] \in Place
      BY <1>1 DEF Typed
    <3>2. QED BY <1>1, <3>1, Places DEF Place, NoLostWakeup
  <2>2. wk' = [w \in Worker |-> IF pending /\ wk[w].pc = "removing"
                                THEN [wk[w] EXCEPT !.pc = "removed"] ELSE wk[w]]
    BY DEF LoopTop
  <2>3. QED BY <2>1, <2>2
<1>5. Typed'
  BY <1>1, <1>2, <1>3, <1>4 DEF Typed, ownerVars
<1>6. ObjectsInv'
  BY <1>2, ObjectsKept
<1>7. CountInv'
  BY <1>2, <1>4, CountKept
<1>8. \A w \in Worker : Removes(w)' <=> Removes(w)
  BY <1>4 DEF Removes
<1>9. PollInv'
  BY <1>1, <1>2, <1>4, <1>8 DEF PollInv, Open
<1>10. WorkersInv'
  BY <1>1, <1>2, <1>3, <1>4, <1>8 DEF WorkersInv, ownerVars
<1>11. LoopInv' /\ SocketsInv'
  BY <1>1, <1>2, <1>3 DEF LoopInv, SocketsInv
<1>12. OneWriter'
  BY <1>2, <1>4, WritersKept DEF Writes
<1>13. NoLostWakeup'
  BY <1>1, <1>2, <1>4 DEF NoLostWakeup
<1>14. QED BY <1>5, <1>6, <1>7, <1>9, <1>10, <1>11, <1>12, <1>13, PartsNext

LEMMA LoopCopyStep ==
  ASSUME TransportIInv, LoopCopy
  PROVE  TransportIInv'
<1>1. /\ Typed /\ ObjectsInv /\ PollInv /\ WorkersInv /\ LoopInv /\ SocketsInv /\ NoLostWakeup
  BY Parts
<1>2. UNCHANGED <<conn, pollVars, wk, ownerVars, sock, aborted>> /\ loop.pc = "copy"
  BY DEF LoopCopy
<1>3. /\ loop' \in Round /\ loop'.pc = "select" /\ loop'.r = rfds /\ loop'.owner = callbacks
  BY <1>1 DEF LoopCopy, Typed, Round
<1>4. Typed'
  BY <1>1, <1>2, <1>3 DEF Typed, ownerVars, pollVars
<1>5. ObjectsInv' /\ CountInv' /\ OneWriter'
  BY <1>2, ObjectsKept, CountKept, WritersKept DEF Writes
<1>6. PollInv'
  BY <1>1, <1>2 DEF PollInv, Open, Removes, pollVars
<1>7. WorkersInv'
  BY <1>1, <1>2, <1>3 DEF WorkersInv, Removes, pollVars, ownerVars
<1>8. LoopInv'
  BY <1>1, <1>2, <1>3 DEF LoopInv, PollInv, pollVars
<1>9. SocketsInv' /\ NoLostWakeup'
  BY <1>1, <1>2, <1>3 DEF SocketsInv, NoLostWakeup, WorkersInv, pollVars
<1>10. QED BY <1>4, <1>5, <1>6, <1>7, <1>8, <1>9, PartsNext

\* The rest of the round.
LEMMA ServeIs ==
  ASSUME loop \in Round, NEW r \in SUBSET loop.r, NEW w \in SUBSET loop.w,
         NEW e \in BOOLEAN, Serve(r, w, e)
  PROVE  /\ loop' \in Round /\ loop'.r = r /\ loop'.w = w
         /\ loop'.pc \in {"top", "read", "write"}
         /\ loop'.pc = "read" => r # {}
         /\ loop'.pc = "write" => r = {} /\ w # {}
         /\ \A f \in r : f \in loop.r /\ loop'.owner[f] = loop.owner[f]
<1>1. /\ LoopNext(r, w) \in {"top", "read", "write"}
      /\ LoopNext(r, w) = "read" => r # {}
      /\ LoopNext(r, w) = "write" => r = {} /\ w # {}
  BY DEF LoopNext
<1>2. loop.r \subseteq Fd /\ loop.w \subseteq Fd /\ loop.owner \in [Fd -> Conn \cup {NULL}]
  BY DEF Round
<1> DEFINE o == [f \in Fd |-> IF f \in r THEN loop.owner[f] ELSE NULL]
<1>3. o \in [Fd -> Conn \cup {NULL}] /\ \A f \in r : o[f] = loop.owner[f]
  BY <1>2
<1>4. loop' = [pc |-> LoopNext(r, w), r |-> r, w |-> w, eagain |-> e, owner |-> o]
  BY DEF Serve
<1> HIDE DEF o
<1>5. /\ loop'.r = r /\ loop'.w = w /\ loop'.pc = LoopNext(r, w) /\ loop'.owner = o
  BY <1>4
<1>6. loop' \in Round
  BY <1>1, <1>2, <1>3, <1>4 DEF Round
<1>7. QED BY <1>1, <1>3, <1>5, <1>6

\* The loop goes on with what it has; nothing is registered or goes.
LEMMA ServeKeeps ==
  ASSUME TransportIInv, NEW r \in SUBSET loop.r, NEW w \in SUBSET loop.w, NEW e \in BOOLEAN,
         Serve(r, w, e), loop.pc \in {"select", "read"} \/ r = {},
         UNCHANGED <<conn, callbacks, rfds, wfds, pending, wk, ownerVars, sock>>,
         pipe' \in BOOLEAN, aborted' \in BOOLEAN
  PROVE  TransportIInv'
<1>1. /\ Typed /\ ObjectsInv /\ PollInv /\ WorkersInv /\ LoopInv /\ SocketsInv /\ NoLostWakeup
  BY Parts
<1>2. /\ loop' \in Round /\ loop'.r = r /\ loop'.w = w
      /\ loop'.pc \in {"top", "read", "write"}
      /\ loop'.pc = "read" => r # {}
      /\ loop'.pc = "write" => r = {} /\ w # {}
      /\ \A f \in r : f \in loop.r /\ loop'.owner[f] = loop.owner[f]
  <2>1. loop \in Round
    BY <1>1 DEF Typed
  <2>2. QED BY <2>1, ServeIs
<1>3. Typed'
  BY <1>1, <1>2 DEF Typed, ownerVars
<1>4. ObjectsInv' /\ CountInv' /\ OneWriter'
  BY ObjectsKept, CountKept, WritersKept DEF Writes
<1>5. PollInv'
  BY <1>1 DEF PollInv, Open, Removes
<1>6. WorkersInv'
  BY <1>1, <1>2 DEF WorkersInv, Removes, ownerVars
<1>7. LoopInv'
  BY <1>1, <1>2 DEF LoopInv
<1>8. SocketsInv' /\ NoLostWakeup'
  BY <1>1, <1>2 DEF SocketsInv, NoLostWakeup
<1>9. QED BY <1>3, <1>4, <1>5, <1>6, <1>7, <1>8, PartsNext

LEMMA LoopSelectStep ==
  ASSUME TransportIInv, LoopSelect
  PROVE  TransportIInv'
<1> DEFINE r == {f \in loop.r : Readable(f)}
<1>1. PICK w \in SUBSET loop.w : Serve(r, w, loop.eagain)
  BY DEF LoopSelect
<1>2. /\ loop.eagain \in BOOLEAN /\ pipe' \in BOOLEAN /\ aborted' \in BOOLEAN
      /\ loop.pc = "select"
      /\ UNCHANGED <<conn, callbacks, rfds, wfds, pending, wk, ownerVars, sock>>
  <2>1. loop \in Round /\ pipe \in BOOLEAN
    BY Parts DEF Typed
  <2>2. loop.eagain \in BOOLEAN
    BY <2>1 DEF Round
  <2>3. pipe' \in {FALSE, pipe} /\ loop.pc = "select"
    BY DEF LoopSelect
  <2>4. aborted' = \E f \in loop.r \cup loop.w : ~sock[f].open
    BY DEF LoopSelect
  <2>5. aborted' \in BOOLEAN
    BY <2>4
  <2>6. UNCHANGED <<conn, callbacks, rfds, wfds, pending, wk, ownerVars, sock>>
    BY DEF LoopSelect
  <2>7. QED BY <2>1, <2>2, <2>3, <2>5, <2>6
<1>3. r \in SUBSET loop.r
  OBVIOUS
<1> HIDE DEF r
<1>4. QED BY <1>1, <1>2, <1>3, ServeKeeps

LEMMA SendWaitsTurnStep ==
  ASSUME TransportIInv, NEW w \in Worker, SendWaitsTurn(w)
  PROVE  TransportIInv'
<1>1. /\ Typed /\ ObjectsInv /\ PollInv /\ WorkersInv /\ LoopInv /\ SocketsInv /\ NoLostWakeup
      /\ wk[w] \in Place
  BY Parts, IdleHasNone
<1>2. /\ UNCHANGED <<conn, pollVars, loop, ownerVars, sock, aborted>>
      /\ wk[w].pc \in {"send", "turnWoken"} /\ conn[wk[w].c].buf
      /\ wk' = [wk EXCEPT ![w].pc = "turn"]
  BY DEF SendWaitsTurn
<1>3. /\ wk' \in [Worker -> Place] /\ wk'[w].pc = "turn" /\ wk'[w].c = wk[w].c /\ wk'[w].op = wk[w].op
      /\ \A v \in Worker \ {w} : wk'[v] = wk[v]
  BY <1>1, <1>2, Places DEF Typed, Place
<1>4. Typed'
  BY <1>1, <1>2, <1>3 DEF Typed, ownerVars, pollVars
<1>5. ObjectsInv'
  BY <1>2, ObjectsKept
<1>6. CountInv'
  BY <1>2, <1>3, CountKept
<1>7. OneWriter'
  <2>1. ~Writes(w) /\ ~Writes(w)'
    BY <1>2, <1>3 DEF Writes
  <2>2. \A v \in Worker : (Writes(v)' <=> Writes(v)) /\ (Writes(v) => wk'[v].c = wk[v].c)
    BY <1>3, <2>1 DEF Writes
  <2>3. QED BY <1>2, <2>2, WritersKept
<1>8. \A v \in Worker : Removes(v)' <=> Removes(v)
  BY <1>2, <1>3 DEF Removes
<1>9. PollInv'
  BY <1>1, <1>2, <1>3, <1>8 DEF PollInv, Open, pollVars
<1>10. WorkersInv'
  BY <1>1, <1>2, <1>3, <1>8 DEF WorkersInv, Removes, pollVars, ownerVars
<1>11. LoopInv' /\ SocketsInv' /\ NoLostWakeup'
  BY <1>1, <1>2, <1>3 DEF LoopInv, SocketsInv, NoLostWakeup, pollVars
<1>12. QED BY <1>4, <1>5, <1>6, <1>7, <1>9, <1>10, <1>11, PartsNext

\* Who has another connection has another descriptor.
LEMMA Apart ==
  ASSUME TransportIInv, NEW v \in Worker, wk[v].pc # "idle", NEW c \in Conn, Open(c), wk[v].c # c
  PROVE  /\ wk[v].c \in Conn /\ Open(wk[v].c)
         /\ conn[wk[v].c].fd \in Fd /\ conn[wk[v].c].fd # conn[c].fd
<1>1. wk[v].c \in Conn /\ Open(wk[v].c)
  BY IdleHasNone
<1>2. QED BY <1>1 DEF TransportIInv, ObjectsInv

\* A connection is registered on its own descriptor or not at all.
LEMMA OwnDescriptor ==
  ASSUME TransportIInv, NEW c \in Conn, Open(c)
  PROVE  /\ conn[c].fd \in Fd /\ callbacks[conn[c].fd] \in {NULL, c}
         /\ \A g \in Fd : callbacks[g] = c => g = conn[c].fd
<1>1. Typed /\ PollInv /\ ObjectsInv
  BY Parts
<1>2. conn[c].fd \in Fd
  BY <1>1 DEF ObjectsInv
<1>3. callbacks[conn[c].fd] \in {NULL, c}
  <2>1. callbacks[conn[c].fd] \in Conn \cup {NULL}
    BY <1>1, <1>2 DEF Typed
  <2>2. ASSUME callbacks[conn[c].fd] # NULL PROVE callbacks[conn[c].fd] = c
    <3>1. Open(callbacks[conn[c].fd]) /\ conn[callbacks[conn[c].fd]].fd = conn[c].fd
      BY <1>1, <1>2, <2>2 DEF PollInv
    <3>2. QED BY <1>1, <2>1, <2>2, <3>1 DEF ObjectsInv
  <2>3. QED BY <2>2
<1>4. QED BY <1>1, <1>2, <1>3 DEF PollInv

LEMMA BlockRemoveStep ==
  ASSUME TransportIInv, NEW w \in Worker, block_remove_fd(w)
  PROVE  TransportIInv'
<1> DEFINE c == wk[w].c
           f == conn[c].fd
<1>1. /\ Typed /\ ObjectsInv /\ PollInv /\ WorkersInv /\ LoopInv /\ SocketsInv /\ NoLostWakeup
      /\ wk[w] \in Place
  BY Parts, IdleHasNone
<1>2. /\ UNCHANGED <<conn, callbacks, loop, ownerVars, sock, aborted>>
      /\ wk[w].pc = "remove" /\ pending' = TRUE
      /\ wk' = [wk EXCEPT ![w].pc = "removing"]
  BY DEF block_remove_fd
<1>3. rfds' = rfds \ {f} /\ wfds' = wfds \ {f} /\ pipe' = TRUE
  BY DEF block_remove_fd, unwatch_fd
<1>4. c \in Conn /\ Open(c) /\ conn[c].dead
  <2>1. Removes(w)
    BY <1>2 DEF Removes
  <2>2. QED BY <1>1, <1>2, <2>1, IdleHasNone DEF WorkersInv
<1>5. /\ wk' \in [Worker -> Place] /\ wk'[w].pc = "removing" /\ wk'[w].c = c /\ wk'[w].op = wk[w].op
      /\ \A v \in Worker \ {w} : wk'[v] = wk[v]
  BY <1>1, <1>2, Places DEF Typed, Place
<1> HIDE DEF c, f
<1>6. Typed'
  BY <1>1, <1>2, <1>3, <1>5 DEF Typed, ownerVars
<1>7. ObjectsInv'
  BY <1>2, ObjectsKept
<1>8. CountInv'
  BY <1>2, <1>5, CountKept DEF c
<1>9. OneWriter'
  BY <1>2, <1>5, WritersKept DEF Writes, c
<1>10. \A v \in Worker : (Removes(v)' <=> Removes(v)) /\ wk'[v].c = wk[v].c
  BY <1>2, <1>5 DEF Removes, c
<1>11. PollInv'
  <2>1. \A g \in rfds' \cup wfds' : g \in rfds \cup wfds
    BY <1>3
  <2>2. QED BY <1>1, <1>2, <1>10, <2>1 DEF PollInv, Open
<1>12. WorkersInv'
  BY <1>1, <1>2, <1>3, <1>4, <1>5, <1>10 DEF WorkersInv, ownerVars, c, f
<1>13. LoopInv' /\ SocketsInv'
  BY <1>1, <1>2 DEF LoopInv, SocketsInv
<1>14. NoLostWakeup'
  <2>1. ASSUME NEW v \in Worker, wk'[v].pc = "complete"
        PROVE  ~conn[wk[v].c].dead /\ conn[wk[v].c].fd \in wfds' /\ callbacks[conn[wk[v].c].fd] = wk[v].c
    <3>1. wk[v].pc = "complete" /\ v # w
      BY <1>5, <2>1
    <3>2. ~conn[wk[v].c].dead /\ conn[wk[v].c].fd \in wfds /\ callbacks[conn[wk[v].c].fd] = wk[v].c
      BY <1>1, <3>1 DEF NoLostWakeup
    <3>3. wk[v].c # c
      BY <1>4, <3>2
    <3>4. conn[wk[v].c].fd # f
      BY <1>4, <3>1, <3>3, Apart DEF f
    <3>5. QED BY <1>3, <3>2, <3>4
  <2>2. QED BY <1>1, <1>2, <1>3, <1>5, <1>10, <2>1 DEF NoLostWakeup
<1>15. QED BY <1>6, <1>7, <1>8, <1>9, <1>11, <1>12, <1>13, <1>14, PartsNext

\* The end of send, with block_remove_fd behind it or not.
LEMMA FinishKeeps ==
  ASSUME TransportIInv, NEW w \in Worker, FinishSend(w, conn), wk[w].op # "close",
         \/ wk[w].pc \in {"send", "turnWoken"} /\ ~conn[wk[w].c].buf
         \/ wk[w].pc \in {"completeWoken", "removed"},
         IF wk[w].pc = "removed" THEN callbacks' = [callbacks EXCEPT ![conn[wk[w].c].fd] = NULL]
         ELSE callbacks' = callbacks,
         UNCHANGED <<rfds, wfds, pending, pipe, loop, ownerVars, sock, aborted>>
  PROVE  TransportIInv'
<1> DEFINE c == wk[w].c
           f == conn[c].fd
           p == AfterSend(w)
           o == [conn[c] EXCEPT !.buf = FALSE, !.wsz = 0, !.wdone = 0]
<1>1. /\ Typed /\ ObjectsInv /\ PollInv /\ WorkersInv /\ LoopInv /\ SocketsInv /\ NoLostWakeup
      /\ Exclusive /\ wk[w] \in Place /\ wk[w].pc # "idle"
  BY Parts, IdleHasNone, ExclusiveIs
<1>2. c \in Conn /\ Open(c) /\ c # NULL /\ f \in Fd /\ conn[c] \in Object
  BY <1>1, IdleHasNone DEF Typed, ObjectsInv
<1>3. /\ o \in Object /\ ~o.buf /\ o.st = conn[c].st /\ o.fd = conn[c].fd
      /\ o.dead = conn[c].dead /\ o.refno = conn[c].refno
  <2>1. 0 \in {0, PduLen} /\ 0 \in -1 .. PduLen
    OBVIOUS
  <2>2. QED BY <1>2, <2>1 DEF Object
<1>4. /\ p \in Place
      /\ \/ p.pc = "idle" /\ p.c = NULL /\ p.op = "none"
         \/ p.pc = "decref" /\ p.c = c /\ p.op = wk[w].op
  <2>1. IdleWorker \in Place /\ IdleWorker.c = NULL /\ IdleWorker.pc = "idle" /\ IdleWorker.op = "none"
    BY Places DEF IdleWorker, Place
  <2>2. QED BY <1>1, <2>1, Places DEF AfterSend, Place
<1>5. conn' = [conn EXCEPT ![c] = o]
  BY DEF FinishSend
<1>6. wk' = [v \in Worker |-> CASE v = w -> p
                               [] v # w /\ wk[v].c = c /\ wk[v].pc = "turn" -> [wk[v] EXCEPT !.pc = "turnWoken"]
                               [] OTHER -> wk[v]]
  BY DEF FinishSend
<1> HIDE DEF c, f, p, o
<1>7. conn' \in [Conn -> Object] /\ conn'[c] = o /\ \A d \in Conn \ {c} : conn'[d] = conn[d]
  BY <1>1, <1>2, <1>3, <1>5 DEF Typed
<1>8. wk' \in [Worker -> Place] /\ wk'[w] = p
      /\ \A v \in Worker \ {w} :
           /\ wk'[v].c = wk[v].c /\ wk'[v].op = wk[v].op
           /\ IF wk[v].c = c /\ wk[v].pc = "turn" THEN wk'[v].pc = "turnWoken"
              ELSE wk'[v].pc = wk[v].pc
  <2>1. ASSUME NEW v \in Worker
        PROVE  /\ wk[v] \in Place /\ [wk[v] EXCEPT !.pc = "turnWoken"] \in Place
               /\ [wk[v] EXCEPT !.pc = "turnWoken"].pc = "turnWoken"
               /\ [wk[v] EXCEPT !.pc = "turnWoken"].c = wk[v].c
               /\ [wk[v] EXCEPT !.pc = "turnWoken"].op = wk[v].op
    <3>1. wk[v] \in Place
      BY <1>1 DEF Typed
    <3>2. QED BY <3>1, Places DEF Place
  <2>2. wk'[w] = p /\ wk' \in [Worker -> Place]
    BY <1>4, <1>6, <2>1
  <2>3. ASSUME NEW v \in Worker \ {w}
        PROVE  wk'[v] = IF wk[v].c = c /\ wk[v].pc = "turn" THEN [wk[v] EXCEPT !.pc = "turnWoken"]
                        ELSE wk[v]
    BY <1>6
  <2>4. ASSUME NEW v \in Worker \ {w}
        PROVE  /\ wk'[v].c = wk[v].c /\ wk'[v].op = wk[v].op
               /\ IF wk[v].c = c /\ wk[v].pc = "turn" THEN wk'[v].pc = "turnWoken"
                  ELSE wk'[v].pc = wk[v].pc
    <3>1. CASE wk[v].c = c /\ wk[v].pc = "turn"
      <4>1. wk'[v] = [wk[v] EXCEPT !.pc = "turnWoken"]
        BY <2>3, <3>1
      <4>2. QED BY <2>1, <3>1, <4>1
    <3>2. CASE ~(wk[v].c = c /\ wk[v].pc = "turn")
      <4>1. wk'[v] = wk[v]
        BY <2>3, <3>2
      <4>2. QED BY <3>2, <4>1
    <3>3. QED BY <3>1, <3>2
  <2>5. QED BY <2>2, <2>4
\* Nobody else writes to c.
<1>9. ASSUME NEW v \in Worker \ {w}, Writes(v) PROVE wk[v].c # c
  <2>1. CASE Writes(w)
    BY <1>1, <1>2, <1>9, <2>1 DEF Exclusive, c
  <2>2. CASE ~Writes(w)
    <3>1. ~conn[c].buf
      BY <2>2 DEF Writes, c
    <3>2. QED BY <1>1, <1>2, <1>9, <3>1 DEF Exclusive
  <2>3. QED BY <2>1, <2>2
<1>10. \A v \in Worker \ {w} : Writes(v)' <=> Writes(v)
  BY <1>8 DEF Writes
<1>11. \A v \in Worker \ {w} : Removes(v)' <=> Removes(v)
  BY <1>8 DEF Removes
<1>12. ~Writes(w)' /\ ~Removes(w)'
  BY <1>4, <1>8 DEF Writes, Removes
<1>13. /\ callbacks' \in [Fd -> Conn \cup {NULL}]
       /\ \A g \in Fd : callbacks'[g] = callbacks[g] \/ (callbacks'[g] = NULL /\ g = f /\ wk[w].pc = "removed")
       /\ wk[w].pc = "removed" => callbacks'[f] = NULL
  <2>1. CASE wk[w].pc = "removed"
    BY <1>1, <1>2, <2>1 DEF Typed, c, f
  <2>2. CASE wk[w].pc # "removed"
    BY <1>1, <2>2 DEF Typed
  <2>3. QED BY <2>1, <2>2
<1>14. Typed'
  BY <1>1, <1>7, <1>8, <1>13 DEF Typed, ownerVars
<1>15. ObjectsInv'
  BY <1>2, <1>3, <1>7, ObjectsKept
<1>16. CountInv'
  BY <1>3, <1>4, <1>7, <1>8, CountKept DEF c
<1>17. OneWriter'
  <2>1. ASSUME NEW d \in Conn
        PROVE  /\ \A v, u \in Worker : Writes(v)' /\ Writes(u)' /\ wk'[v].c = d /\ wk'[u].c = d => v = u
               /\ conn'[d].buf <=> \E v \in Worker : Writes(v)' /\ wk'[v].c = d
    <3>1. CASE d = c
      <4>1. \A v \in Worker : ~(Writes(v)' /\ wk'[v].c = d)
        BY <1>8, <1>9, <1>10, <1>12, <3>1
      <4>2. QED BY <1>3, <1>7, <3>1, <4>1
    <3>2. CASE d # c
      <4>1. \A v \in Worker : Writes(v)' /\ wk'[v].c = d <=> Writes(v) /\ wk[v].c = d
        BY <1>4, <1>8, <1>10, <1>12, <3>2 DEF c
      <4>2. conn'[d] = conn[d]
        BY <1>7, <3>2
      <4>3. QED BY <1>1, <4>1, <4>2 DEF Exclusive
    <3>3. QED BY <3>1, <3>2
  <2>2. QED BY <2>1, ExclusiveNext DEF Exclusive
<1>18. \A d \in Conn : /\ conn'[d].st = conn[d].st /\ conn'[d].fd = conn[d].fd
                       /\ conn'[d].dead = conn[d].dead
  BY <1>3, <1>7
<1>19. PollInv'
  <2>1. ASSUME NEW g \in Fd, callbacks'[g] # NULL
        PROVE  /\ Open(callbacks[g])' /\ conn'[callbacks'[g]].fd = g
               /\ conn'[callbacks'[g]].dead => \E v \in Worker : Removes(v)' /\ wk'[v].c = callbacks'[g]
    <3>1. callbacks'[g] = callbacks[g] /\ callbacks[g] \in Conn
      BY <1>1, <1>13, <2>1 DEF Typed
    <3>2. Open(callbacks[g])' /\ conn'[callbacks'[g]].fd = g
      BY <1>1, <1>18, <2>1, <3>1 DEF PollInv, Open
    <3>3. ASSUME conn'[callbacks'[g]].dead
          PROVE  \E v \in Worker : Removes(v)' /\ wk'[v].c = callbacks'[g]
      <4>1. PICK v \in Worker : Removes(v) /\ wk[v].c = callbacks[g]
        BY <1>1, <1>18, <2>1, <3>1, <3>3 DEF PollInv
      <4>2. v # w
        <5>1. CASE wk[w].pc = "removed"
          <6>1. g # f
            BY <1>13, <2>1, <5>1
          <6>2. callbacks[g] # c
            BY <1>2, <6>1, OwnDescriptor DEF f
          <6>3. QED BY <4>1, <6>2 DEF c
        <5>2. CASE wk[w].pc # "removed"
          BY <4>1, <5>2 DEF Removes
        <5>3. QED BY <5>1, <5>2
      <4>3. QED BY <1>8, <1>11, <3>1, <4>1, <4>2
    <3>4. QED BY <3>2, <3>3
  <2>2. ASSUME NEW g \in rfds \cup wfds PROVE callbacks'[g] # NULL
    <3>1. g \in Fd /\ callbacks[g] # NULL
      BY <1>1, <2>2 DEF PollInv, Typed
    <3>2. wk[w].pc = "removed" => g # f
      BY <1>1, <2>2 DEF WorkersInv, c, f
    <3>3. QED BY <1>13, <3>1, <3>2
  <2>3. QED BY <2>1, <2>2 DEF PollInv
<1>20. WorkersInv'
  <2>1. ASSUME NEW v \in Worker \ {w}
        PROVE  /\ wk'[v].pc = "idle" <=> wk'[v].c = NULL
               /\ wk'[v].pc = "latest" => saved # NULL
               /\ wk'[v].op = "close" => Removes(v)' \/ wk'[v].pc = "decref"
               /\ Removes(v)' => conn'[wk'[v].c].dead
               /\ wk'[v].pc \in {"removing", "removed"} => conn'[wk'[v].c].fd \notin rfds \cup wfds
               /\ wk'[v].pc = "removed" /\ loop.pc \in {"select", "read"}
                    => conn'[wk'[v].c].fd \notin loop.r
               /\ wk'[v].pc = "removing" /\ loop.pc = "copy" => pipe
               /\ wk'[v].pc = "complete" => conn'[wk'[v].c].wsz = PduLen
               /\ wk'[v].pc = "completeWoken" => conn'[wk'[v].c].dead \/ conn'[wk'[v].c].wdone = PduLen
    <3>1. /\ wk'[v].pc = "idle" <=> wk'[v].c = NULL
          /\ wk'[v].pc = "latest" => saved # NULL
          /\ wk'[v].op = "close" => Removes(v)' \/ wk'[v].pc = "decref"
          /\ wk'[v].pc = "removing" /\ loop.pc = "copy" => pipe
      BY <1>1, <1>8, <1>11 DEF WorkersInv
    <3>2. wk[v].pc # "idle" => wk[v].c \in Conn
      BY IdleHasNone
    <3>3. ASSUME Removes(v)'
          PROVE  /\ conn'[wk'[v].c].dead
                 /\ wk'[v].pc \in {"removing", "removed"} => conn'[wk'[v].c].fd \notin rfds \cup wfds
                 /\ wk'[v].pc = "removed" /\ loop.pc \in {"select", "read"}
                      => conn'[wk'[v].c].fd \notin loop.r
      <4>1. Removes(v) /\ wk'[v].c = wk[v].c /\ wk'[v].pc = wk[v].pc
        BY <1>8, <1>11, <3>3 DEF Removes
      <4>2. conn'[wk[v].c].dead = conn[wk[v].c].dead /\ conn'[wk[v].c].fd = conn[wk[v].c].fd
        BY <1>18, <3>2, <4>1 DEF Removes
      <4>3. /\ conn[wk[v].c].dead
            /\ wk[v].pc \in {"removing", "removed"} => conn[wk[v].c].fd \notin rfds \cup wfds
            /\ wk[v].pc = "removed" /\ loop.pc \in {"select", "read"} => conn[wk[v].c].fd \notin loop.r
        BY <1>1, <4>1 DEF WorkersInv
      <4>4. QED BY <4>1, <4>2, <4>3
    <3>4. ASSUME wk'[v].pc \in {"complete", "completeWoken"}
          PROVE  /\ wk'[v].pc = "complete" => conn'[wk'[v].c].wsz = PduLen
                 /\ wk'[v].pc = "completeWoken" => conn'[wk'[v].c].dead \/ conn'[wk'[v].c].wdone = PduLen
      <4>1. wk[v].pc = wk'[v].pc /\ wk[v].c \in Conn
        BY <1>8, <3>2, <3>4
      <4>2. Writes(v)
        BY <1>1, <3>4, <4>1 DEF WorkersInv, Writes, Removes
      <4>3. conn'[wk[v].c] = conn[wk[v].c]
        BY <1>7, <1>9, <4>1, <4>2
      <4>4. QED BY <1>1, <1>8, <4>1, <4>3 DEF WorkersInv
    <3>5. QED BY <3>1, <3>3, <3>4 DEF Removes
  <2>2. /\ wk'[w].pc = "idle" <=> wk'[w].c = NULL
        /\ wk'[w].pc \in {"idle", "decref"} /\ wk'[w].op # "close"
    BY <1>2, <1>4, <1>8
  <2>3. saved' = saved
    BY DEF ownerVars
  <2>4. QED BY <1>12, <2>1, <2>2, <2>3 DEF WorkersInv
<1>21. LoopInv'
  <2>1. ASSUME loop.pc \in {"select", "read"}, NEW g \in loop.r
        PROVE  callbacks'[g] = callbacks[g] /\ g \in Fd
    <3>1. g \in Fd
      BY <1>1 DEF Typed, Round
    <3>2. wk[w].pc = "removed" => g # f
      BY <1>1, <2>1 DEF WorkersInv, c, f
    <3>3. QED BY <1>13, <3>1, <3>2
  <2>2. QED BY <1>1, <2>1 DEF LoopInv
<1>22. SocketsInv'
  BY <1>1 DEF SocketsInv
<1>23. NoLostWakeup'
  <2>1. ASSUME NEW v \in Worker \ {w}, wk'[v].pc = "complete"
        PROVE  ~conn'[wk'[v].c].dead /\ conn'[wk'[v].c].fd \in wfds /\ callbacks'[conn'[wk'[v].c].fd] = wk'[v].c
    <3>1. wk[v].pc = "complete" /\ wk[v].c = wk'[v].c /\ wk[v].c \in Conn
      BY <1>8, <2>1, IdleHasNone
    <3>2. Writes(v)
      BY <1>1, <3>1 DEF WorkersInv, Writes, Removes
    <3>3. wk[v].c # c
      BY <1>9, <3>2
    <3>4. conn'[wk[v].c] = conn[wk[v].c] /\ conn[wk[v].c].fd \in Fd /\ conn[wk[v].c].fd # f
      BY <1>2, <1>7, <3>1, <3>3, Apart DEF f
    <3>5. ~conn[wk[v].c].dead /\ conn[wk[v].c].fd \in wfds /\ callbacks[conn[wk[v].c].fd] = wk[v].c
      BY <1>1, <3>1 DEF NoLostWakeup
    <3>6. QED BY <1>13, <3>1, <3>4, <3>5
  <2>2. ASSUME NEW v \in Worker \ {w}, wk'[v].pc = "turn" PROVE conn'[wk'[v].c].buf
    <3>1. wk[v].pc = "turn" /\ wk[v].c = wk'[v].c /\ wk[v].c \in Conn /\ wk[v].c # c
      BY <1>8, <2>2, IdleHasNone
    <3>2. QED BY <1>1, <1>7, <3>1 DEF NoLostWakeup
  <2>3. ASSUME NEW v \in Worker \ {w}, wk'[v].pc = "removing"
        PROVE  pending /\ (loop.pc = "select" => pipe)
    BY <1>1, <1>8, <2>3 DEF NoLostWakeup
  <2>4. wk'[w].pc \in {"idle", "decref"}
    BY <1>4, <1>8
  <2>5. QED BY <2>1, <2>2, <2>3, <2>4 DEF NoLostWakeup
<1>24. QED BY <1>14, <1>15, <1>16, <1>17, <1>19, <1>20, <1>21, <1>22, <1>23, PartsNext

LEMMA FinishRemoveStep ==
  ASSUME TransportIInv, NEW w \in Worker, FinishRemove(w)
  PROVE  TransportIInv'
<1> DEFINE c == wk[w].c
           f == conn[c].fd
<1>1. /\ wk[w].pc = "removed" /\ callbacks' = [callbacks EXCEPT ![f] = NULL]
      /\ UNCHANGED <<rfds, wfds, pending, pipe, loop, ownerVars, sock, aborted>>
  BY DEF FinishRemove
<1>2. CASE wk[w].op # "close"
  <2>1. FinishSend(w, conn)
    BY <1>2 DEF FinishRemove
  <2>2. QED BY <1>1, <1>2, <2>1, FinishKeeps
<1>3. CASE wk[w].op = "close"
  <2>1. /\ Typed /\ ObjectsInv /\ PollInv /\ WorkersInv /\ LoopInv /\ SocketsInv /\ NoLostWakeup
        /\ wk[w] \in Place /\ wk[w].pc # "idle"
    BY <1>1, Parts, IdleHasNone
  <2>2. c \in Conn /\ Open(c) /\ f \in Fd /\ conn[c].dead
    BY <1>1, <2>1, IdleHasNone DEF ObjectsInv, WorkersInv, Removes
  <2>3. conn' = conn /\ wk' = [wk EXCEPT ![w].pc = "decref"]
    BY <1>3 DEF FinishRemove
  <2>4. /\ wk' \in [Worker -> Place] /\ wk'[w].pc = "decref" /\ wk'[w].c = c /\ wk'[w].op = "close"
        /\ \A v \in Worker \ {w} : wk'[v] = wk[v]
    BY <1>3, <2>1, <2>3, Places DEF Typed, Place
  <2>5. /\ callbacks' \in [Fd -> Conn \cup {NULL}] /\ callbacks'[f] = NULL
        /\ \A g \in Fd \ {f} : callbacks'[g] = callbacks[g]
    BY <1>1, <2>1, <2>2 DEF Typed
  <2> HIDE DEF c, f
  <2>6. Typed'
    BY <1>1, <2>1, <2>3, <2>4, <2>5 DEF Typed, ownerVars
  <2>7. ObjectsInv'
    BY <1>1, <2>3, ObjectsKept
  <2>8. CountInv'
    BY <1>1, <2>3, <2>4, CountKept DEF c
  <2>9. \A v \in Worker \ {w} : (Writes(v)' <=> Writes(v)) /\ (Removes(v)' <=> Removes(v))
    BY <2>4 DEF Writes, Removes
  <2>10. ~Writes(w) /\ ~Writes(w)' /\ ~Removes(w)'
    BY <1>3, <2>4 DEF Writes, Removes
  <2>11. OneWriter'
    BY <2>3, <2>4, <2>9, <2>10, WritersKept
  <2>12. PollInv'
    <3>1. ASSUME NEW g \in Fd, callbacks'[g] # NULL
          PROVE  /\ Open(callbacks'[g]) /\ conn[callbacks'[g]].fd = g
                 /\ conn[callbacks'[g]].dead => \E v \in Worker : Removes(v)' /\ wk'[v].c = callbacks'[g]
      <4>1. g # f /\ callbacks'[g] = callbacks[g]
        BY <2>5, <3>1
      <4>2. Open(callbacks[g]) /\ conn[callbacks[g]].fd = g
        BY <2>1, <3>1, <4>1 DEF PollInv
      <4>3. callbacks[g] # c
        BY <4>1, <4>2 DEF f
      <4>4. ASSUME conn[callbacks[g]].dead
            PROVE  \E v \in Worker : Removes(v)' /\ wk'[v].c = callbacks[g]
        <5>1. PICK v \in Worker : Removes(v) /\ wk[v].c = callbacks[g]
          BY <2>1, <3>1, <4>1, <4>4 DEF PollInv
        <5>2. QED BY <2>4, <2>9, <4>3, <5>1 DEF c
      <4>5. QED BY <4>1, <4>2, <4>4
    <3>2. ASSUME NEW g \in rfds \cup wfds PROVE g \in Fd /\ callbacks'[g] # NULL
      <4>1. g \in Fd /\ callbacks[g] # NULL /\ g # f
        BY <1>1, <2>1, <3>2 DEF PollInv, WorkersInv, Typed, c, f
      <4>2. QED BY <2>5, <4>1
    <3>3. QED BY <1>1, <2>3, <3>1, <3>2 DEF PollInv, Open
  <2>13. WorkersInv'
    <3>1. c # NULL
      BY <2>1, <2>2, IdleHasNone DEF WorkersInv, c
    <3>2. QED BY <1>1, <2>1, <2>3, <2>4, <2>9, <2>10, <3>1 DEF WorkersInv, ownerVars
  <2>14. LoopInv' /\ SocketsInv'
    <3>1. ASSUME loop.pc \in {"select", "read"}, NEW g \in loop.r PROVE callbacks'[g] = callbacks[g]
      <4>1. g \in Fd /\ g # f
        BY <1>1, <2>1, <3>1 DEF WorkersInv, Typed, Round, c, f
      <4>2. QED BY <2>5, <4>1
    <3>2. QED BY <1>1, <2>1, <3>1 DEF LoopInv, SocketsInv
  <2>15. NoLostWakeup'
    <3>1. ASSUME NEW v \in Worker, wk'[v].pc = "complete"
          PROVE  /\ wk'[v] = wk[v] /\ ~conn[wk[v].c].dead /\ conn[wk[v].c].fd \in wfds
                 /\ callbacks'[conn[wk[v].c].fd] = wk[v].c
      <4>1. wk'[v] = wk[v] /\ wk[v].pc = "complete"
        BY <2>4, <3>1
      <4>2. ~conn[wk[v].c].dead /\ conn[wk[v].c].fd \in wfds /\ callbacks[conn[wk[v].c].fd] = wk[v].c
        BY <2>1, <4>1 DEF NoLostWakeup
      <4>3. wk[v].c # c
        BY <2>2, <4>2
      <4>4. conn[wk[v].c].fd \in Fd /\ conn[wk[v].c].fd # f
        BY <2>2, <4>1, <4>3, Apart DEF f
      <4>5. QED BY <2>5, <4>1, <4>2, <4>4
    <3>2. QED BY <1>1, <2>1, <2>3, <2>4, <3>1 DEF NoLostWakeup
  <2>16. QED BY <2>6, <2>7, <2>8, <2>11, <2>12, <2>13, <2>14, <2>15, PartsNext
<1>4. QED BY <1>2, <1>3

LEMMA SendCompletesStep ==
  ASSUME TransportIInv, NEW w \in Worker, SendCompletes(w)
  PROVE  TransportIInv'
<1>1. WorkersInv /\ wk[w].pc = "completeWoken"
  BY Parts DEF SendCompletes
<1>2. conn[wk[w].c].dead \/ conn[wk[w].c].wdone = PduLen
  BY <1>1 DEF WorkersInv
<1>3. FinishSend(w, conn) /\ UNCHANGED <<pollVars, loop, ownerVars, sock, aborted>>
  BY <1>2 DEF SendCompletes
<1>4. wk[w].op # "close"
  BY <1>1 DEF WorkersInv, Removes
<1>5. UNCHANGED <<rfds, wfds, pending, pipe, loop, ownerVars, sock, aborted>>
      /\ callbacks' = callbacks
  BY <1>3 DEF pollVars
<1>6. QED BY <1>1, <1>3, <1>4, <1>5, FinishKeeps

\* send_complete_ is signalled to the sender of c, or nothing happens to it.
Signals(c) ==
    \A v \in Worker :
        \/ wk'[v] = wk[v]
        \/ /\ wk[v].c = c /\ wk[v].pc = "complete"
           /\ wk'[v].c = c /\ wk'[v].pc = "completeWoken" /\ wk'[v].op = wk[v].op

\* What a callback of the loop may do to PollMgr: take out the flags of its own
\* descriptor, and the callback with the last of them.
Unwatches(c, f) ==
    /\ rfds' \subseteq rfds /\ wfds' \subseteq wfds
    /\ rfds \ {f} \subseteq rfds' /\ wfds \ {f} \subseteq wfds'
    /\ \A g \in Fd \ {f} : callbacks'[g] = callbacks[g]
    /\ callbacks'[f] \in {NULL, c}
    /\ f \in rfds' \cup wfds' => callbacks'[f] # NULL
    /\ pipe => pipe'
    /\ pending' = pending

\* What a callback of the loop on the live connection c may do.
Serves(c, f) ==
    /\ \A d \in Conn \ {c} : conn'[d] = conn[d]
    /\ conn'[c].st = conn[c].st /\ conn'[c].fd = conn[c].fd /\ conn'[c].buf = conn[c].buf
    /\ Unwatches(c, f) /\ Signals(c)
    /\ conn'[c].dead => callbacks'[f] = NULL
    /\ \A v \in Worker : wk'[v].c = c /\ wk'[v].pc = "complete" =>
         ~conn'[c].dead /\ f \in wfds' /\ callbacks'[f] = c /\ conn'[c].wsz = PduLen
    /\ \A v \in Worker : wk'[v].c = c /\ wk'[v].pc = "completeWoken" =>
         conn'[c].dead \/ conn'[c].wdone = PduLen
    /\ \A g \in Fd : sock'[g].open = sock[g].open
    /\ saved' = saved

LEMMA CallbackKeeps ==
  ASSUME TransportIInv, Typed', CountInv', SocketsInv', NEW f \in Fd, NEW c \in Conn,
         callbacks[f] = c, ~conn[c].dead, Serves(c, f),
         NEW r \in SUBSET (loop.r \ {f}), NEW w \in SUBSET loop.w, NEW e \in BOOLEAN,
         Serve(r, w, e), loop.pc = "read" \/ r = {}
  PROVE  TransportIInv'
<1>1. /\ Typed /\ ObjectsInv /\ PollInv /\ WorkersInv /\ LoopInv /\ SocketsInv /\ NoLostWakeup
  BY Parts
<1>2. Open(c) /\ conn[c].fd = f /\ c # NULL
  BY <1>1, TransportAssumption DEF PollInv
<1>3. /\ loop' \in Round /\ loop'.r = r /\ loop'.w = w /\ loop'.pc \in {"top", "read", "write"}
      /\ loop'.pc = "read" => r # {}
      /\ loop'.pc = "write" => r = {} /\ w # {}
      /\ \A g \in r : g \in loop.r /\ loop'.owner[g] = loop.owner[g]
  <2>1. r \in SUBSET loop.r /\ loop \in Round
    BY <1>1 DEF Typed
  <2>2. QED BY <2>1, ServeIs
<1>4. /\ \A d \in Conn \ {c} : conn'[d] = conn[d]
      /\ conn'[c].st = conn[c].st /\ conn'[c].fd = conn[c].fd /\ conn'[c].buf = conn[c].buf
      /\ conn'[c].dead => callbacks'[f] = NULL
      /\ \A g \in Fd : sock'[g].open = sock[g].open
      /\ saved' = saved
  BY DEF Serves
<1>5. /\ rfds' \subseteq rfds /\ wfds' \subseteq wfds /\ wfds \ {f} \subseteq wfds'
      /\ \A g \in Fd \ {f} : callbacks'[g] = callbacks[g]
      /\ callbacks'[f] \in {NULL, c}
      /\ f \in rfds' \cup wfds' => callbacks'[f] # NULL
      /\ pending' = pending
  BY DEF Serves, Unwatches
<1>6. \A v \in Worker : /\ wk'[v].c = wk[v].c /\ wk'[v].op = wk[v].op
                        /\ \/ wk'[v].pc = wk[v].pc
                           \/ wk[v].c = c /\ wk[v].pc = "complete" /\ wk'[v].pc = "completeWoken"
  BY DEF Serves, Signals
<1>7. \A v \in Worker : (Removes(v)' <=> Removes(v)) /\ (Writes(v)' <=> Writes(v))
  BY <1>6 DEF Removes, Writes
<1>8. ObjectsInv'
  <2>1. \A d \in Conn : /\ conn'[d].st = conn[d].st /\ conn'[d].fd = conn[d].fd
                        /\ ~Open(d) => conn'[d] = conn[d]
    BY <1>2, <1>4
  <2>2. QED BY <1>4, <2>1, ObjectsKept
<1>9. OneWriter'
  <2>1. \A d \in Conn : conn'[d].buf = conn[d].buf
    BY <1>4
  <2>2. QED BY <1>6, <1>7, <2>1, WritersKept
<1>10. PollInv'
  <2>1. ASSUME NEW g \in Fd, callbacks'[g] # NULL
        PROVE  /\ Open(callbacks[g])' /\ conn'[callbacks'[g]].fd = g
               /\ conn'[callbacks'[g]].dead => \E v \in Worker : Removes(v)' /\ wk'[v].c = callbacks'[g]
    <3>1. CASE g = f
      <4>1. callbacks'[g] = c /\ ~conn'[c].dead
        BY <1>4, <1>5, <2>1, <3>1
      <4>2. QED BY <1>2, <1>4, <3>1, <4>1 DEF Open
    <3>2. CASE g # f
      <4>1. callbacks'[g] = callbacks[g] /\ callbacks[g] \in Conn
        BY <1>1, <1>5, <2>1, <3>2 DEF Typed
      <4>2. callbacks[g] # c
        BY <1>1, <1>2, <2>1, <3>2, <4>1 DEF PollInv
      <4>3. conn'[callbacks[g]] = conn[callbacks[g]]
        BY <1>4, <4>1, <4>2
      <4>4. QED BY <1>1, <1>6, <1>7, <2>1, <4>1, <4>3 DEF PollInv, Open
    <3>3. QED BY <3>1, <3>2
  <2>2. ASSUME NEW g \in rfds' \cup wfds' PROVE callbacks'[g] # NULL
    <3>1. g \in rfds \cup wfds /\ g \in Fd
      BY <1>1, <1>5 DEF Typed
    <3>2. callbacks[g] # NULL
      BY <1>1, <3>1 DEF PollInv
    <3>3. QED BY <1>5, <3>1, <3>2
  <2>3. QED BY <2>1, <2>2 DEF PollInv
<1>11. \A v \in Worker : wk[v].pc # "idle" /\ wk[v].c # c => wk[v].c \in Conn /\ conn'[wk[v].c] = conn[wk[v].c]
  BY <1>4, IdleHasNone
<1>12. WorkersInv'
  <2>1. ASSUME NEW v \in Worker
        PROVE  /\ wk'[v].pc = "idle" <=> wk'[v].c = NULL
               /\ wk'[v].pc = "latest" => saved # NULL
               /\ wk'[v].op = "close" => Removes(v)' \/ wk'[v].pc = "decref"
               /\ ~(wk'[v].pc = "removing" /\ loop'.pc = "copy")
    <3>1. /\ wk[v].pc = "idle" <=> wk[v].c = NULL
          /\ wk[v].pc = "latest" => saved # NULL
          /\ wk[v].op = "close" => Removes(v) \/ wk[v].pc = "decref"
      BY <1>1 DEF WorkersInv
    <3>2. QED BY <1>2, <1>3, <1>6, <1>7, <3>1 DEF Removes
  <2>2. ASSUME NEW v \in Worker, Removes(v)'
        PROVE  /\ conn'[wk'[v].c].dead
               /\ wk'[v].pc \in {"removing", "removed"} => conn'[wk'[v].c].fd \notin rfds' \cup wfds'
               /\ wk'[v].pc = "removed" /\ loop'.pc \in {"select", "read"} => conn'[wk'[v].c].fd \notin loop'.r
    <3>1. Removes(v) /\ wk'[v].c = wk[v].c /\ wk'[v].pc = wk[v].pc
      BY <1>6, <1>7, <2>2 DEF Removes
    <3>2. /\ conn[wk[v].c].dead
          /\ wk[v].pc \in {"removing", "removed"} => conn[wk[v].c].fd \notin rfds \cup wfds
          /\ wk[v].pc = "removed" /\ loop.pc \in {"select", "read"} => conn[wk[v].c].fd \notin loop.r
      BY <1>1, <3>1 DEF WorkersInv
    <3>3. conn'[wk[v].c] = conn[wk[v].c]
      BY <1>11, <3>1, <3>2 DEF Removes
    <3>4. QED BY <1>3, <1>5, <3>1, <3>2, <3>3
  <2>3. ASSUME NEW v \in Worker, wk'[v].pc \in {"complete", "completeWoken"}
        PROVE  /\ wk'[v].pc = "complete" => conn'[wk'[v].c].wsz = PduLen
               /\ wk'[v].pc = "completeWoken" => conn'[wk'[v].c].dead \/ conn'[wk'[v].c].wdone = PduLen
    <3>1. CASE wk'[v].c = c
      BY <2>3, <3>1 DEF Serves
    <3>2. CASE wk'[v].c # c
      <4>1. wk'[v].pc = wk[v].pc /\ wk'[v].c = wk[v].c /\ conn'[wk[v].c] = conn[wk[v].c]
        BY <1>6, <1>11, <2>3, <3>2
      <4>2. QED BY <1>1, <2>3, <4>1 DEF WorkersInv
    <3>3. QED BY <3>1, <3>2
  <2>4. QED BY <1>4, <2>1, <2>2, <2>3 DEF WorkersInv, Removes
<1>13. LoopInv'
  <2>1. ASSUME NEW g \in r, loop'.pc = "read"
        PROVE  callbacks'[g] # NULL /\ callbacks'[g] = loop'.owner[g]
    <3>1. loop.pc = "read" /\ g \in loop.r /\ g \in Fd \ {f} /\ loop'.owner[g] = loop.owner[g]
      BY <1>1, <1>3, <2>1 DEF Typed, Round
    <3>2. QED BY <1>1, <1>5, <3>1 DEF LoopInv
  <2>2. QED BY <1>3, <2>1 DEF LoopInv
<1>14. NoLostWakeup'
  <2>1. ASSUME NEW v \in Worker, wk'[v].pc = "complete"
        PROVE  /\ ~conn'[wk'[v].c].dead /\ conn'[wk'[v].c].fd \in wfds'
               /\ callbacks'[conn'[wk'[v].c].fd] = wk'[v].c
    <3>1. CASE wk'[v].c = c
      <4>1. ~conn'[c].dead /\ f \in wfds' /\ callbacks'[f] = c
        BY <2>1, <3>1 DEF Serves
      <4>2. QED BY <1>2, <1>4, <3>1, <4>1
    <3>2. CASE wk'[v].c # c
      <4>1. wk[v].pc = "complete" /\ wk'[v].c = wk[v].c /\ conn'[wk[v].c] = conn[wk[v].c]
        BY <1>6, <1>11, <2>1, <3>2
      <4>2. ~conn[wk[v].c].dead /\ conn[wk[v].c].fd \in wfds /\ callbacks[conn[wk[v].c].fd] = wk[v].c
        BY <1>1, <4>1 DEF NoLostWakeup
      <4>3. conn[wk[v].c].fd \in Fd /\ conn[wk[v].c].fd # f
        BY <1>2, <3>2, <4>1, Apart
      <4>4. QED BY <1>5, <4>1, <4>2, <4>3
    <3>3. QED BY <3>1, <3>2
  <2>2. ASSUME NEW v \in Worker, wk'[v].pc = "turn" PROVE conn'[wk'[v].c].buf
    <3>1. wk[v].pc = "turn" /\ wk'[v].c = wk[v].c /\ wk[v].c \in Conn
      BY <1>6, <2>2, IdleHasNone
    <3>2. conn[wk[v].c].buf
      BY <1>1, <3>1 DEF NoLostWakeup
    <3>3. conn'[wk[v].c].buf = conn[wk[v].c].buf
      BY <1>4, <3>1
    <3>4. QED BY <3>1, <3>2, <3>3
  <2>3. ASSUME NEW v \in Worker, wk'[v].pc = "removing" PROVE pending' /\ loop'.pc # "select"
    <3>1. wk[v].pc = "removing"
      BY <1>6, <2>3
    <3>2. QED BY <1>1, <1>3, <1>5, <3>1 DEF NoLostWakeup
  <2>4. QED BY <2>1, <2>2, <2>3 DEF NoLostWakeup
<1>15. QED BY <1>8, <1>9, <1>10, <1>12, <1>13, <1>14, PartsNext

\* del_callback on the connection's own descriptor.
LEMMA DelCallbackIs ==
  ASSUME Typed, NEW f \in Fd, NEW c \in Conn, callbacks[f] = c,
         NEW flags \in {{"w"}, {"r", "w"}}, del_callback(f, flags)
  PROVE  /\ Unwatches(c, f) /\ callbacks' \in [Fd -> Conn \cup {NULL}]
         /\ rfds' \subseteq Fd /\ wfds' \subseteq Fd /\ pipe' \in BOOLEAN /\ pending' = pending
         /\ flags = {"r", "w"} => callbacks'[f] = NULL
<1>1. /\ rfds' = (IF "r" \in flags THEN rfds \ {f} ELSE rfds)
      /\ wfds' = wfds \ {f} /\ pipe' = (pipe \/ flags = {"r", "w"})
      /\ callbacks' = [callbacks EXCEPT ![f] = IF f \in rfds' \cup wfds' THEN @ ELSE NULL]
      /\ pending' = pending
  BY DEF del_callback, unwatch_fd
<1>2. /\ callbacks' \in [Fd -> Conn \cup {NULL}] /\ \A g \in Fd \ {f} : callbacks'[g] = callbacks[g]
      /\ callbacks'[f] = IF f \in rfds' \cup wfds' THEN c ELSE NULL
  BY <1>1 DEF Typed
<1>3. /\ rfds' \subseteq rfds /\ wfds' \subseteq wfds
      /\ rfds \ {f} \subseteq rfds' /\ wfds \ {f} \subseteq wfds'
      /\ flags = {"r", "w"} => f \notin rfds' \cup wfds'
  BY <1>1
<1>4. pipe' \in BOOLEAN /\ (pipe => pipe')
  BY <1>1 DEF Typed
<1>5. c # NULL
  BY TransportAssumption
<1>6. rfds' \subseteq Fd /\ wfds' \subseteq Fd
  BY <1>3 DEF Typed
<1>7. Unwatches(c, f)
  BY <1>1, <1>2, <1>3, <1>4, <1>5 DEF Unwatches
<1>8. QED BY <1>1, <1>2, <1>3, <1>4, <1>6, <1>7

\* The signal: nobody on c waits for it any more.
LEMMA SignalIs ==
  ASSUME Typed, NEW c \in Conn, SignalComplete(c)
  PROVE  /\ Signals(c) /\ wk' \in [Worker -> Place]
         /\ \A v \in Worker : wk'[v].c = wk[v].c /\ ~(wk'[v].c = c /\ wk'[v].pc = "complete")
<1>1. wk' = [v \in Worker |-> IF wk[v].c = c /\ wk[v].pc = "complete"
                              THEN [wk[v] EXCEPT !.pc = "completeWoken"] ELSE wk[v]]
  BY DEF SignalComplete
<1>2. ASSUME NEW v \in Worker
      PROVE  /\ wk'[v] \in Place /\ wk'[v].c = wk[v].c /\ ~(wk'[v].c = c /\ wk'[v].pc = "complete")
             /\ \/ wk'[v] = wk[v]
                \/ /\ wk[v].c = c /\ wk[v].pc = "complete"
                   /\ wk'[v].c = c /\ wk'[v].pc = "completeWoken" /\ wk'[v].op = wk[v].op
  <2>1. wk[v] \in Place
    BY DEF Typed
  <2>2. CASE wk[v].c = c /\ wk[v].pc = "complete"
    <3>1. wk'[v] = [wk[v] EXCEPT !.pc = "completeWoken"]
      BY <1>1, <2>2
    <3>2. QED BY <2>1, <2>2, <3>1, Places DEF Place
  <2>3. CASE ~(wk[v].c = c /\ wk[v].pc = "complete")
    <3>1. wk'[v] = wk[v]
      BY <1>1, <2>3
    <3>2. QED BY <2>1, <2>3, <3>1
  <2>4. QED BY <2>2, <2>3
<1>3. wk' \in [Worker -> Place]
  BY <1>1, <1>2
<1>4. QED BY <1>2, <1>3 DEF Signals

\* Callbacks that leave the thread tables and PollMgr alone.
LEMMA NothingSignalled ==
  ASSUME Typed, NEW f \in Fd, NEW c \in Conn, callbacks[f] = c
  PROVE  /\ wk' = wk => Signals(c)
         /\ UNCHANGED pollVars => Unwatches(c, f)
<1>1. c # NULL
  BY TransportAssumption
<1>2. QED BY <1>1 DEF Signals, Unwatches, pollVars

LEMMA SmallerOfTwo ==
  ASSUME NEW a \in Nat, NEW b \in Nat
  PROVE  Min({a, b}) \in Nat /\ Min({a, b}) <= a /\ Min({a, b}) <= b
<1>1. \E x \in {a, b} : \A y \in {a, b} : x <= y
  <2>1. CASE a <= b
    BY <2>1
  <2>2. CASE b <= a
    BY <2>2
  <2>3. QED BY <2>1, <2>2
<1>2. Min({a, b}) \in {a, b} /\ \A y \in {a, b} : Min({a, b}) <= y
  BY <1>1 DEF Min
<1>3. QED BY <1>2

\* What readpdu returns: it takes units off the socket, never more of a pdu
\* than there is.
Outcome == [ok : BOOLEAN, rdone : 0 .. PduLen, in : 0 .. MaxUnits, eagain : BOOLEAN]

LEMMA ReadBodyIs ==
  ASSUME loop.eagain \in BOOLEAN, NEW s, s.in \in 0 .. MaxUnits, NEW rd \in 0 .. PduLen
  PROVE  ReadBody(s, rd) \in Outcome /\ ReadBody(s, rd).in <= s.in
<1> DEFINE n == Min({s.in, PduLen - rd})
<1>1. PduLen \in Nat /\ MaxUnits \in Nat /\ s.in \in Nat /\ PduLen - rd \in Nat
  BY TransportAssumption
<1>2. n \in Nat /\ n <= s.in /\ n <= PduLen - rd
  BY <1>1, SmallerOfTwo
<1>3. ReadBody(s, rd) =
        CASE s.in > 0 -> [ok |-> TRUE, rdone |-> rd + n, in |-> s.in - n, eagain |-> loop.eagain]
          [] s.in = 0 /\ s.shut = "no" -> [ok |-> TRUE, rdone |-> rd, in |-> 0, eagain |-> TRUE]
          [] s.in = 0 /\ s.shut = "eof" ->
               [ok |-> loop.eagain, rdone |-> IF loop.eagain THEN rd ELSE 0, in |-> 0, eagain |-> loop.eagain]
          [] OTHER -> [ok |-> FALSE, rdone |-> 0, in |-> 0, eagain |-> FALSE]
  BY DEF ReadBody
<1> HIDE DEF n
<1>4. CASE s.in > 0
  <2>1. ReadBody(s, rd) = [ok |-> TRUE, rdone |-> rd + n, in |-> s.in - n, eagain |-> loop.eagain]
    BY <1>1, <1>3, <1>4
  <2>2. rd + n \in 0 .. PduLen /\ s.in - n \in 0 .. MaxUnits /\ s.in - n <= s.in
    BY <1>1, <1>2
  <2>3. QED BY <2>1, <2>2 DEF Outcome
<1>5. CASE s.in = 0
  <2>1. 0 \in 0 .. PduLen /\ 0 \in 0 .. MaxUnits
    BY <1>1
  <2>2. CASE s.shut = "no"
    BY <1>3, <1>5, <2>1, <2>2 DEF Outcome
  <2>3. CASE s.shut = "eof"
    BY <1>3, <1>5, <2>1, <2>3 DEF Outcome
  <2>4. CASE s.shut \notin {"no", "eof"}
    BY <1>3, <1>5, <2>1, <2>4 DEF Outcome
  <2>5. QED BY <2>2, <2>3, <2>4
<1>6. QED BY <1>1, <1>4, <1>5

LEMMA ReadpduIs ==
  ASSUME Typed, NEW c \in Conn, conn[c].fd \in Fd, NEW x \in readpdu(c)
  PROVE  x \in Outcome /\ x.in <= sock[conn[c].fd].in
<1> DEFINE s == sock[conn[c].fd]
<1>1. /\ s \in Socket /\ s.in \in 0 .. MaxUnits /\ loop.eagain \in BOOLEAN /\ conn[c].rdone \in 0 .. PduLen
      /\ PduLen \in Nat /\ PduLen >= 2 /\ MaxUnits \in Nat
  <2>1. s \in Socket /\ conn[c] \in Object /\ loop \in Round
    BY DEF Typed
  <2>2. s.in \in 0 .. MaxUnits /\ loop.eagain \in BOOLEAN /\ conn[c].rdone \in 0 .. PduLen
    BY <2>1 DEF Socket, Round, Object
  <2>3. PduLen \in Nat /\ PduLen >= 2 /\ MaxUnits \in Nat
    BY TransportAssumption
  <2>4. QED BY <2>1, <2>2, <2>3
<1>2. CASE conn[c].rdone > 0
  <2>1. x = ReadBody(s, conn[c].rdone)
    BY <1>2 DEF readpdu
  <2>2. QED BY <1>1, <2>1, ReadBodyIs
<1>3. CASE conn[c].rdone = 0 /\ s.in > 0
  <2>1. \/ x = ReadBody([s EXCEPT !.in = s.in - 1], 1)
        \/ x = [ok |-> FALSE, rdone |-> 0, in |-> s.in - 1, eagain |-> loop.eagain]
    BY <1>1, <1>3 DEF readpdu
  <2>2. s.in - 1 \in 0 .. MaxUnits /\ s.in - 1 <= s.in /\ 1 \in 0 .. PduLen /\ 0 \in 0 .. PduLen
    BY <1>1, <1>3
  <2>3. [s EXCEPT !.in = s.in - 1].in = s.in - 1
    BY <1>1 DEF Socket
  <2>4. CASE x = ReadBody([s EXCEPT !.in = s.in - 1], 1)
    <3>1. x \in Outcome /\ x.in <= s.in - 1
      BY <1>1, <2>2, <2>3, <2>4, ReadBodyIs
    <3>2. x.in \in 0 .. MaxUnits
      BY <3>1 DEF Outcome
    <3>3. QED BY <1>1, <3>1, <3>2
  <2>5. CASE x = [ok |-> FALSE, rdone |-> 0, in |-> s.in - 1, eagain |-> loop.eagain]
    BY <1>1, <2>2, <2>5 DEF Outcome
  <2>6. QED BY <2>1, <2>4, <2>5
<1>4. CASE ~(conn[c].rdone > 0) /\ ~(conn[c].rdone = 0 /\ s.in > 0)
  <2>1. x = [ok |-> FALSE, rdone |-> 0, in |-> 0, eagain |-> loop.eagain /\ s.shut = "eof"]
    BY <1>4 DEF readpdu
  <2>2. 0 \in 0 .. PduLen /\ 0 \in 0 .. MaxUnits
    BY <1>1
  <2>3. x.in = 0 /\ x \in Outcome
    BY <1>1, <2>1, <2>2 DEF Outcome
  <2>4. QED BY <1>1, <2>3
<1>5. QED BY <1>2, <1>3, <1>4

\* The object of a live registered connection, its ticket to the callbacks.
LEMMA RegisteredIs ==
  ASSUME TransportIInv, NEW f \in Fd, callbacks[f] # NULL
  PROVE  /\ callbacks[f] \in Conn /\ Open(callbacks[f]) /\ conn[callbacks[f]].fd = f
         /\ conn[callbacks[f]] \in Object /\ callbacks[f] # NULL
<1>1. Typed /\ PollInv
  BY Parts
<1>2. callbacks[f] \in Conn
  BY <1>1 DEF Typed
<1>3. QED BY <1>1, <1>2 DEF PollInv, Typed

LEMMA LoopWriteStep ==
  ASSUME TransportIInv, LoopWrite
  PROVE  TransportIInv'
<1> DEFINE f == Min(loop.w)
           c == callbacks[f]
           e == IF c = NULL THEN loop.eagain ELSE ErrnoAfter(c)
<1>1. /\ Typed /\ WorkersInv /\ LoopInv /\ SocketsInv /\ NoLostWakeup
  BY Parts
<1>2. /\ loop.pc = "write" /\ Serve({}, loop.w \ {f}, e) /\ UNCHANGED <<ownerVars, sock>>
      /\ \/ c = NULL /\ UNCHANGED <<conn, pollVars, wk, aborted>>
         \/ c # NULL /\ ~Live(c) /\ aborted' = TRUE /\ UNCHANGED <<conn, pollVars, wk>>
         \/ Live(c) /\ write_cb(c) /\ UNCHANGED aborted
  BY DEF LoopWrite
<1>3. f \in Fd /\ loop.eagain \in BOOLEAN /\ loop.w \subseteq Fd
  <2>1. loop.w # {} /\ loop.w \subseteq Nat /\ loop.w \subseteq Fd /\ loop.eagain \in BOOLEAN
    BY <1>1, <1>2, TransportAssumption DEF LoopInv, Typed, Round
  <2>2. QED BY <2>1, MinIsMember
<1>4. conn' \in [Conn -> Object] => e \in BOOLEAN
  <2>1. c \in Conn \cup {NULL}
    BY <1>1, <1>3 DEF Typed
  <2>2. QED BY <1>3, <2>1 DEF ErrnoAfter, Object
<1> HIDE DEF f, e
<1>5. CASE ~Live(c)
  <2>1. /\ UNCHANGED <<conn, pollVars, wk, ownerVars, sock>> /\ aborted' \in BOOLEAN
    BY <1>1, <1>2, <1>5 DEF Live, Typed
  <2>2. e \in BOOLEAN /\ pipe' \in BOOLEAN
    BY <1>1, <1>4, <2>1 DEF Typed, pollVars
  <2>3. UNCHANGED <<conn, callbacks, rfds, wfds, pending, wk, ownerVars, sock>>
    BY <2>1 DEF pollVars
  <2>4. {} \in SUBSET loop.r /\ loop.w \ {f} \in SUBSET loop.w
    OBVIOUS
  <2>5. QED BY <1>2, <2>1, <2>2, <2>3, <2>4, ServeKeeps
<1>6. CASE Live(c)
  <2>1. /\ c \in Conn /\ Open(c) /\ conn[c].fd = f /\ conn[c] \in Object /\ c # NULL /\ ~conn[c].dead
        /\ callbacks[f] = c
    BY <1>3, <1>6, RegisteredIs DEF Live
  <2>2. /\ conn[c].wdone \in -1 .. PduLen /\ conn[c].wsz \in {0, PduLen} /\ PduLen \in Nat
        /\ PduLen # 0 /\ 0 \in -1 .. PduLen
    BY <2>1, TransportAssumption DEF Object
  <2> HIDE DEF c
  <2>3. write_cb(c) /\ UNCHANGED <<ownerVars, sock, aborted>>
    BY <1>2, <1>6, Zenon DEF Live
  <2>4. ASSUME Serves(c, f), conn' \in [Conn -> Object], conn'[c].refno = conn[c].refno,
               wk' \in [Worker -> Place], callbacks' \in [Fd -> Conn \cup {NULL}], pipe' \in BOOLEAN
        PROVE  TransportIInv'
    <3>1. e \in BOOLEAN
      BY <1>4, <2>4
    <3>2. loop' \in Round
      <4>1. {} \in SUBSET loop.r /\ loop.w \ {f} \in SUBSET loop.w /\ loop \in Round
        BY <1>1 DEF Typed
      <4>2. QED BY <1>2, <3>1, <4>1, ServeIs
    <3>3. rfds' \subseteq Fd /\ wfds' \subseteq Fd /\ pending' \in BOOLEAN
      BY <1>1, <2>4 DEF Serves, Unwatches, Typed
    <3>4. Typed'
      BY <1>1, <2>3, <2>4, <3>2, <3>3 DEF Typed, ownerVars
    <3>5. CountInv'
      <4>1. \A d \in Conn : conn'[d].refno = conn[d].refno
        BY <2>4 DEF Serves
      <4>2. \A v \in Worker : wk'[v].c = wk[v].c
        BY <2>4 DEF Serves, Signals
      <4>3. QED BY <2>3, <4>1, <4>2, CountKept
    <3>6. SocketsInv'
      BY <1>1, <2>3 DEF SocketsInv
    <3>7. {} \in SUBSET (loop.r \ {f}) /\ loop.w \ {f} \in SUBSET loop.w
      OBVIOUS
    <3>8. QED BY <1>2, <1>3, <2>1, <2>4, <3>1, <3>4, <3>5, <3>6, <3>7, CallbackKeeps
  <2>5. saved' = saved /\ \A g \in Fd : sock'[g].open = sock[g].open
    BY <2>3 DEF ownerVars
  <2>6. /\ \A v \in Worker : wk[v].c = c /\ wk[v].pc = "complete" =>
             f \in wfds /\ conn[c].wsz = PduLen
        /\ \A v \in Worker : wk[v].c = c /\ wk[v].pc = "completeWoken" => conn[c].wdone = PduLen
    BY <1>1, <2>1 DEF WorkersInv, NoLostWakeup
  <2>7. CASE conn[c].wsz = 0 /\ del_callback(conn[c].fd, {"w"}) /\ UNCHANGED <<conn, wk>>
    <3>1. /\ Unwatches(c, f) /\ callbacks' \in [Fd -> Conn \cup {NULL}] /\ pipe' \in BOOLEAN
      BY <1>1, <1>3, <2>1, <2>7, DelCallbackIs
    <3>2. Signals(c)
      BY <1>1, <1>3, <2>1, <2>7, NothingSignalled
    <3>3. Serves(c, f)
      BY <2>1, <2>2, <2>5, <2>6, <2>7, <3>1, <3>2 DEF Serves
    <3>4. QED BY <1>1, <2>4, <2>7, <3>1, <3>3 DEF Typed
  <2>8. CASE conn[c].wdone = PduLen /\ SignalComplete(c) /\ UNCHANGED <<conn, pollVars>>
    <3>1. /\ Signals(c) /\ wk' \in [Worker -> Place]
          /\ \A v \in Worker : ~(wk'[v].c = c /\ wk'[v].pc = "complete")
      BY <1>1, <2>1, <2>8, SignalIs
    <3>2. Unwatches(c, f)
      BY <1>1, <1>3, <2>1, <2>8, NothingSignalled
    <3>3. Serves(c, f)
      BY <2>1, <2>5, <2>8, <3>1, <3>2 DEF Serves
    <3>4. callbacks' = callbacks /\ pipe' = pipe
      BY <2>8 DEF pollVars
    <3>5. QED BY <1>1, <2>4, <2>8, <3>1, <3>3, <3>4 DEF Typed
  <2>9. ASSUME conn[c].wsz > 0, conn[c].wdone < PduLen, NEW n \in writepdu(conn[c].fd, conn[c].wdone),
               \/ /\ n = -1
                  /\ conn' = [conn EXCEPT ![c].wdone = n, ![c].wsz = 0, ![c].dead = TRUE]
                  /\ del_callback(conn[c].fd, {"r", "w"}) /\ SignalComplete(c)
               \/ /\ n >= 0 /\ conn' = [conn EXCEPT ![c].wdone = n]
                  /\ IF n = PduLen THEN SignalComplete(c) ELSE UNCHANGED wk
                  /\ UNCHANGED pollVars
        PROVE  TransportIInv'
    <3>1. n \in -1 .. PduLen
      BY <2>2, <2>9 DEF writepdu
    <3>2. CASE /\ n = -1
               /\ conn' = [conn EXCEPT ![c].wdone = n, ![c].wsz = 0, ![c].dead = TRUE]
               /\ del_callback(conn[c].fd, {"r", "w"}) /\ SignalComplete(c)
      <4> DEFINE o == [conn[c] EXCEPT !.wdone = n, !.wsz = 0, !.dead = TRUE]
      <4>1. /\ o \in Object /\ o.st = conn[c].st /\ o.fd = conn[c].fd /\ o.buf = conn[c].buf
            /\ o.refno = conn[c].refno /\ o.dead
        BY <2>1, <2>2, <3>1 DEF Object
      <4>2. conn' = [conn EXCEPT ![c] = o]
        BY <3>2
      <4> HIDE DEF o
      <4>3. conn' \in [Conn -> Object] /\ conn'[c] = o /\ \A d \in Conn \ {c} : conn'[d] = conn[d]
        BY <1>1, <2>1, <4>1, <4>2 DEF Typed
      <4>4. /\ Unwatches(c, f) /\ callbacks' \in [Fd -> Conn \cup {NULL}] /\ pipe' \in BOOLEAN
            /\ callbacks'[f] = NULL
        BY <1>1, <1>3, <2>1, <3>2, DelCallbackIs
      <4>5. /\ Signals(c) /\ wk' \in [Worker -> Place]
            /\ \A v \in Worker : ~(wk'[v].c = c /\ wk'[v].pc = "complete")
        BY <1>1, <2>1, <3>2, SignalIs
      <4>6. Serves(c, f)
        BY <2>5, <4>1, <4>3, <4>4, <4>5 DEF Serves
      <4>7. QED BY <2>4, <4>1, <4>3, <4>4, <4>5, <4>6
    <3>3. CASE /\ n >= 0 /\ conn' = [conn EXCEPT ![c].wdone = n]
               /\ IF n = PduLen THEN SignalComplete(c) ELSE UNCHANGED wk
               /\ UNCHANGED pollVars
      <4> DEFINE o == [conn[c] EXCEPT !.wdone = n]
      <4>1. /\ o \in Object /\ o.st = conn[c].st /\ o.fd = conn[c].fd /\ o.buf = conn[c].buf
            /\ o.refno = conn[c].refno /\ o.dead = conn[c].dead /\ o.wdone = n /\ o.wsz = conn[c].wsz
        BY <2>1, <3>1 DEF Object
      <4>2. conn' = [conn EXCEPT ![c] = o]
        BY <3>3
      <4> HIDE DEF o
      <4>3. conn' \in [Conn -> Object] /\ conn'[c] = o /\ \A d \in Conn \ {c} : conn'[d] = conn[d]
        BY <1>1, <2>1, <4>1, <4>2 DEF Typed
      <4>4. Unwatches(c, f) /\ callbacks' = callbacks /\ pipe' = pipe /\ wfds' = wfds
        BY <1>1, <1>3, <2>1, <3>3, NothingSignalled DEF pollVars
      <4>5. CASE n = PduLen
        <5>1. /\ Signals(c) /\ wk' \in [Worker -> Place]
              /\ \A v \in Worker : ~(wk'[v].c = c /\ wk'[v].pc = "complete")
          BY <1>1, <2>1, <3>3, <4>5, SignalIs
        <5>2. Serves(c, f)
          BY <2>1, <2>5, <4>1, <4>3, <4>4, <4>5, <5>1 DEF Serves
        <5>3. QED BY <1>1, <2>4, <4>1, <4>3, <4>4, <5>1, <5>2 DEF Typed
      <4>6. CASE n # PduLen
        <5>1. wk' = wk /\ Signals(c)
          BY <1>1, <1>3, <2>1, <3>3, <4>6, NothingSignalled
        <5>2. \A v \in Worker : ~(wk'[v].c = c /\ wk'[v].pc = "completeWoken")
          BY <2>2, <2>6, <2>9, <5>1
        <5>3. Serves(c, f)
          BY <2>1, <2>5, <2>6, <4>1, <4>3, <4>4, <5>1, <5>2 DEF Serves
        <5>4. QED BY <1>1, <2>4, <4>1, <4>3, <4>4, <5>1, <5>3 DEF Typed
      <4>7. QED BY <4>5, <4>6
    <3>4. QED BY <2>9, <3>2, <3>3
  <2>10. QED BY <2>3, <2>7, <2>8, <2>9 DEF write_cb
<1>7. QED BY <1>5, <1>6

\* A job is queued, and takes a reference.
LEMMA JobKeepsCount ==
  ASSUME TransportIInv, NEW c \in Conn, jobq' = Append(jobq, c), conn'[c].refno = conn[c].refno + 1,
         \A d \in Conn \ {c} : conn'[d].refno = conn[d].refno,
         wk' = wk, UNCHANGED <<conns, saved, chan>>
  PROVE  CountInv'
<1>1. Typed /\ CountInv
  BY Parts
<1>2. jobq' \in Seq(Conn)
  BY <1>1 DEF Typed
<1>3. UserTurns(wk, wk', NULL, NULL)
  <2>1. ASSUME NEW d PROVE Cardinality(UsersOf(wk, d)) = Cardinality(UsersOf(wk, d)) - One(NULL = d) + One(NULL = d)
    <3>1. Cardinality(UsersOf(wk, d)) \in Nat /\ One(NULL = d) \in {0, 1}
      BY UsersFinite DEF One
    <3>2. QED BY <3>1
  <2>2. QED BY <2>1 DEF UserTurns
<1>4. ASSUME NEW d \in Conn PROVE Holders(d)' <= conn'[d].refno
  <2>1. /\ Holders(d) \in Nat /\ Holders(d)' \in Nat
        /\ Holders(d)' = Holders(d) - One(NULL = d) + One(NULL = d)
               + Cardinality(JobsOf(jobq', d)) - Cardinality(JobsOf(jobq, d))
               + One(d \in conns') - One(d \in conns) + One(saved' = d) - One(saved = d)
               + One(chan' = d) - One(chan = d)
    BY <1>1, <1>2, <1>3, Recount
  <2>2. One(d \in conns') = One(d \in conns) /\ One(saved' = d) = One(saved = d) /\ One(chan' = d) = One(chan = d)
    OBVIOUS
  <2>3. Cardinality(JobsOf(jobq', d)) = Cardinality(JobsOf(jobq, d)) + One(c = d)
    BY <1>1, JobAdded DEF Typed
  <2>4. /\ Cardinality(JobsOf(jobq, d)) \in Nat /\ conn[d].refno \in Nat /\ Holders(d) <= conn[d].refno
        /\ One(d \in conns) \in {0, 1} /\ One(saved = d) \in {0, 1} /\ One(chan = d) \in {0, 1}
        /\ One(NULL = d) \in {0, 1}
    BY <1>1, CountsAre DEF CountInv, One
  <2>5. Holders(d)' = Holders(d) + One(c = d)
    <3> DEFINE a == One(d \in conns)
               b == One(saved = d)
               g == One(chan = d)
               h == One(NULL = d)
               j == Cardinality(JobsOf(jobq, d))
               k == One(c = d)
               u == Holders(d)
    <3>1. /\ a \in {0, 1} /\ b \in {0, 1} /\ g \in {0, 1} /\ h \in {0, 1} /\ j \in Nat /\ u \in Nat /\ k \in {0, 1}
          /\ Holders(d)' = u - h + h + (j + k) - j + a - a + b - b + g - g
      BY <2>1, <2>2, <2>3, <2>4 DEF One
    <3> HIDE DEF a, b, g, h, j, k, u
    <3>2. Holders(d)' = u + k
      BY <3>1
    <3>3. QED BY <3>2 DEF u, k
  <2>6. CASE d = c
    BY <2>1, <2>4, <2>5, <2>6 DEF One
  <2>7. CASE d # c
    BY <2>1, <2>4, <2>5, <2>7 DEF One
  <2>8. QED BY <2>6, <2>7
<1>5. QED BY <1>4 DEF CountInv

\* read_cb leaves the pdu, and what it says of the writer, as they are.
ReadsOnly(c) ==
    /\ conn' \in [Conn -> Object] /\ \A d \in Conn \ {c} : conn'[d] = conn[d]
    /\ conn'[c].st = conn[c].st /\ conn'[c].fd = conn[c].fd /\ conn'[c].buf = conn[c].buf
    /\ conn'[c].wsz = conn[c].wsz /\ conn'[c].wdone = conn[c].wdone

\* A connection in which only rpdu_ has moved on.
LEMMA RdoneIs ==
  ASSUME NEW cs \in [Conn -> Object], NEW c \in Conn, NEW k \in 0 .. PduLen,
         NEW r, r = [cs EXCEPT ![c].rdone = k]
  PROVE  /\ r \in [Conn -> Object] /\ \A d \in Conn \ {c} : r[d] = cs[d]
         /\ r[c].st = cs[c].st /\ r[c].fd = cs[c].fd /\ r[c].buf = cs[c].buf /\ r[c].wsz = cs[c].wsz
         /\ r[c].wdone = cs[c].wdone /\ r[c].dead = cs[c].dead /\ r[c].refno = cs[c].refno
<1> DEFINE o == [cs[c] EXCEPT !.rdone = k]
<1>1. /\ o \in Object /\ o.st = cs[c].st /\ o.fd = cs[c].fd /\ o.buf = cs[c].buf /\ o.wsz = cs[c].wsz
      /\ o.wdone = cs[c].wdone /\ o.dead = cs[c].dead /\ o.refno = cs[c].refno
  <2>1. cs[c] \in Object
    OBVIOUS
  <2>2. QED BY <2>1 DEF Object
<1>2. r = [cs EXCEPT ![c] = o]
  OBVIOUS
<1> HIDE DEF o
<1>3. QED BY <1>1, <1>2

LEMMA LoopReadStep ==
  ASSUME TransportIInv, LoopRead
  PROVE  TransportIInv'
<1> DEFINE f == Min(loop.r)
           c == callbacks[f]
<1>1. /\ Typed /\ WorkersInv /\ LoopInv /\ SocketsInv /\ NoLostWakeup
  BY Parts
<1>2. /\ loop.pc = "read" /\ UNCHANGED <<conns, saved, chan, calls>>
      /\ \/ /\ ~Live(c) /\ Serve(loop.r \ {f}, loop.w, loop.eagain)
            /\ UNCHANGED <<conn, pollVars, wk, jobq, sock, aborted>>
         \/ /\ Live(c) /\ read_cb(c) /\ aborted' = (conn[c].rdone = 0 /\ ~Readable(f))
  BY DEF LoopRead
<1>3. f \in Fd /\ f \in loop.r /\ loop.eagain \in BOOLEAN /\ loop \in Round
  <2>1. loop.r # {} /\ loop.r \subseteq Nat /\ loop.r \subseteq Fd /\ loop.eagain \in BOOLEAN /\ loop \in Round
    BY <1>1, <1>2, TransportAssumption DEF LoopInv, Typed, Round
  <2>2. QED BY <2>1, MinIsMember
<1> HIDE DEF f
<1>4. CASE ~Live(c)
  <2>1. /\ Serve(loop.r \ {f}, loop.w, loop.eagain)
        /\ UNCHANGED <<conn, pollVars, wk, jobq, sock, aborted>>
    BY <1>2, <1>4
  <2>2. UNCHANGED <<conn, callbacks, rfds, wfds, pending, wk, ownerVars, sock>>
    BY <1>2, <2>1 DEF pollVars, ownerVars
  <2>3. pipe' \in BOOLEAN /\ aborted' \in BOOLEAN
    BY <1>1, <2>1 DEF Typed, pollVars
  <2>4. loop.r \ {f} \in SUBSET loop.r /\ loop.w \in SUBSET loop.w
    OBVIOUS
  <2>5. QED BY <1>2, <1>3, <2>1, <2>2, <2>3, <2>4, ServeKeeps
<1>5. CASE Live(c)
  <2>1. /\ c \in Conn /\ Open(c) /\ conn[c].fd = f /\ conn[c] \in Object /\ c # NULL /\ ~conn[c].dead
        /\ callbacks[f] = c
    BY <1>3, <1>5, RegisteredIs DEF Live
  <2>2. PduLen \in Nat /\ conn[c].refno \in Nat /\ PduLen \in 0 .. PduLen /\ 0 \in 0 .. PduLen
    BY <2>1, TransportAssumption DEF Object
  <2> HIDE DEF c
  <2>3. read_cb(c) /\ aborted' = (conn[c].rdone = 0 /\ ~Readable(f))
    BY <1>2, <1>5, Zenon
  <2>4. PICK x \in IF conn[c].rdone = PduLen
                   THEN {[ok |-> TRUE, rdone |-> PduLen, in |-> sock[conn[c].fd].in, eagain |-> loop.eagain]}
                   ELSE readpdu(c) :
          /\ \/ ReadFails(c, x)
             \/ /\ x.ok /\ x.rdone < PduLen
                /\ conn' = [conn EXCEPT ![c].rdone = x.rdone]
                /\ UNCHANGED <<pollVars, wk, jobq>>
             \/ /\ x.ok /\ x.rdone = PduLen
                /\ got_pdu(c, [conn EXCEPT ![c].rdone = PduLen])
                /\ UNCHANGED <<pollVars, wk>>
          /\ sock' = [sock EXCEPT ![conn[c].fd].in = x.in]
          /\ Serve(loop.r \ {conn[c].fd}, loop.w, x.eagain)
    BY <2>3, Zenon DEF read_cb
  <2>5. x \in Outcome /\ x.in <= sock[f].in
    <3>1. sock[f] \in Socket /\ sock[f].in \in 0 .. MaxUnits /\ MaxUnits \in Nat
      BY <1>1, <1>3, TransportAssumption DEF Typed, Socket
    <3>2. CASE conn[c].rdone = PduLen
      <4>1. x = [ok |-> TRUE, rdone |-> PduLen, in |-> sock[f].in, eagain |-> loop.eagain]
        BY <2>1, <2>4, <3>2
      <4>2. x.in = sock[f].in
        BY <4>1
      <4>3. x \in Outcome
        BY <1>3, <2>2, <3>1, <4>1 DEF Outcome
      <4>4. QED BY <3>1, <4>2, <4>3
    <3>3. CASE conn[c].rdone # PduLen
      <4>1. x \in readpdu(c)
        BY <2>4, <3>3
      <4>2. QED BY <1>1, <1>3, <2>1, <4>1, ReadpduIs
    <3>4. QED BY <3>2, <3>3
  <2>6. x.eagain \in BOOLEAN /\ x.rdone \in 0 .. PduLen /\ x.in \in 0 .. MaxUnits
    BY <2>5 DEF Outcome
  <2>7. /\ sock' \in [Fd -> Socket] /\ SocketsInv' /\ \A g \in Fd : sock'[g].open = sock[g].open
    <3> DEFINE s == [sock[f] EXCEPT !.in = x.in]
    <3>1. sock[f] \in Socket /\ sock[f].in \in Nat /\ sock[f].sent \in Nat /\ x.in \in Nat
      BY <1>1, <1>3, <2>6, TransportAssumption DEF Typed, Socket
    <3>2. s \in Socket /\ s.open = sock[f].open /\ s.sent = sock[f].sent /\ s.in = x.in
      BY <2>6, <3>1 DEF Socket
    <3>3. sock' = [sock EXCEPT ![f] = s]
      BY <2>1, <2>4
    <3> HIDE DEF s
    <3>4. sock' \in [Fd -> Socket] /\ sock'[f] = s /\ \A g \in Fd \ {f} : sock'[g] = sock[g]
      BY <1>1, <1>3, <3>2, <3>3 DEF Typed
    <3>5. s.in <= s.sent
      <4>1. sock[f].in <= sock[f].sent
        BY <1>1, <1>3 DEF SocketsInv
      <4>2. QED BY <2>5, <3>1, <3>2, <4>1
    <3>6. SocketsInv'
      BY <1>1, <3>4, <3>5 DEF SocketsInv
    <3>7. QED BY <3>2, <3>4, <3>6
  <2>8. Serve(loop.r \ {f}, loop.w, x.eagain)
    BY <2>1, <2>4
  <2>9. loop' \in Round /\ aborted' \in BOOLEAN
    <3>1. loop.r \ {f} \in SUBSET loop.r /\ loop.w \in SUBSET loop.w
      OBVIOUS
    <3>2. QED BY <1>3, <2>3, <2>6, <2>8, <3>1, ServeIs
  <2>10. ASSUME ReadsOnly(c), Unwatches(c, f), Signals(c), conn'[c].dead => callbacks'[f] = NULL,
                \/ wk' = wk /\ pollVars' = pollVars /\ ~conn'[c].dead
                \/ conn'[c].dead /\ \A v \in Worker : ~(wk'[v].c = c /\ wk'[v].pc = "complete"),
                callbacks' \in [Fd -> Conn \cup {NULL}], pipe' \in BOOLEAN, wk' \in [Worker -> Place],
                jobq' \in Seq(Conn), Len(jobq') <= MaxJobs, CountInv'
         PROVE  TransportIInv'
    <3>1. rfds' \subseteq Fd /\ wfds' \subseteq Fd /\ pending' \in BOOLEAN
      BY <1>1, <2>10 DEF Unwatches, Typed
    <3>2. Typed'
      BY <1>1, <1>2, <2>7, <2>9, <2>10, <3>1 DEF Typed, ReadsOnly
    <3>3. \A v \in Worker : wk'[v].c = c /\ wk'[v].pc = "complete" =>
            ~conn'[c].dead /\ f \in wfds' /\ callbacks'[f] = c /\ conn'[c].wsz = PduLen
      <4>1. ASSUME wk' = wk, pollVars' = pollVars, ~conn'[c].dead, NEW v \in Worker, wk[v].c = c, wk[v].pc = "complete"
            PROVE  f \in wfds' /\ callbacks'[f] = c /\ conn'[c].wsz = PduLen
        <5>1. f \in wfds /\ conn[c].wsz = PduLen
          BY <1>1, <2>1, <4>1 DEF WorkersInv, NoLostWakeup
        <5>2. wfds' = wfds /\ callbacks' = callbacks
          BY <4>1 DEF pollVars
        <5>3. QED BY <2>1, <2>10, <5>1, <5>2 DEF ReadsOnly
      <4>2. QED BY <2>10, <4>1
    <3>4. \A v \in Worker : wk'[v].c = c /\ wk'[v].pc = "completeWoken" => conn'[c].dead \/ conn'[c].wdone = PduLen
      <4>1. ASSUME wk' = wk, NEW v \in Worker, wk[v].c = c, wk[v].pc = "completeWoken"
            PROVE  conn'[c].wdone = PduLen
        BY <1>1, <2>1, <2>10, <4>1 DEF WorkersInv, ReadsOnly
      <4>2. QED BY <2>10, <4>1
    <3>5. Serves(c, f)
      BY <1>2, <2>7, <2>10, <3>3, <3>4 DEF Serves, ReadsOnly
    <3> DEFINE r == loop.r \ {f}
               e == x.eagain
    <3>6. r \in SUBSET (loop.r \ {f}) /\ loop.w \in SUBSET loop.w /\ e \in BOOLEAN /\ Serve(r, loop.w, e)
      BY <2>6, <2>8
    <3> HIDE DEF r, e
    <3>7. SocketsInv' /\ CountInv' /\ callbacks[f] = c /\ ~conn[c].dead /\ c \in Conn /\ loop.pc = "read"
      BY <1>2, <2>1, <2>7, <2>10
    <3>8. QED BY <1>3, <3>2, <3>5, <3>6, <3>7, CallbackKeeps
  <2>11. Len(jobq) <= MaxJobs /\ jobq \in Seq(Conn)
    BY <1>1 DEF Typed
  <2>12. CASE ReadFails(c, x)
    <3>1. /\ del_callback(f, {"r", "w"}) /\ SignalComplete(c) /\ jobq' = jobq
          /\ conn' = [conn EXCEPT ![c].dead = TRUE, ![c].rdone = x.rdone]
      BY <2>1, <2>12 DEF ReadFails
    <3> DEFINE o == [conn[c] EXCEPT !.dead = TRUE, !.rdone = x.rdone]
    <3>2. /\ o \in Object /\ o.st = conn[c].st /\ o.fd = conn[c].fd /\ o.buf = conn[c].buf
          /\ o.wsz = conn[c].wsz /\ o.wdone = conn[c].wdone /\ o.dead /\ o.refno = conn[c].refno
      BY <2>1, <2>6 DEF Object
    <3>3. conn' = [conn EXCEPT ![c] = o]
      BY <3>1
    <3> HIDE DEF o
    <3>4. conn' \in [Conn -> Object] /\ conn'[c] = o /\ \A d \in Conn \ {c} : conn'[d] = conn[d]
      BY <1>1, <2>1, <3>2, <3>3 DEF Typed
    <3>5. ReadsOnly(c) /\ conn'[c].dead /\ \A d \in Conn : conn'[d].refno = conn[d].refno
      BY <3>2, <3>4 DEF ReadsOnly
    <3>6. /\ Unwatches(c, f) /\ callbacks' \in [Fd -> Conn \cup {NULL}] /\ pipe' \in BOOLEAN
          /\ callbacks'[f] = NULL
      BY <1>1, <1>3, <2>1, <3>1, DelCallbackIs
    <3>7. /\ Signals(c) /\ wk' \in [Worker -> Place]
          /\ \A v \in Worker : wk'[v].c = wk[v].c /\ ~(wk'[v].c = c /\ wk'[v].pc = "complete")
      BY <1>1, <2>1, <3>1, SignalIs
    <3>8. CountInv'
      BY <1>2, <3>1, <3>5, <3>7, CountKept DEF ownerVars
    <3>9. QED BY <2>10, <2>11, <3>1, <3>5, <3>6, <3>7, <3>8
  \* The other ways leave PollMgr and the threads alone.
  <2>13. ASSUME UNCHANGED <<pollVars, wk>>, ReadsOnly(c), ~conn'[c].dead, jobq' \in Seq(Conn),
                Len(jobq') <= MaxJobs, CountInv'
         PROVE  TransportIInv'
    <3>1. Unwatches(c, f) /\ Signals(c) /\ wk' = wk /\ pollVars' = pollVars
      BY <1>1, <1>3, <2>1, <2>13, NothingSignalled
    <3>2. callbacks' \in [Fd -> Conn \cup {NULL}] /\ pipe' \in BOOLEAN /\ wk' \in [Worker -> Place]
      BY <1>1, <2>13 DEF Typed, pollVars
    <3>3. QED BY <2>10, <2>13, <3>1, <3>2
  <2>14. ASSUME UNCHANGED <<pollVars, wk, jobq>>, NEW k \in 0 .. PduLen,
                conn' = [conn EXCEPT ![c].rdone = k]
         PROVE  TransportIInv'
    <3>1. ReadsOnly(c) /\ ~conn'[c].dead /\ \A d \in Conn : conn'[d].refno = conn[d].refno
      <4> DEFINE ps == [conn EXCEPT ![c].rdone = k]
      <4>1. ps = [conn EXCEPT ![c].rdone = k] /\ conn \in [Conn -> Object] /\ conn' = ps
        BY <1>1, <2>14 DEF Typed
      <4> HIDE DEF ps
      <4>2. /\ ps \in [Conn -> Object] /\ \A d \in Conn \ {c} : ps[d] = conn[d]
            /\ ps[c].st = conn[c].st /\ ps[c].fd = conn[c].fd /\ ps[c].buf = conn[c].buf
            /\ ps[c].wsz = conn[c].wsz /\ ps[c].wdone = conn[c].wdone /\ ps[c].dead = conn[c].dead
            /\ ps[c].refno = conn[c].refno
        BY <2>1, <4>1, RdoneIs
      <4>3. QED BY <2>1, <4>1, <4>2 DEF ReadsOnly
    <3>2. CountInv'
      BY <1>2, <2>14, <3>1, CountKept DEF ownerVars
    <3>3. QED BY <2>11, <2>13, <2>14, <3>1, <3>2
  <2>15. ASSUME UNCHANGED <<pollVars, wk>>, got_pdu(c, [conn EXCEPT ![c].rdone = PduLen])
         PROVE  TransportIInv'
    <3> DEFINE ps == [conn EXCEPT ![c].rdone = PduLen]
               cs == [ps EXCEPT ![c].rdone = 0]
    <3>1. /\ conn \in [Conn -> Object] /\ ps = [conn EXCEPT ![c].rdone = PduLen]
          /\ cs = [ps EXCEPT ![c].rdone = 0]
      BY <1>1 DEF Typed
    <3>2. \/ conn' = cs /\ jobq' = jobq
          \/ Len(jobq) < MaxJobs /\ conn' = incref(cs, c) /\ jobq' = Append(jobq, c)
          \/ conn' = ps /\ jobq' = jobq
      BY <2>15 DEF got_pdu
    <3> HIDE DEF ps, cs
    <3>3. /\ ps \in [Conn -> Object] /\ \A d \in Conn \ {c} : ps[d] = conn[d]
          /\ ps[c].st = conn[c].st /\ ps[c].fd = conn[c].fd /\ ps[c].buf = conn[c].buf /\ ps[c].wsz = conn[c].wsz
          /\ ps[c].wdone = conn[c].wdone /\ ps[c].dead = conn[c].dead /\ ps[c].refno = conn[c].refno
      BY <2>1, <2>2, <3>1, RdoneIs
    <3>4. /\ cs \in [Conn -> Object] /\ \A d \in Conn \ {c} : cs[d] = ps[d]
          /\ cs[c].st = ps[c].st /\ cs[c].fd = ps[c].fd /\ cs[c].buf = ps[c].buf /\ cs[c].wsz = ps[c].wsz
          /\ cs[c].wdone = ps[c].wdone /\ cs[c].dead = ps[c].dead /\ cs[c].refno = ps[c].refno
      <4>1. ps \in [Conn -> Object] /\ cs = [ps EXCEPT ![c].rdone = 0] /\ c \in Conn /\ 0 \in 0 .. PduLen
        BY <2>1, <2>2, <3>1, <3>3
      <4>2. QED BY <4>1, RdoneIs
    <3>5. CASE conn' \in {cs, ps} /\ jobq' = jobq
      <4>1. ReadsOnly(c) /\ ~conn'[c].dead /\ \A d \in Conn : conn'[d].refno = conn[d].refno
        <5>1. CASE conn' = ps
          BY <2>1, <3>3, <5>1 DEF ReadsOnly
        <5>2. CASE conn' = cs
          <6>1. /\ cs \in [Conn -> Object] /\ \A d \in Conn \ {c} : cs[d] = conn[d]
                /\ cs[c].st = conn[c].st /\ cs[c].fd = conn[c].fd /\ cs[c].buf = conn[c].buf
                /\ cs[c].wsz = conn[c].wsz /\ cs[c].wdone = conn[c].wdone /\ cs[c].dead = conn[c].dead
                /\ cs[c].refno = conn[c].refno
            BY <3>3, <3>4
          <6>2. QED BY <2>1, <5>2, <6>1 DEF ReadsOnly
        <5>3. QED BY <3>5, <5>1, <5>2
      <4>2. CountInv'
        BY <1>2, <2>15, <3>5, <4>1, CountKept DEF ownerVars
      <4>3. QED BY <2>11, <2>13, <2>15, <3>5, <4>1, <4>2
    <3>6. CASE Len(jobq) < MaxJobs /\ conn' = incref(cs, c) /\ jobq' = Append(jobq, c)
      <4>1. /\ conn' \in [Conn -> Object] /\ \A d \in Conn \ {c} : conn'[d] = cs[d]
            /\ conn'[c].refno = cs[c].refno + 1
            /\ conn'[c].st = cs[c].st /\ conn'[c].fd = cs[c].fd /\ conn'[c].dead = cs[c].dead
            /\ conn'[c].buf = cs[c].buf /\ conn'[c].wsz = cs[c].wsz /\ conn'[c].wdone = cs[c].wdone
        <5>1. cs \in [Conn -> Object] /\ c \in Conn /\ conn' = incref(cs, c)
          BY <2>1, <3>4, <3>6
        <5>2. QED BY <5>1, IncrefIs
      <4>2. /\ ReadsOnly(c) /\ ~conn'[c].dead /\ conn'[c].refno = conn[c].refno + 1
            /\ \A d \in Conn \ {c} : conn'[d].refno = conn[d].refno
        BY <2>1, <3>3, <3>4, <4>1 DEF ReadsOnly
      <4>3. wk' = wk /\ UNCHANGED <<conns, saved, chan>>
        BY <1>2, <2>15
      <4>4. CountInv'
        BY <2>1, <3>6, <4>2, <4>3, JobKeepsCount
      <4>5. jobq' \in Seq(Conn) /\ Len(jobq') <= MaxJobs
        BY <2>1, <2>11, <3>6, TransportAssumption
      <4>6. QED BY <2>13, <2>15, <4>2, <4>4, <4>5
    <3>7. QED BY <3>2, <3>5, <3>6
  <2>16. QED BY <2>4, <2>6, <2>12, <2>14, <2>15
<1>6. QED BY <1>4, <1>5

\* The sender w takes the buffer of the live connection c, on the descriptor
\* f, to write on (q is complete) or to take it out, dead (q is remove).
Starts(w, c, f, o, q) ==
    /\ wk[w].pc \in {"send", "turnWoken"} /\ wk[w].c = c
    /\ ~conn[c].dead /\ ~conn[c].buf /\ conn[c].fd = f
    /\ conn' = [conn EXCEPT ![c] = o]
    /\ o.st = conn[c].st /\ o.fd = conn[c].fd /\ o.refno = conn[c].refno /\ o.buf
    /\ wk' = [wk EXCEPT ![w].pc = q]
    /\ o.dead <=> q = "remove"
    /\ q = "complete" => o.wsz = PduLen /\ f \in wfds' /\ callbacks'[f] = c
    /\ rfds' = rfds /\ wfds \subseteq wfds' /\ wfds' \subseteq wfds \cup {f}
    /\ callbacks' \in [Fd -> Conn \cup {NULL}] /\ \A g \in Fd \ {f} : callbacks'[g] = callbacks[g]
    /\ callbacks'[f] \in {callbacks[f], c}
    /\ f \in wfds' => callbacks'[f] # NULL
    /\ pipe' \in BOOLEAN /\ (pipe => pipe') /\ pending' = pending /\ aborted' \in BOOLEAN
    /\ UNCHANGED <<loop, ownerVars, sock>>

LEMMA WriterStarts ==
  ASSUME TransportIInv, NEW w \in Worker, NEW c \in Conn, NEW f, NEW o \in Object,
         NEW q \in {"remove", "complete"}, Starts(w, c, f, o, q)
  PROVE  TransportIInv'
<1> USE DEF Starts
<1>1. /\ Typed /\ ObjectsInv /\ PollInv /\ WorkersInv /\ LoopInv /\ SocketsInv /\ NoLostWakeup
      /\ Exclusive /\ wk[w] \in Place
  BY Parts, IdleHasNone, ExclusiveIs
<1>2. Open(c) /\ c # NULL /\ f \in Fd /\ callbacks[f] \in {NULL, c}
  <2>1. Open(c)
    BY IdleHasNone
  <2>2. QED BY <2>1, TransportAssumption, OwnDescriptor
<1>3. /\ wk' \in [Worker -> Place] /\ wk'[w].pc = q /\ wk'[w].c = c /\ wk'[w].op = wk[w].op
      /\ \A v \in Worker \ {w} : wk'[v] = wk[v]
  <2>1. [wk[w] EXCEPT !.pc = q] \in Place
    BY <1>1, Places DEF Place
  <2>2. wk' = [wk EXCEPT ![w] = [wk[w] EXCEPT !.pc = q]] /\ wk \in [Worker -> Place]
    BY <1>1 DEF Typed
  <2>3. QED BY <1>1, <2>1, <2>2 DEF Place
<1>4. conn' \in [Conn -> Object] /\ conn'[c] = o /\ \A d \in Conn \ {c} : conn'[d] = conn[d]
  BY <1>1 DEF Typed
<1>5. rfds' \subseteq Fd /\ wfds' \subseteq Fd
  BY <1>1, <1>2 DEF Typed
<1>6. Typed'
  BY <1>1, <1>3, <1>4, <1>5 DEF Typed, ownerVars
<1>7. \A d \in Conn : conn'[d].st = conn[d].st /\ conn'[d].fd = conn[d].fd /\ conn'[d].refno = conn[d].refno
  BY <1>4
<1>8. ObjectsInv'
  <2>1. \A d \in Conn : ~Open(d) => conn'[d] = conn[d]
    BY <1>2, <1>4
  <2>2. QED BY <1>7, <2>1, ObjectsKept
<1>9. CountInv'
  <2>1. \A v \in Worker : wk'[v].c = wk[v].c
    BY <1>3
  <2>2. QED BY <1>7, <2>1, CountKept
<1>10. wk[w].op # "close"
  BY <1>1 DEF WorkersInv, Removes
\* Nobody else writes to c or takes it out.
<1>11. ASSUME NEW v \in Worker \ {w}
       PROVE  /\ Writes(v) \/ Removes(v) => wk[v].c # c
              /\ wk[v].pc # "idle" /\ wk[v].c # c => wk[v].c \in Conn /\ conn'[wk[v].c] = conn[wk[v].c]
  <2>1. Writes(v) => wk[v].c # c
    BY <1>1 DEF Exclusive
  <2>2. Removes(v) => wk[v].c # c
    BY <1>1 DEF WorkersInv
  <2>3. QED BY <1>4, <2>1, <2>2, IdleHasNone
<1>12. Writes(w)' /\ ~Writes(w) /\ ~Removes(w) /\ (Removes(w)' <=> q = "remove")
  BY <1>3, <1>10 DEF Writes, Removes
<1>13. \A v \in Worker \ {w} : (Writes(v)' <=> Writes(v)) /\ (Removes(v)' <=> Removes(v))
  BY <1>3 DEF Writes, Removes
<1>14. OneWriter'
  <2>1. ASSUME NEW d \in Conn
        PROVE  /\ \A v, u \in Worker : Writes(v)' /\ Writes(u)' /\ wk'[v].c = d /\ wk'[u].c = d => v = u
               /\ conn'[d].buf <=> \E v \in Worker : Writes(v)' /\ wk'[v].c = d
    <3>1. CASE d = c
      <4>1. \A v \in Worker \ {w} : ~(Writes(v)' /\ wk'[v].c = d)
        BY <1>3, <1>11, <1>13, <3>1
      <4>2. QED BY <1>3, <1>4, <1>12, <3>1, <4>1
    <3>2. CASE d # c
      <4>1. \A v \in Worker : Writes(v)' /\ wk'[v].c = d <=> Writes(v) /\ wk[v].c = d
        BY <1>3, <1>12, <1>13, <3>2
      <4>2. conn'[d] = conn[d]
        BY <1>4, <3>2
      <4>3. QED BY <1>1, <4>1, <4>2 DEF Exclusive
    <3>3. QED BY <3>1, <3>2
  <2>2. QED BY <2>1, ExclusiveNext DEF Exclusive
<1>15. PollInv'
  <2>1. ASSUME NEW g \in Fd, callbacks'[g] # NULL
        PROVE  /\ Open(callbacks[g])' /\ conn'[callbacks'[g]].fd = g
               /\ conn'[callbacks'[g]].dead => \E v \in Worker : Removes(v)' /\ wk'[v].c = callbacks'[g]
    <3>1. CASE callbacks'[g] = c
      <4>1. g = f
        BY <1>2, <2>1, <3>1, OwnDescriptor
      <4>2. conn'[c].dead => Removes(w)' /\ wk'[w].c = c
        BY <1>3, <1>4, <1>12
      <4>3. QED BY <1>2, <1>4, <3>1, <4>1, <4>2 DEF Open
    <3>2. CASE callbacks'[g] # c
      <4>1. callbacks'[g] = callbacks[g] /\ callbacks[g] \in Conn /\ callbacks[g] # c
        BY <1>1, <1>2, <2>1, <3>2 DEF Typed
      <4>2. conn'[callbacks[g]] = conn[callbacks[g]]
        BY <1>4, <4>1
      <4>3. Open(callbacks[g]) /\ conn[callbacks[g]].fd = g
        BY <1>1, <2>1, <4>1 DEF PollInv
      <4>4. ASSUME conn[callbacks[g]].dead PROVE \E v \in Worker : Removes(v)' /\ wk'[v].c = callbacks[g]
        <5>1. PICK v \in Worker : Removes(v) /\ wk[v].c = callbacks[g]
          BY <1>1, <2>1, <4>1, <4>4 DEF PollInv
        <5>2. QED BY <1>3, <1>12, <1>13, <5>1
      <4>5. QED BY <4>1, <4>2, <4>3, <4>4 DEF Open
    <3>3. QED BY <3>1, <3>2
  <2>2. ASSUME NEW g \in rfds' \cup wfds' PROVE callbacks'[g] # NULL
    <3>1. CASE g = f
      <4>1. CASE g \in wfds'
        BY <3>1, <4>1
      <4>2. CASE g \in rfds
        BY <1>1, <1>2, <3>1, <4>2 DEF PollInv
      <4>3. QED BY <2>2, <4>1, <4>2
    <3>2. CASE g # f
      BY <1>1, <1>5, <2>2, <3>2 DEF PollInv
    <3>3. QED BY <3>1, <3>2
  <2>3. QED BY <2>1, <2>2 DEF PollInv
<1>16. loop' = loop /\ saved' = saved
  BY DEF ownerVars
<1>17. WorkersInv'
  <2>1. ASSUME NEW v \in Worker
        PROVE  /\ wk'[v].pc = "idle" <=> wk'[v].c = NULL
               /\ wk'[v].pc = "latest" => saved # NULL
               /\ wk'[v].op = "close" => Removes(v)' \/ wk'[v].pc = "decref"
               /\ wk'[v].pc = "removing" /\ loop.pc = "copy" => pipe'
    <3>1. CASE v = w
      BY <1>2, <1>3, <1>10, <3>1
    <3>2. CASE v # w
      <4>1. wk'[v] = wk[v] /\ (Removes(v)' <=> Removes(v))
        BY <1>3, <1>13, <3>2
      <4>2. QED BY <1>1, <4>1 DEF WorkersInv
    <3>3. QED BY <3>1, <3>2
  <2>2. ASSUME NEW v \in Worker, Removes(v)'
        PROVE  /\ conn'[wk'[v].c].dead
               /\ wk'[v].pc \in {"removing", "removed"} => conn'[wk'[v].c].fd \notin rfds' \cup wfds'
               /\ wk'[v].pc = "removed" /\ loop.pc \in {"select", "read"} => conn'[wk'[v].c].fd \notin loop.r
    <3>1. CASE v = w
      BY <1>3, <1>4, <1>12, <2>2, <3>1
    <3>2. CASE v # w
      <4>1. wk'[v] = wk[v] /\ Removes(v) /\ wk[v].pc # "idle" /\ wk[v].c # c
        BY <1>3, <1>11, <1>13, <2>2, <3>2 DEF Removes
      <4>2. conn'[wk[v].c] = conn[wk[v].c] /\ conn[wk[v].c].fd # f
        BY <1>2, <1>11, <3>2, <4>1, Apart
      <4>3. /\ conn[wk[v].c].dead
            /\ wk[v].pc \in {"removing", "removed"} => conn[wk[v].c].fd \notin rfds \cup wfds
            /\ wk[v].pc = "removed" /\ loop.pc \in {"select", "read"} => conn[wk[v].c].fd \notin loop.r
        BY <1>1, <4>1 DEF WorkersInv
      <4>4. QED BY <4>1, <4>2, <4>3
    <3>3. QED BY <3>1, <3>2
  <2>3. ASSUME NEW v \in Worker, wk'[v].pc \in {"complete", "completeWoken"}
        PROVE  /\ wk'[v].pc = "complete" => conn'[wk'[v].c].wsz = PduLen
               /\ wk'[v].pc = "completeWoken" => conn'[wk'[v].c].dead \/ conn'[wk'[v].c].wdone = PduLen
    <3>1. CASE v = w
      BY <1>3, <1>4, <2>3, <3>1
    <3>2. CASE v # w
      <4>1. wk'[v] = wk[v] /\ Writes(v)
        BY <1>1, <1>3, <2>3, <3>2 DEF WorkersInv, Writes, Removes
      <4>2. conn'[wk[v].c] = conn[wk[v].c]
        BY <1>11, <2>3, <3>2, <4>1
      <4>3. /\ wk[v].pc = "complete" => conn[wk[v].c].wsz = PduLen
            /\ wk[v].pc = "completeWoken" => conn[wk[v].c].dead \/ conn[wk[v].c].wdone = PduLen
        BY <1>1 DEF WorkersInv
      <4>4. /\ wk[v].pc = "complete" => conn'[wk[v].c].wsz = PduLen
            /\ wk[v].pc = "completeWoken" => conn'[wk[v].c].dead \/ conn'[wk[v].c].wdone = PduLen
        BY <4>2, <4>3, Zenon
      <4>5. QED BY <4>1, <4>4, Zenon
    <3>3. QED BY <3>1, <3>2
  <2>4. QED BY <1>16, <2>1, <2>2, <2>3 DEF WorkersInv, Removes
<1>18. LoopInv'
  <2>1. ASSUME loop.pc \in {"select", "read"}, NEW g \in loop.r PROVE callbacks'[g] = callbacks[g]
    <3>1. g \in Fd /\ callbacks[g] # NULL
      BY <1>1, <2>1 DEF LoopInv, Typed, Round
    <3>2. CASE g = f
      BY <1>2, <3>1, <3>2
    <3>3. CASE g # f
      BY <3>1, <3>3
    <3>4. QED BY <3>2, <3>3
  <2>2. QED BY <1>1, <1>16, <2>1 DEF LoopInv
<1>19. SocketsInv'
  BY <1>1 DEF SocketsInv
<1>20. NoLostWakeup'
  <2>1. ASSUME NEW v \in Worker, wk'[v].pc = "complete"
        PROVE  ~conn'[wk'[v].c].dead /\ conn'[wk'[v].c].fd \in wfds' /\ callbacks'[conn'[wk'[v].c].fd] = wk'[v].c
    <3>1. CASE v = w
      BY <1>3, <1>4, <2>1, <3>1
    <3>2. CASE v # w
      <4>1. wk'[v] = wk[v] /\ Writes(v)
        BY <1>1, <1>3, <2>1, <3>2 DEF WorkersInv, Writes, Removes
      <4>2. wk[v].c # c /\ wk[v].pc # "idle" /\ conn'[wk[v].c] = conn[wk[v].c]
        BY <1>11, <2>1, <3>2, <4>1
      <4>3. conn[wk[v].c].fd \in Fd /\ conn[wk[v].c].fd # f
        BY <1>2, <4>2, Apart
      <4>4. ~conn[wk[v].c].dead /\ conn[wk[v].c].fd \in wfds /\ callbacks[conn[wk[v].c].fd] = wk[v].c
        <5>1. NoLostWakeup /\ wk[v].pc = "complete"
          BY <1>1, <2>1, <4>1
        <5>2. QED BY <5>1, Zenon DEF NoLostWakeup
      <4>5. QED BY <4>1, <4>2, <4>3, <4>4
    <3>3. QED BY <3>1, <3>2
  <2>2. ASSUME NEW v \in Worker, wk'[v].pc = "turn" PROVE conn'[wk'[v].c].buf
    <3>1. v # w /\ wk'[v] = wk[v] /\ wk[v].pc = "turn"
      BY <1>3, <2>2
    <3>2. conn[wk[v].c].buf
      BY <1>1, <3>1 DEF NoLostWakeup
    <3>3. conn'[wk[v].c] = conn[wk[v].c]
      BY <1>11, <3>1, <3>2
    <3>4. QED BY <3>1, <3>2, <3>3
  <2>3. ASSUME NEW v \in Worker, wk'[v].pc = "removing" PROVE pending' /\ (loop.pc = "select" => pipe')
    <3>1. wk[v].pc = "removing"
      BY <1>3, <2>3
    <3>2. QED BY <1>1, <3>1 DEF NoLostWakeup
  <2>4. QED BY <1>16, <2>1, <2>2, <2>3 DEF NoLostWakeup
<1>21. QED BY <1>6, <1>8, <1>9, <1>14, <1>15, <1>17, <1>18, <1>19, <1>20, PartsNext

LEMMA SendWritesStep ==
  ASSUME TransportIInv, NEW w \in Worker, SendWrites(w)
  PROVE  TransportIInv'
<1> DEFINE c == wk[w].c
           f == conn[c].fd
<1>1. Typed /\ WorkersInv /\ wk[w].pc \in {"send", "turnWoken"} /\ ~conn[c].dead /\ ~conn[c].buf
      /\ UNCHANGED <<loop, ownerVars, sock>>
  BY Parts DEF SendWrites, CanWrite
<1>2. c \in Conn /\ Open(c) /\ f \in Fd /\ conn[c] \in Object /\ callbacks[f] \in {NULL, c} /\ c # NULL
  <2>1. c \in Conn /\ Open(c)
    BY <1>1, IdleHasNone
  <2> HIDE DEF c
  <2>2. f \in Fd /\ callbacks[f] \in {NULL, c}
    BY <2>1, OwnDescriptor
  <2>3. QED BY <1>1, <2>1, <2>2, TransportAssumption DEF Typed
<1>3. PICK n \in writepdu(f, 0) :
        \/ /\ n = -1
           /\ conn' = [conn EXCEPT ![c].dead = TRUE, ![c].buf = TRUE, ![c].wsz = 0, ![c].wdone = n]
           /\ wk' = [wk EXCEPT ![w].pc = "remove"]
           /\ UNCHANGED <<pollVars, aborted>>
        \/ /\ n = PduLen
           /\ FinishSend(w, conn)
           /\ UNCHANGED <<pollVars, aborted>>
        \/ /\ n \in 0 .. PduLen - 1
           /\ conn' = [conn EXCEPT ![c].buf = TRUE, ![c].wsz = PduLen, ![c].wdone = n]
           /\ wk' = [wk EXCEPT ![w].pc = "complete"]
           /\ add_callback(f, {"w"}, c)
  BY Zenon DEF SendWrites
<1>4. n \in -1 .. PduLen /\ PduLen \in Nat
  <2>1. PduLen \in Nat
    BY TransportAssumption
  <2>2. QED BY <1>3, <2>1 DEF writepdu
<1>5. wk[w].c = c /\ conn[c].fd = f
  OBVIOUS
<1>6. CASE n = PduLen /\ FinishSend(w, conn) /\ UNCHANGED <<pollVars, aborted>>
  <2>1. wk[w].op # "close" /\ wk[w].pc # "removed"
    BY <1>1 DEF WorkersInv, Removes
  <2>2. callbacks' = callbacks /\ UNCHANGED <<rfds, wfds, pending, pipe, loop, ownerVars, sock, aborted>>
    BY <1>1, <1>6 DEF pollVars
  <2>3. QED BY <1>1, <1>6, <2>1, <2>2, FinishKeeps
<1>7. CASE /\ n = -1
           /\ conn' = [conn EXCEPT ![c].dead = TRUE, ![c].buf = TRUE, ![c].wsz = 0, ![c].wdone = n]
           /\ wk' = [wk EXCEPT ![w].pc = "remove"]
           /\ UNCHANGED <<pollVars, aborted>>
  <2> DEFINE o == [conn[c] EXCEPT !.dead = TRUE, !.buf = TRUE, !.wsz = 0, !.wdone = n]
             q == "remove"
  <2>1. conn' = [conn EXCEPT ![c] = o] /\ wk' = [wk EXCEPT ![w].pc = q]
    BY <1>7
  <2> HIDE DEF c, f
  <2>2. o \in Object /\ o.st = conn[c].st /\ o.fd = conn[c].fd /\ o.refno = conn[c].refno /\ o.buf /\ o.dead
    BY <1>2, <1>4 DEF Object
  <2>3. q \in {"remove", "complete"} /\ q # "complete" /\ (o.dead <=> q = "remove")
    BY <2>2
  <2>4. /\ rfds' = rfds /\ wfds' = wfds /\ callbacks' = callbacks /\ pipe' = pipe /\ pending' = pending
        /\ aborted' = aborted
    BY <1>7 DEF pollVars
  <2>5. f \in wfds' => callbacks'[f] # NULL
    BY <2>4, Parts DEF PollInv
  <2>6. callbacks' \in [Fd -> Conn \cup {NULL}] /\ pipe' \in BOOLEAN /\ aborted' \in BOOLEAN
    BY <1>1, <2>4 DEF Typed
  <2> HIDE DEF o, q
  <2>7. Starts(w, c, f, o, q)
    BY <1>1, <1>2, <1>5, <2>1, <2>2, <2>3, <2>4, <2>5, <2>6, ZenonT(30) DEF Starts
  <2>8. c \in Conn /\ o \in Object /\ q \in {"remove", "complete"} /\ Starts(w, c, f, o, q)
    BY <1>2, <2>2, <2>3, <2>7, ZenonT(30)
  <2>9. QED BY <2>8, WriterStarts, ZenonT(30)
<1>8. CASE /\ n \in 0 .. PduLen - 1
           /\ conn' = [conn EXCEPT ![c].buf = TRUE, ![c].wsz = PduLen, ![c].wdone = n]
           /\ wk' = [wk EXCEPT ![w].pc = "complete"]
           /\ add_callback(f, {"w"}, c)
  <2> DEFINE o == [conn[c] EXCEPT !.buf = TRUE, !.wsz = PduLen, !.wdone = n]
             q == "complete"
  <2>1. conn' = [conn EXCEPT ![c] = o] /\ wk' = [wk EXCEPT ![w].pc = q] /\ add_callback(f, {"w"}, c)
    BY <1>8
  <2> HIDE DEF c, f
  <2>2. o \in Object /\ o.st = conn[c].st /\ o.fd = conn[c].fd /\ o.refno = conn[c].refno /\ o.buf
        /\ ~o.dead /\ o.wsz = PduLen
    BY <1>1, <1>2, <1>4 DEF Object
  <2>3. q \in {"remove", "complete"} /\ (o.dead <=> q = "remove")
    BY <2>2
  <2>4. /\ rfds' = rfds /\ wfds' = wfds \cup {f} /\ pipe' = TRUE /\ pending' = pending
        /\ callbacks' = [callbacks EXCEPT ![f] = c]
        /\ aborted' = (aborted \/ callbacks[f] \notin {NULL, c})
    BY <2>1 DEF add_callback, watch_fd
  <2>5. /\ callbacks' \in [Fd -> Conn \cup {NULL}] /\ callbacks'[f] = c
        /\ \A g \in Fd \ {f} : callbacks'[g] = callbacks[g]
    BY <1>1, <1>2, <2>4 DEF Typed
  <2>6. pipe' \in BOOLEAN /\ aborted' \in BOOLEAN /\ (pipe => pipe')
    BY <1>1, <2>4 DEF Typed
  <2>7. /\ rfds' = rfds /\ wfds \subseteq wfds' /\ wfds' \subseteq wfds \cup {f} /\ pending' = pending
        /\ callbacks'[f] \in {callbacks[f], c} /\ (f \in wfds' => callbacks'[f] # NULL)
        /\ (q = "complete" => o.wsz = PduLen /\ f \in wfds' /\ callbacks'[f] = c)
    BY <1>2, <2>2, <2>4, <2>5
  <2> HIDE DEF o, q
  <2>8. Starts(w, c, f, o, q)
    <3>1. /\ wk[w].pc \in {"send", "turnWoken"} /\ wk[w].c = c
          /\ ~conn[c].dead /\ ~conn[c].buf /\ conn[c].fd = f
          /\ conn' = [conn EXCEPT ![c] = o]
          /\ wk' = [wk EXCEPT ![w].pc = q]
          /\ UNCHANGED <<loop, ownerVars, sock>>
      BY <1>1, <1>5, <2>1, Zenon
    <3>2. QED BY <2>2, <2>3, <2>5, <2>6, <2>7, <3>1, ZenonT(30) DEF Starts
  <2>9. c \in Conn /\ o \in Object /\ q \in {"remove", "complete"} /\ Starts(w, c, f, o, q)
    BY <1>2, <2>2, <2>3, <2>8, Zenon
  <2>10. QED BY <2>9, WriterStarts, ZenonT(30)
<1>9. QED BY <1>3, <1>6, <1>7, <1>8, ZenonT(30)

\* The channel's reference goes over to the thread that closes it.
LEMMA ChannelToCloser ==
  ASSUME TransportIInv, NEW c \in Conn, chan = c, chan' = NULL, UNCHANGED <<conns, saved>>, NEW d \in Conn
  PROVE  0 = One(c = d) + OwnersGain(d)
<1>1. One(NULL = d) = 0
  BY TransportAssumption DEF One
<1>2. One(d \in conns) \in {0, 1} /\ One(saved = d) \in {0, 1} /\ One(c = d) \in {0, 1}
  BY DEF One
<1>3. OwnersGain(d) = One(d \in conns) - One(d \in conns) + One(saved = d) - One(saved = d) + One(NULL = d) - One(c = d)
  BY DEF OwnersGain
<1>4. QED BY <1>1, <1>2, <1>3

LEMMA DestroyStep ==
  ASSUME TransportIInv, NEW w \in Worker, Destroy(w)
  PROVE  TransportIInv'
<1> DEFINE c == chan
           f == conn[c].fd
<1>1. /\ Typed /\ ObjectsInv /\ PollInv /\ WorkersInv /\ LoopInv /\ SocketsInv /\ NoLostWakeup
      /\ wk[w] \in Place
  BY Parts, IdleHasNone
<1>2. /\ wk[w].pc = "idle" /\ c # NULL /\ conn[c].refno = 1 /\ chan' = NULL
      /\ UNCHANGED <<pollVars, loop, jobq, conns, saved, calls, aborted>>
      /\ closeconn(w, c)
  BY DEF Destroy
<1>3. c \in Conn /\ Open(c) /\ f \in Fd /\ conn[c] \in Object /\ wk[w].c = NULL
  <2>1. TypeOK /\ CountInv /\ c \in Conn
    BY <1>1, <1>2 DEF TransportIInv, Typed
  <2>2. Open(c)
    BY <1>1, <2>1, HeldIsOpen
  <2>3. QED BY <1>1, <1>2, <2>1, <2>2, IdleHasNone DEF ObjectsInv, Typed
<1>4. chan = c
  OBVIOUS
<1> HIDE DEF c, f
<1>5. \A d \in Conn : 0 = One(c = d) + OwnersGain(d)
  BY <1>2, <1>3, <1>4, ChannelToCloser
<1>6. \A d \in Conn : One(NULL = d) = 0 /\ conn[d].refno \in Nat /\ One(c = d) \in {0, 1}
  BY <1>1, CountsAre, TransportAssumption DEF One
<1>7. CASE /\ conn[c].dead
           /\ wk' = [wk EXCEPT ![w] = [pc |-> "decref", c |-> c, op |-> "close"]]
           /\ UNCHANGED <<conn, sock>>
  <2> DEFINE p == [pc |-> "decref", c |-> c, op |-> "close"]
  <2>1. p \in Place /\ p.pc = "decref" /\ p.c = c /\ p.op = "close"
    BY <1>3, Places DEF Place
  <2>2. wk' = [wk EXCEPT ![w] = p]
    BY <1>7
  <2> HIDE DEF p
  <2>3. \A d \in Conn :
          conn'[d].refno = conn[d].refno - One(wk[w].c = d) + One(p.c = d) + OwnersGain(d)
    <3>1. ASSUME NEW d \in Conn
          PROVE  conn'[d].refno = conn[d].refno - One(wk[w].c = d) + One(p.c = d) + OwnersGain(d)
      <4>1. /\ One(wk[w].c = d) = 0 /\ One(p.c = d) = One(c = d) /\ OwnersGain(d) = - One(c = d)
            /\ conn'[d].refno = conn[d].refno /\ conn[d].refno \in Nat /\ One(c = d) \in {0, 1}
        <5>1. OwnersGain(d) \in Int
          <6>1. /\ One(d \in conns') \in {0, 1} /\ One(d \in conns) \in {0, 1} /\ One(saved' = d) \in {0, 1}
                /\ One(saved = d) \in {0, 1} /\ One(chan' = d) \in {0, 1} /\ One(chan = d) \in {0, 1}
            BY DEF One
          <6>2. QED BY <6>1 DEF OwnersGain
        <5>2. QED BY <1>3, <1>5, <1>6, <1>7, <2>1, <5>1
      <4>2. QED BY <4>1
    <3>2. QED BY <3>1
  <2>4. Turn(w, p)
    BY <1>2, <1>3, <2>1, <2>2, <2>3 DEF Turn, Calm
  <2>5. Kept
    <3>1. \A d \in Conn : Same(d)
      BY <1>7 DEF Same
    <3>2. conn' \in [Conn -> Object] /\ sock' \in [Fd -> Socket] /\ SocketsGo
      BY <1>1, <1>7 DEF Typed, SocketsGo
    <3>3. /\ conns' \subseteq Conn /\ saved' \in Conn \cup {NULL} /\ chan' \in Conn \cup {NULL}
          /\ calls' \in 0 .. MaxCalls /\ (saved # NULL => saved' # NULL)
      BY <1>1, <1>2 DEF Typed
    <3>4. QED BY <1>2, <3>1, <3>2, <3>3 DEF Kept
  <2>6. QED BY <2>1, <2>4, <2>5, TurnKeeps
<1>8. CASE /\ ~conn[c].dead
           /\ conn' = [conn EXCEPT ![c].dead = TRUE]
           /\ sock' = [sock EXCEPT ![conn[c].fd].shut = "eof"]
           /\ wk' = [wk EXCEPT ![w] = [pc |-> "remove", c |-> c, op |-> "close"]]
  <2> DEFINE p == [pc |-> "remove", c |-> c, op |-> "close"]
             o == [conn[c] EXCEPT !.dead = TRUE]
             s == [sock[f] EXCEPT !.shut = "eof"]
  <2>1. p \in Place /\ p.pc = "remove" /\ p.c = c /\ p.op = "close"
    BY <1>3, Places DEF Place
  <2>2. /\ o \in Object /\ o.st = conn[c].st /\ o.fd = conn[c].fd /\ o.buf = conn[c].buf /\ o.refno = conn[c].refno
        /\ o.dead
    BY <1>3 DEF Object
  <2>3. s \in Socket /\ s.open = sock[f].open /\ s.in = sock[f].in /\ s.sent = sock[f].sent
    <3>1. sock[f] \in Socket
      BY <1>1, <1>3 DEF Typed
    <3>2. QED BY <3>1 DEF Socket
  <2>4. wk' = [wk EXCEPT ![w] = p] /\ conn' = [conn EXCEPT ![c] = o] /\ sock' = [sock EXCEPT ![f] = s]
    BY <1>8 DEF f
  <2> HIDE DEF p, o, s
  <2>5. conn' \in [Conn -> Object] /\ conn'[c] = o /\ \A d \in Conn \ {c} : conn'[d] = conn[d]
    BY <1>1, <1>3, <2>2, <2>4 DEF Typed
  <2>6. sock' \in [Fd -> Socket] /\ sock'[f] = s /\ \A g \in Fd \ {f} : sock'[g] = sock[g]
    BY <1>1, <1>3, <2>3, <2>4 DEF Typed
  <2>7. /\ wk' \in [Worker -> Place] /\ wk'[w] = p /\ \A v \in Worker \ {w} : wk'[v] = wk[v]
        /\ UserTurns(wk, wk', NULL, c)
    BY <1>1, <1>3, <2>1, <2>4, Turns
  \* The channel's reference was the last one.
  <2>8. \A v \in Worker : wk[v].c # c
    BY <1>2, <1>3, <1>4, LastOwner
  <2>9. Typed'
    BY <1>1, <1>2, <2>5, <2>6, <2>7 DEF Typed, pollVars
  <2>10. ObjectsInv'
    <3>1. \A d \in Conn : /\ conn'[d].st = conn[d].st /\ conn'[d].fd = conn[d].fd
                          /\ ~Open(d) => conn'[d] = conn[d]
      BY <1>3, <2>2, <2>5
    <3>2. \A g \in Fd : sock'[g].open = sock[g].open
      BY <2>3, <2>6
    <3>3. QED BY <3>1, <3>2, ObjectsKept
  <2>11. CountInv'
    <3>1. ASSUME NEW d \in Conn
          PROVE  conn'[d].refno >= conn[d].refno - One(NULL = d) + One(c = d)
                            + One(d \in conns') - One(d \in conns) + One(saved' = d) - One(saved = d)
                            + One(chan' = d) - One(chan = d)
      <4>1. conn'[d].refno = conn[d].refno
        BY <2>2, <2>5
      <4>2. /\ One(d \in conns') = One(d \in conns) /\ One(saved' = d) = One(saved = d)
            /\ One(chan' = d) = 0 /\ One(chan = d) = One(c = d)
        BY <1>2, <1>4, <1>6
      <4>3. One(d \in conns) \in {0, 1} /\ One(saved = d) \in {0, 1}
        BY DEF One
      <4>4. QED BY <1>6, <4>1, <4>2, <4>3
    <3>2. jobq' = jobq
      BY <1>2
    <3>3. QED BY <2>7, <2>9, <3>1, <3>2, Recounted
  <2>12. \A v \in Worker \ {w} : (Writes(v)' <=> Writes(v)) /\ (Removes(v)' <=> Removes(v))
    BY <2>7 DEF Writes, Removes
  <2>13. ~Writes(w) /\ ~Writes(w)' /\ Removes(w)' /\ ~Removes(w)
    BY <1>2, <2>1, <2>7 DEF Writes, Removes
  <2>14. OneWriter'
    <3>1. \A d \in Conn : conn'[d].buf = conn[d].buf
      BY <2>2, <2>5
    <3>2. \A v \in Worker : (Writes(v)' <=> Writes(v)) /\ (Writes(v) => wk'[v].c = wk[v].c)
      BY <2>7, <2>12, <2>13
    <3>3. QED BY <3>1, <3>2, WritersKept
  <2>15. UNCHANGED <<callbacks, rfds, wfds, pending, pipe, loop, saved>>
    BY <1>2 DEF pollVars
  <2>16. \A v \in Worker \ {w} : wk[v].pc # "idle" => wk[v].c \in Conn /\ conn'[wk[v].c] = conn[wk[v].c]
    BY <2>5, <2>8, IdleHasNone
  <2>17. PollInv'
    <3>1. ASSUME NEW g \in Fd, callbacks[g] # NULL
          PROVE  /\ Open(callbacks[g])' /\ conn'[callbacks[g]].fd = g
                 /\ conn'[callbacks[g]].dead => \E v \in Worker : Removes(v)' /\ wk'[v].c = callbacks[g]
      <4>1. callbacks[g] \in Conn /\ Open(callbacks[g]) /\ conn[callbacks[g]].fd = g
        BY <3>1, RegisteredIs
      <4>2. Open(callbacks[g])' /\ conn'[callbacks[g]].fd = g
        BY <2>2, <2>5, <2>15, <4>1 DEF Open
      <4>3. CASE callbacks[g] = c
        BY <2>1, <2>7, <2>13, <4>2, <4>3
      <4>4. CASE callbacks[g] # c
        <5>1. ASSUME conn[callbacks[g]].dead PROVE \E v \in Worker : Removes(v)' /\ wk'[v].c = callbacks[g]
          <6>1. PICK v \in Worker : Removes(v) /\ wk[v].c = callbacks[g]
            BY <1>1, <3>1, <5>1 DEF PollInv
          <6>2. v # w
            BY <2>13, <6>1
          <6>3. QED BY <2>7, <2>12, <6>1, <6>2
        <5>2. conn'[callbacks[g]] = conn[callbacks[g]]
          BY <2>5, <4>1, <4>4
        <5>3. QED BY <4>2, <5>1, <5>2
      <4>5. QED BY <4>3, <4>4
    <3>2. QED BY <1>1, <2>15, <3>1 DEF PollInv
  <2>18. WorkersInv'
    <3>1. ASSUME NEW v \in Worker \ {w}
          PROVE  /\ wk[v].pc = "idle" <=> wk[v].c = NULL
                 /\ wk[v].pc = "latest" => saved # NULL
                 /\ wk[v].op = "close" => Removes(v) \/ wk[v].pc = "decref"
                 /\ Removes(v) => conn'[wk[v].c].dead
                 /\ wk[v].pc \in {"removing", "removed"} => conn'[wk[v].c].fd \notin rfds \cup wfds
                 /\ wk[v].pc = "removed" /\ loop.pc \in {"select", "read"} => conn'[wk[v].c].fd \notin loop.r
                 /\ wk[v].pc = "removing" /\ loop.pc = "copy" => pipe
                 /\ wk[v].pc = "complete" => conn'[wk[v].c].wsz = PduLen
                 /\ wk[v].pc = "completeWoken" => conn'[wk[v].c].dead \/ conn'[wk[v].c].wdone = PduLen
      <4>1. CASE wk[v].pc = "idle"
        BY <1>1, <4>1 DEF WorkersInv, Removes
      <4>2. CASE wk[v].pc # "idle"
        <5>1. conn'[wk[v].c] = conn[wk[v].c]
          BY <2>16, <4>2
        <5>2. QED BY <1>1, <5>1 DEF WorkersInv
      <4>3. QED BY <4>1, <4>2
    <3>2. /\ ~(wk'[w].pc = "idle") /\ wk'[w].c = c /\ c # NULL /\ wk'[w].pc = "remove"
          /\ conn'[c].dead
      BY <1>2, <2>1, <2>2, <2>5, <2>7
    <3>3. \A v \in Worker \ {w} : wk'[v] = wk[v] /\ (Removes(v)' <=> Removes(v))
      BY <2>7, <2>12
    <3>4. ASSUME NEW v \in Worker
          PROVE  /\ wk'[v].pc = "idle" <=> wk'[v].c = NULL
                 /\ wk'[v].pc = "latest" => saved # NULL
                 /\ wk'[v].op = "close" => Removes(v)' \/ wk'[v].pc = "decref"
                 /\ Removes(v)' => conn'[wk'[v].c].dead
                 /\ wk'[v].pc \in {"removing", "removed"} => conn'[wk'[v].c].fd \notin rfds \cup wfds
                 /\ wk'[v].pc = "removed" /\ loop.pc \in {"select", "read"} => conn'[wk'[v].c].fd \notin loop.r
                 /\ wk'[v].pc = "removing" /\ loop.pc = "copy" => pipe
                 /\ wk'[v].pc = "complete" => conn'[wk'[v].c].wsz = PduLen
                 /\ wk'[v].pc = "completeWoken" => conn'[wk'[v].c].dead \/ conn'[wk'[v].c].wdone = PduLen
      <4>1. CASE v = w
        BY <2>13, <3>2, <4>1
      <4>2. CASE v # w
        BY <3>1, <3>3, <4>2
      <4>3. QED BY <4>1, <4>2
    <3>5. QED BY <2>15, <3>4 DEF WorkersInv, Removes
  <2>19. LoopInv' /\ SocketsInv'
    <3>1. \A g \in Fd : sock'[g].in = sock[g].in /\ sock'[g].sent = sock[g].sent
      BY <2>3, <2>6
    <3>2. QED BY <1>1, <2>15, <3>1 DEF LoopInv, SocketsInv
  <2>20. NoLostWakeup'
    <3>1. ASSUME NEW v \in Worker
          PROVE  /\ wk'[v].pc = "complete" =>
                      ~conn'[wk'[v].c].dead /\ conn'[wk'[v].c].fd \in wfds /\ callbacks[conn'[wk'[v].c].fd] = wk'[v].c
                 /\ wk'[v].pc = "turn" => conn'[wk'[v].c].buf
                 /\ wk'[v].pc = "removing" => pending /\ (loop.pc = "select" => pipe)
      <4>1. CASE v = w \/ wk'[v].pc = "idle"
        BY <2>1, <2>7, <4>1
      <4>2. CASE v # w /\ wk'[v].pc # "idle"
        <5>1. wk'[v] = wk[v] /\ conn'[wk[v].c] = conn[wk[v].c]
          BY <2>7, <2>16, <4>2
        <5>2. QED BY <1>1, <5>1 DEF NoLostWakeup
      <4>3. QED BY <4>1, <4>2
    <3>2. QED BY <2>15, <3>1 DEF NoLostWakeup
  <2>21. QED BY <2>9, <2>10, <2>11, <2>14, <2>17, <2>18, <2>19, <2>20, PartsNext
<1>9. QED BY <1>2, <1>7, <1>8 DEF closeconn
-----------------------------------------------------------------------------
(* The invariant of every execution                                        *)

LEMMA InitTransport ==
  ASSUME Init
  PROVE  TransportIInv
<1>1. /\ conn = [c \in Conn |-> NoConnection] /\ callbacks = [f \in Fd |-> NULL]
      /\ rfds = {} /\ wfds = {} /\ pending = FALSE /\ pipe = FALSE
      /\ loop = [pc |-> "top", r |-> {}, w |-> {}, owner |-> [f \in Fd |-> NULL], eagain |-> FALSE]
      /\ wk = [w \in Worker |-> IdleWorker]
      /\ jobq = << >> /\ conns = {} /\ saved = NULL /\ chan = NULL
      /\ sock = [f \in Fd |-> ClosedSocket] /\ calls = 0 /\ aborted = FALSE
  BY DEF Init
<1>2. NoConnection \in Object /\ NoConnection.st = "none" /\ NoConnection.refno = 0
      /\ ~NoConnection.buf /\ ~NoConnection.dead
  <2>1. 0 \in {0, PduLen} /\ 0 \in -1 .. PduLen /\ 0 \in 0 .. PduLen /\ 0 \in Nat
    BY TransportAssumption
  <2>2. QED BY <2>1 DEF NoConnection, Object
<1>3. IdleWorker \in Place /\ IdleWorker.pc = "idle" /\ IdleWorker.c = NULL /\ IdleWorker.op = "none"
  BY Places DEF IdleWorker, Place
<1>4. \A c \in Conn : conn[c] = NoConnection
  BY <1>1
<1>5. \A w \in Worker : wk[w] = IdleWorker
  BY <1>1
<1>6. \A f \in Fd : sock[f] = ClosedSocket /\ callbacks[f] = NULL
  BY <1>1
<1>7. Typed
  <2>1. loop \in Round
    BY <1>1 DEF Round
  <2>2. conn \in [Conn -> Object] /\ wk \in [Worker -> Place] /\ sock \in [Fd -> Socket]
        /\ callbacks \in [Fd -> Conn \cup {NULL}]
    BY <1>1, <1>2, <1>3, ClosedSocketIs
  <2>3. jobq \in Seq(Conn) /\ Len(jobq) <= MaxJobs
    BY <1>1, TransportAssumption
  <2>4. calls \in 0 .. MaxCalls
    BY <1>1, TransportAssumption
  <2>5. QED BY <1>1, <2>1, <2>2, <2>3, <2>4 DEF Typed
<1>8. ObjectsInv
  BY <1>2, <1>4 DEF ObjectsInv, Open
<1>9. CountInv
  <2>1. ASSUME NEW c \in Conn PROVE Holders(c) <= conn[c].refno
    <3>1. UsersOf(wk, c) = {} /\ JobsOf(jobq, c) = {}
      BY <1>1, <1>3, <1>5, TransportAssumption DEF UsersOf, JobsOf
    <3>2. Cardinality(UsersOf(wk, c)) = 0 /\ Cardinality(JobsOf(jobq, c)) = 0
      BY <1>7, <3>1, UsersFinite, JobsFinite DEF Typed
    <3>3. One(c \in conns) = 0 /\ One(saved = c) = 0 /\ One(chan = c) = 0
      BY <1>1, TransportAssumption DEF One
    <3>4. Holders(c) = 0
      <4>1. Holders(c) = Cardinality(UsersOf(wk, c)) + Cardinality(JobsOf(jobq, c))
                         + One(c \in conns) + One(saved = c) + One(chan = c)
        BY HoldersIs
      <4>2. QED BY <3>2, <3>3, <4>1
    <3>5. QED BY <1>2, <1>4, <3>4
  <2>2. QED BY <2>1 DEF CountInv
<1>10. PollInv
  BY <1>1, <1>6 DEF PollInv
<1>11. WorkersInv
  BY <1>3, <1>5 DEF WorkersInv, Removes
<1>12. LoopInv
  BY <1>1 DEF LoopInv
<1>13. SocketsInv
  BY <1>6, ClosedSocketIs DEF SocketsInv
<1>14. OneWriter
  <2>1. \A w \in Worker : ~Writes(w)
    BY <1>3, <1>5 DEF Writes
  <2>2. Exclusive
    BY <1>2, <1>4, <2>1 DEF Exclusive
  <2>3. QED BY <2>2, ExclusiveIs
<1>15. NoLostWakeup
  BY <1>3, <1>5 DEF NoLostWakeup
<1>16. QED BY <1>7, <1>8, <1>9, <1>10, <1>11, <1>12, <1>13, <1>14, <1>15, Parts

LEMMA StepTransport ==
  ASSUME TransportIInv, [Next]_vars
  PROVE  TransportIInv'
<1>1. CASE Next
  <2>1. ASSUME NEW w \in Worker, JobStep(w) \/ Call(w) \/ Destroy(w) PROVE TransportIInv'
    <3>1. \/ TakeJob(w) \/ Dispatch(w) \/ Latest(w) \/ Call(w) \/ Destroy(w)
          \/ SendDead(w) \/ SendWaitsTurn(w) \/ SendWrites(w) \/ SendCompletes(w)
          \/ block_remove_fd(w) \/ FinishRemove(w) \/ DropRef(w)
      BY <2>1, Zenon DEF JobStep, SendStep
    <3>2. QED BY <3>1, TakeJobStep, DispatchStep, LatestStep, CallStep, DestroyStep, SendDeadStep,
                 SendWaitsTurnStep, SendWritesStep, SendCompletesStep, BlockRemoveStep,
                 FinishRemoveStep, DropRefStep, Zenon
  <2>2. CASE Loop
    <3>1. LoopTop \/ LoopCopy \/ LoopSelect \/ LoopRead \/ LoopWrite
      BY <2>2, Zenon DEF Loop
    <3>2. QED BY <3>1, LoopTopStep, LoopCopyStep, LoopSelectStep, LoopReadStep, LoopWriteStep, Zenon
  <2>3. CASE accept_conn
    BY <2>3, AcceptStep, Zenon
  <2>4. ASSUME NEW f \in Fd, Arrive(f) \/ Break(f) PROVE TransportIInv'
    BY <2>4, ArriveStep, BreakStep, Zenon
  <2>5. QED BY <1>1, <2>1, <2>2, <2>3, <2>4, Zenon DEF Next
<1>2. CASE UNCHANGED vars
  <2>1. UNCHANGED <<conn, callbacks, rfds, wfds, pending, pipe, loop, wk, jobq, conns, saved, chan,
                    calls, sock, aborted>>
    BY <1>2 DEF vars, pollVars, ownerVars
  <2>2. UNCHANGED <<conn, pollVars, loop, wk, ownerVars, aborted>>
    BY <2>1 DEF pollVars, ownerVars
  <2>3. sock' \in [Fd -> Socket] /\ SocketsInv' /\ \A g \in Fd : sock'[g].open = sock[g].open
    BY <2>1, Parts DEF Typed, SocketsInv
  <2>4. QED BY <2>2, <2>3, NetworkKeeps
<1>3. QED BY <1>1, <1>2

LEMMA TransportInvariant == Spec => []TransportIInv
<1>1. Init => TransportIInv
  BY InitTransport
<1>2. TransportIInv /\ [Next]_vars => TransportIInv'
  BY StepTransport
<1>3. QED BY <1>1, <1>2, PTL DEF Spec

\* Every table of PollMgr, SelectAIO, rpcs and rpcc and every connection keep
\* their types, and the job queue never outgrows fifo::max_.
THEOREM TransportTypeCorrect == Spec => []TypeOK
<1>1. TransportIInv => TypeOK
  BY DEF TransportIInv
<1>2. QED BY <1>1, TransportInvariant, PTL

\* Reference counting (connection::incref, decref and their callers) is enough:
\* everyone who keeps a pointer to a connection is counted in refno_, and one
\* that decref has deleted is known to nobody, PollMgr included.
THEOREM TransportRefsCounted == Spec => []NoUseAfterFree
<1>1. TransportIInv => NoUseAfterFree
  <2> SUFFICES ASSUME TransportIInv PROVE NoUseAfterFree
    OBVIOUS
  <2>1. Typed /\ ObjectsInv /\ CountInv /\ PollInv
    BY Parts
  <2>2. ASSUME NEW c \in Conn, conn[c].st = "freed"
        PROVE  Holders(c) = 0 /\ \A f \in Fd : callbacks[f] # c
    <3>1. ~Open(c) /\ conn[c].refno = 0
      BY <2>1, <2>2 DEF ObjectsInv, Open
    <3>2. Holders(c) \in Nat
      <4>1. /\ Cardinality(UsersOf(wk, c)) \in Nat /\ Cardinality(JobsOf(jobq, c)) \in Nat
            /\ One(c \in conns) \in {0, 1} /\ One(saved = c) \in {0, 1} /\ One(chan = c) \in {0, 1}
        BY <2>1, CountsAre
      <4>2. Holders(c) = Cardinality(UsersOf(wk, c)) + Cardinality(JobsOf(jobq, c))
                         + One(c \in conns) + One(saved = c) + One(chan = c)
        BY HoldersIs
      <4> DEFINE u == Cardinality(UsersOf(wk, c))
                 j == Cardinality(JobsOf(jobq, c))
      <4> HIDE DEF u, j
      <4>3. QED BY <4>1, <4>2
    <3>3. Holders(c) <= 0
      BY <2>1, <3>1 DEF CountInv
    <3>4. ASSUME NEW f \in Fd PROVE callbacks[f] # c
      <4>1. c # NULL
        BY TransportAssumption
      <4>2. QED BY <2>1, <3>1, <4>1 DEF PollInv
    <3>5. QED BY <3>2, <3>3, <3>4
  <2>3. QED BY <2>1, <2>2 DEF NoUseAfterFree, CountInv
<1>2. QED BY <1>1, TransportInvariant, PTL

\* What PollMgr::block_remove_fd promises: the loop never calls read_cb on a
\* descriptor for a connection other than the one select was asked about,
\* although descriptors are closed and used again while it is in select.
THEOREM TransportFreshRead == Spec => []FreshRead
<1>1. TransportIInv => FreshRead
  <2> SUFFICES ASSUME TransportIInv, loop.pc = "read"
               PROVE  callbacks[Min(loop.r)] = loop.owner[Min(loop.r)]
    BY DEF FreshRead
  <2>1. LoopInv /\ Typed
    BY Parts
  <2>2. loop.r # {} /\ loop.r \subseteq Nat
    BY <2>1, TransportAssumption DEF LoopInv, Typed, Round
  <2>3. Min(loop.r) \in loop.r
    BY <2>2, MinIsMember
  <2>4. QED BY <2>1, <2>3 DEF LoopInv
<1>2. QED BY <1>1, TransportInvariant, PTL

\* connection::send lets one thread at a time write to a connection: the
\* buffer is taken exactly while one thread has a pdu under way.
THEOREM TransportOneWriter == Spec => []OneWriter
<1>1. TransportIInv => OneWriter
  BY DEF TransportIInv
<1>2. QED BY <1>1, TransportInvariant, PTL

\* No thread waits in send or block_remove_fd for a wake-up that cannot come:
\* its write callback is armed on a live connection, a sender is before it,
\* or the loop is awake or has a byte in its pipe.
THEOREM TransportNoLostWakeup == Spec => []NoLostWakeup
<1>1. TransportIInv => NoLostWakeup
  BY DEF TransportIInv
<1>2. QED BY <1>1, TransportInvariant, PTL
=============================================================================
