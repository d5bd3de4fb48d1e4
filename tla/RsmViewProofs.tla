--------------------------- MODULE RsmViewProofs ---------------------------
(***************************************************************************)
(* Proofs about RsmView for any nodes and bounds: that no wake-up of the   *)
(* recovery thread is lost, and the types.  The first need not know what   *)
(* the views are.                                                          *)
(***************************************************************************)
EXTENDS RsmView, TLAPS, FiniteSetTheorems, SequenceTheorems

USE RsmViewAssumption

\* A variable with a value for every node.
PerNode(f) == f = [n \in Node |-> f[n]]

Shape ==
    /\ PerNode(up) /\ PerNode(mems) /\ PerNode(rec) /\ PerNode(jr) /\ PerNode(changes)
    /\ \A n \in Node : rec[n] = [pc |-> rec[n].pc, m |-> rec[n].m]

Inv == Shape /\ RecoveryWillWake
-----------------------------------------------------------------------------
(* What a step does to one node                                            *)

\* Everything that a node's recovery thread may wait for is as before.
Quiet(x) ==
    /\ up'[x] = up[x] /\ rec'[x] = rec[x] /\ mems'[x] = mems[x]
    /\ changes[x] # {} => changes'[x] # {}

\* The recovery thread does not wait, or is told.
Told(x) == ~up'[x] \/ rec'[x].pc # "wait" \/ changes'[x] # {}

\* What is to be shown of every step.
Good == Shape' /\ \A x \in Node : Quiet(x) \/ Told(x)

LEMMA GoodKeeps ==
  ASSUME Inv, Good
  PROVE  Inv'
BY DEF Inv, Good, RecoveryWillWake, Quiet, Told, isamember

\* A step that leaves these variables alone at every node.
LEMMA Still ==
  ASSUME Inv, UNCHANGED <<up, mems, rec, jr, changes>>
  PROVE  Good
BY DEF Good, Inv, Shape, PerNode, Quiet

\* The recovery thread is left alone, or gets an answer.
LEMMA Answered ==
  ASSUME Inv, UNCHANGED <<up, mems, changes>>, PerNode(jr'),
         rec' = rec \/ \E m : JoinReturns(m)
  PROVE  Good
<1>1. Shape
  BY DEF Inv
<1>2. /\ PerNode(rec')
      /\ \A x \in Node : /\ rec'[x] = rec[x] \/ rec'[x].pc = "check"
                         /\ rec'[x] = [pc |-> rec'[x].pc, m |-> rec'[x].m]
  <2>1. CASE rec' = rec
    BY <1>1, <2>1 DEF Shape, PerNode
  <2>2. CASE \E m : JoinReturns(m)
    <3> DEFINE r == [pc |-> "check", m |-> NULL]
    <3>1. PICK m : rec' = [rec EXCEPT ![m] = r]
      BY <2>2 DEF JoinReturns
    <3>2. r = [pc |-> r.pc, m |-> r.m] /\ r.pc = "check"
      OBVIOUS
    <3> HIDE DEF r
    <3>3. QED BY <1>1, <3>1, <3>2 DEF Shape, PerNode
  <2>3. QED BY <2>1, <2>2
<1>3. Shape'
  BY <1>1, <1>2 DEF Shape, PerNode
<1>4. QED BY <1>2, <1>3 DEF Good, Quiet, Told

\* What one process forgets or sets at its start, whatever it starts in.
LEMMA ProcessGood ==
  ASSUME Inv, NEW n \in Node, NEW u, NEW V, NEW j, NEW c,
         up' = [up EXCEPT ![n] = u], mems' = [mems EXCEPT ![n] = V],
         jr' = [jr EXCEPT ![n] = j], changes' = [changes EXCEPT ![n] = c],
         rec' = [rec EXCEPT ![n] = [pc |-> "check", m |-> NULL]]
  PROVE  Good
<1>1. Shape
  BY DEF Inv
<1> DEFINE r == [pc |-> "check", m |-> NULL]
<1>2. r = [pc |-> r.pc, m |-> r.m] /\ r.pc = "check" /\ rec' = [rec EXCEPT ![n] = r]
  OBVIOUS
<1> HIDE DEF r
<1>3. PerNode(rec') /\ rec'[n] = r /\ \A x \in Node \ {n} : rec'[x] = rec[x]
  BY <1>1, <1>2 DEF Shape, PerNode
<1>4. /\ PerNode(up') /\ PerNode(mems') /\ PerNode(jr') /\ PerNode(changes')
      /\ \A x \in Node \ {n} : up'[x] = up[x] /\ mems'[x] = mems[x] /\ changes'[x] = changes[x]
  BY <1>1 DEF Shape, PerNode
<1>5. ASSUME NEW x \in Node PROVE rec'[x] = [pc |-> rec'[x].pc, m |-> rec'[x].m]
  BY <1>1, <1>2, <1>3 DEF Shape
<1>6. ASSUME NEW x \in Node PROVE Quiet(x) \/ Told(x)
  BY <1>2, <1>3, <1>4 DEF Quiet, Told
<1>7. QED BY <1>3, <1>4, <1>5, <1>6 DEF Good, Shape
-----------------------------------------------------------------------------
(* The steps                                                               *)

LEMMA StartGood ==
  ASSUME Inv, NEW n \in Node, Start(n)
  PROVE  Good
<1>1. Shape
  BY DEF Inv
<1>2. PICK V : mems' = [mems EXCEPT ![n] = V]
  <2>1. mems = [mems EXCEPT ![n] = mems[n]]
    BY <1>1 DEF Shape, PerNode
  <2>2. QED BY <2>1 DEF Start, reconstruct
<1>3. /\ up' = [up EXCEPT ![n] = TRUE] /\ rec' = [rec EXCEPT ![n] = [pc |-> "check", m |-> NULL]]
      /\ jr' = [jr EXCEPT ![n] = jr[n]] /\ changes' = [changes EXCEPT ![n] = changes[n]]
  BY <1>1 DEF Start, Shape, PerNode
<1>4. QED BY <1>2, <1>3, ProcessGood

LEMMA ForgetGood ==
  ASSUME Inv, NEW n \in Node, Forget(n)
  PROVE  Good
BY ProcessGood DEF Forget

\* The view a node is in changes here, and a commit_change follows.
LEMMA UpcallGood ==
  ASSUME Inv, NEW n \in Node, NEW u \in upcalls[n], paxos_commit(n, u)
  PROVE  Good
<1>1. Shape
  BY DEF Inv
<1>2. /\ changes' = [changes EXCEPT ![n] = changes[n] \cup {u}]
      /\ mems' = [mems EXCEPT ![n] = u.v]
      /\ UNCHANGED <<up, rec, jr>>
  BY DEF paxos_commit
<1>3. /\ PerNode(changes') /\ u \in changes'[n]
      /\ PerNode(mems')
      /\ \A x \in Node \ {n} : changes'[x] = changes[x] /\ mems'[x] = mems[x]
  BY <1>1, <1>2 DEF Shape, PerNode
<1>4. Shape'
  BY <1>1, <1>2, <1>3 DEF Shape, PerNode
<1>5. ASSUME NEW x \in Node PROVE Quiet(x) \/ Told(x)
  BY <1>2, <1>3 DEF Quiet, Told
<1>6. QED BY <1>4, <1>5 DEF Good

\* commit_change signals the recovery thread.
LEMMA ChangeGood ==
  ASSUME Inv, NEW n \in Node, NEW u \in changes[n], commit_change(n, u)
  PROVE  Good
<1>1. Shape
  BY DEF Inv
<1>2. CASE Changed(n, u)
  <2>1. /\ changes' = [changes EXCEPT ![n] = changes[n] \ {u}]
        /\ Wake(n)
        /\ UNCHANGED <<up, mems, jr>>
    BY <1>2 DEF Changed
  <2>2. PerNode(changes') /\ \A x \in Node \ {n} : changes'[x] = changes[x]
    BY <1>1, <2>1 DEF Shape, PerNode
  <2>3. /\ PerNode(rec') /\ rec'[n].pc # "wait" /\ \A x \in Node \ {n} : rec'[x] = rec[x]
        /\ rec'[n] = [pc |-> rec'[n].pc, m |-> rec'[n].m]
    <3>1. rec[n] = [pc |-> rec[n].pc, m |-> rec[n].m]
      BY <1>1 DEF Shape
    <3>2. CASE rec[n].pc = "wait"
      <4> DEFINE r == [rec[n] EXCEPT !.pc = "check"]
      <4>1. r = [pc |-> r.pc, m |-> r.m] /\ r.pc = "check"
        BY <3>1
      <4>2. rec' = [rec EXCEPT ![n] = r]
        BY <2>1, <3>2 DEF Wake
      <4> HIDE DEF r
      <4>3. QED BY <1>1, <4>1, <4>2 DEF Shape, PerNode
    <3>3. CASE rec[n].pc # "wait"
      BY <1>1, <2>1, <3>1, <3>3 DEF Wake, Shape
    <3>4. QED BY <3>2, <3>3
  <2>4. ASSUME NEW x \in Node PROVE rec'[x] = [pc |-> rec'[x].pc, m |-> rec'[x].m]
    BY <1>1, <2>3 DEF Shape
  <2>5. Shape'
    BY <1>1, <2>1, <2>2, <2>3, <2>4 DEF Shape, PerNode
  <2>6. ASSUME NEW x \in Node PROVE Quiet(x) \/ Told(x)
    BY <2>1, <2>2, <2>3 DEF Quiet, Told
  <2>7. QED BY <2>5, <2>6 DEF Good
<1>3. CASE Forget(n)
  BY <1>3, ForgetGood
<1>4. QED BY <1>2, <1>3 DEF commit_change

LEMMA HeartbeatGood ==
  ASSUME Inv, NEW n \in Node,
         \/ heartbeater(n) \/ remove_wo(n) \/ RemoveDone(n)
         \/ \E m \in Node : heartbeat_aborts(n, m)
  PROVE  Good
<1>1. CASE heartbeater(n)
  BY <1>1, Still DEF heartbeater
<1>2. CASE remove_wo(n)
  BY <1>2, Still DEF remove_wo
<1>3. CASE RemoveDone(n)
  BY <1>3, Still DEF RemoveDone
<1>4. CASE \E m \in Node : heartbeat_aborts(n, m)
  BY <1>4, ForgetGood DEF heartbeat_aborts
<1>5. QED BY <1>1, <1>2, <1>3, <1>4

\* The thread waits only if it has found its node to be a member.
LEMMA RecoveryStep ==
  ASSUME Inv, NEW n \in Node, recovery(n)
  PROVE  Inv'
<1>1. Shape /\ RecoveryWillWake
  BY DEF Inv
<1> DEFINE r == IF isamember(n, mems[n]) THEN [pc |-> "wait", m |-> NULL]
                ELSE [pc |-> "call", m |-> primary[n]]
<1>2. /\ r = [pc |-> r.pc, m |-> r.m]
      /\ r.pc = "wait" => isamember(n, mems[n])
  OBVIOUS
<1>3. rec' = [rec EXCEPT ![n] = r] /\ UNCHANGED <<up, mems, jr, changes>>
  BY DEF recovery
<1> HIDE DEF r
<1>4. PerNode(rec') /\ rec'[n] = r /\ \A x \in Node \ {n} : rec'[x] = rec[x]
  BY <1>1, <1>3 DEF Shape, PerNode
<1>5. ASSUME NEW x \in Node PROVE rec'[x] = [pc |-> rec'[x].pc, m |-> rec'[x].m]
  BY <1>1, <1>2, <1>4 DEF Shape
<1>6. Shape'
  BY <1>1, <1>3, <1>4, <1>5 DEF Shape, PerNode
<1>7. ASSUME NEW x \in Node, up'[x], rec'[x].pc = "wait", ~isamember(x, mems'[x])
      PROVE  changes'[x] # {}
  <2>1. x # n
    BY <1>2, <1>3, <1>4, <1>7
  <2>2. QED BY <1>1, <1>3, <1>4, <1>7, <2>1 DEF RecoveryWillWake
<1>8. QED BY <1>6, <1>7 DEF Inv, RecoveryWillWake, isamember

\* A node that takes over the log of another looks again whether it is a
\* member.
LEMMA RestoreGood ==
  ASSUME Inv, NEW n, NEW p, restore(n, p), UNCHANGED <<up, changes>>, PerNode(jr')
  PROVE  Good
<1>1. Shape
  BY DEF Inv
<1> DEFINE r == [pc |-> "check", m |-> NULL]
<1>2. rec' = [rec EXCEPT ![n] = r] /\ (mems' = mems \/ \E V : mems' = [mems EXCEPT ![n] = V])
  BY DEF restore, reconstruct, JoinReturns
<1>3. r = [pc |-> r.pc, m |-> r.m] /\ r.pc = "check"
  OBVIOUS
<1> HIDE DEF r
<1>4. PerNode(mems') /\ \A x \in Node \ {n} : mems'[x] = mems[x]
  BY <1>1, <1>2 DEF Shape, PerNode
<1>5. /\ PerNode(rec') /\ \A x \in Node \ {n} : rec'[x] = rec[x]
      /\ n \in Node => rec'[n] = r
  BY <1>1, <1>2 DEF Shape, PerNode
<1>6. ASSUME NEW x \in Node PROVE rec'[x] = [pc |-> rec'[x].pc, m |-> rec'[x].m]
  BY <1>1, <1>3, <1>5 DEF Shape
<1>7. Shape'
  BY <1>1, <1>4, <1>5, <1>6 DEF Shape, PerNode
<1>8. ASSUME NEW x \in Node PROVE Quiet(x) \/ Told(x)
  BY <1>3, <1>4, <1>5 DEF Quiet, Told
<1>9. QED BY <1>7, <1>8 DEF Good

LEMMA JoinGood ==
  ASSUME Inv, NEW n \in Node, NEW p \in Node, JoinFails(n, p) \/ joinreq(n, p)
  PROVE  Good
<1>1. Shape /\ UNCHANGED <<up, changes>>
  BY DEF JoinFails, joinreq, Inv
<1>2. PerNode(jr')
  <2>1. UNCHANGED jr \/ \E j : jr' = [jr EXCEPT ![p] = j]
    BY DEF JoinFails, joinreq
  <2>2. QED BY <1>1, <2>1 DEF Shape, PerNode
<1>3. CASE restore(n, p)
  BY <1>1, <1>2, <1>3, RestoreGood
<1>4. CASE UNCHANGED mems /\ (rec' = rec \/ JoinReturns(n))
  BY <1>1, <1>2, <1>4, Answered
<1>5. QED BY <1>3, <1>4 DEF JoinFails, joinreq

LEMMA AddGood ==
  ASSUME Inv, NEW p \in Node, add(p) \/ AddDone(p)
  PROVE  Good
<1>1. Shape /\ UNCHANGED <<up, changes>>
  BY DEF add, AddDone, Inv
<1>2. CASE add(p)
  <2>1. JoinErr(p) \/ \E pc : SetJr(p, pc)
    BY <1>2 DEF add, run
  <2>2. PerNode(jr') /\ (rec' = rec \/ \E m : JoinReturns(m))
    BY <1>1, <2>1 DEF JoinErr, SetJr, Shape, PerNode
  <2>3. QED BY <1>1, <1>2, <2>2, Answered DEF add
<1>3. CASE AddDone(p)
  <2>1. PerNode(jr')
    BY <1>1, <1>3 DEF AddDone, Shape, PerNode
  <2>2. CASE restore(jr[p].m, p)
    BY <1>1, <2>1, <2>2, RestoreGood
  <2>3. CASE UNCHANGED <<mems, rec>>
    BY <1>1, <2>1, <2>3, Answered
  <2>4. QED BY <1>3, <2>2, <2>3 DEF AddDone
<1>4. QED BY <1>2, <1>3
-----------------------------------------------------------------------------
(* Wake-ups                                                                *)

LEMMA InitInv == Init => Inv
<1> SUFFICES ASSUME Init PROVE Inv
  OBVIOUS
<1>1. Shape
  BY DEF Init, Shape, PerNode
<1>2. RecoveryWillWake
  BY DEF Init, RecoveryWillWake
<1>3. QED BY <1>1, <1>2 DEF Inv

LEMMA InvStep ==
  ASSUME Inv, [Next]_vars
  PROVE  Inv'
<1>1. CASE UNCHANGED vars
  <2>1. Good
    BY <1>1, Still DEF vars
  <2>2. QED BY <2>1, GoodKeeps
<1>2. ASSUME NEW n \in Node, recovery(n) PROVE Inv'
  BY <1>2, RecoveryStep
<1>3. CASE Next /\ ~\E n \in Node : recovery(n)
  <2>1. ASSUME NEW n \in Node, Start(n) \/ Crash(n) PROVE Good
    BY <2>1, StartGood, ForgetGood DEF Crash
  <2>2. ASSUME NEW n \in Node, heartbeater(n) \/ remove_wo(n) \/ RemoveDone(n) PROVE Good
    BY <2>2, HeartbeatGood
  <2>3. ASSUME NEW n \in Node, add(n) \/ AddDone(n) PROVE Good
    BY <2>3, AddGood
  <2>4. ASSUME NEW n \in Node, NEW u \in upcalls[n], paxos_commit(n, u) PROVE Good
    BY <2>4, UpcallGood
  <2>5. ASSUME NEW n \in Node, NEW u \in changes[n], commit_change(n, u) PROVE Good
    BY <2>5, ChangeGood
  <2>6. ASSUME NEW n \in Node, NEW m \in Node,
               heartbeat_aborts(n, m) \/ JoinFails(n, m) \/ joinreq(n, m)
        PROVE  Good
    BY <2>6, HeartbeatGood, JoinGood
  <2>7. ASSUME NEW d \in decides, decidereq(d) PROVE Good
    BY <2>7, Still DEF decidereq
  <2>8. Good
    <3>1. CASE \E d \in decides : decidereq(d)
      BY <2>7, <3>1
    <3>2. CASE ~\E d \in decides : decidereq(d)
      <4>1. PICK n \in Node :
              \/ Start(n) \/ Crash(n)
              \/ heartbeater(n) \/ remove_wo(n) \/ RemoveDone(n)
              \/ add(n) \/ AddDone(n)
              \/ \E u \in upcalls[n] : paxos_commit(n, u)
              \/ \E u \in changes[n] : commit_change(n, u)
              \/ \E m \in Node : heartbeat_aborts(n, m) \/ JoinFails(n, m) \/ joinreq(n, m)
        BY <1>3, <3>2, Zenon DEF Next
      <4>2. QED BY <2>1, <2>2, <2>3, <2>4, <2>5, <2>6, <4>1
    <3>3. QED BY <3>1, <3>2
  <2>9. QED BY <2>8, GoodKeeps
<1>4. QED BY <1>1, <1>2, <1>3

\* rsm::recovery and rsm::commit_change: while the recovery thread waits on
\* recovery_cond its node is a member of the view config is in, or a
\* commit_change is on its way, which signals the thread.
THEOREM RecoveryIsWoken == Spec => []RecoveryWillWake
<1>1. Inv => RecoveryWillWake
  BY DEF Inv
<1>2. QED BY InitInv, InvStep, <1>1, PTL DEF Spec
-----------------------------------------------------------------------------
(* Helpers for the types                                                   *)

\* Every set of natural numbers that is not empty has a least one.
LEMMA MinIsMember ==
  ASSUME NEW T, T \subseteq Nat, T # {}
  PROVE  Min(T) \in T /\ \A y \in T : Min(T) <= y
<1> DEFINE R == OpToRel(<, Nat)
<1>1. IsWellFoundedOn(R, Nat)
  BY NatLessThanWellFounded
<1>2. PICK x \in T : \A y \in T : ~ (<<y, x>> \in R)
  BY <1>1, WFMin
<1>3. ASSUME NEW y \in T PROVE x <= y
  <2>1. x \in Nat /\ y \in Nat
    OBVIOUS
  <2>2. ~ (y < x)
    BY <1>2, <2>1 DEF OpToRel
  <2>3. QED BY <2>1, <2>2
<1>4. QED BY <1>3 DEF Min

LEMMA MembersAreNodes ==
  ASSUME NEW s \in View
  PROVE  Range(s) \subseteq Node
BY DEF View, Range

\* A majority of a view is somebody.
LEMMA MajorityIsSomebody ==
  ASSUME NEW s \in View, NEW S, majority(S, s)
  PROVE  S # {}
<1>1. SUFFICES ASSUME S = {} PROVE FALSE
  OBVIOUS
<1>2. {i \in DOMAIN s : s[i] \in S} = {}
  BY <1>1
<1>3. Cardinality({i \in DOMAIN s : s[i] \in S}) = 0
  BY <1>2, FS_EmptySet
<1>4. Len(s) \in Nat
  BY DEF View
<1>5. QED BY <1>3, <1>4 DEF majority

\* What the loop of remove_wo has kept of s after i rounds, where g tells
\* what it had kept after fewer.
Keep(g, s, m, i) ==
    IF i = 0 THEN <<>> ELSE IF s[i] # m THEN Append(g[i - 1], s[i]) ELSE g[i - 1]

Keeps(g, s, m, k) == g = [i \in 0 .. k |-> Keep(g, s, m, i)]

LEMMA KeepsExtends ==
  ASSUME NEW s, NEW m, NEW k \in Nat \ {0}, NEW g, Keeps(g, s, m, k - 1)
  PROVE  \E h : Keeps(h, s, m, k)
<1> DEFINE h == [i \in 0 .. k |-> IF i < k THEN g[i] ELSE Keep(g, s, m, k)]
<1>1. ASSUME NEW i \in 0 .. k PROVE h[i] = Keep(h, s, m, i)
  <2>1. Keep(h, s, m, i) = Keep(g, s, m, i)
    <3>1. CASE i = 0
      BY <3>1 DEF Keep
    <3>2. CASE i # 0
      <4>1. i - 1 \in 0 .. k /\ i - 1 < k
        BY <3>2
      <4>2. h[i - 1] = g[i - 1]
        BY <4>1
      <4>3. QED BY <4>2 DEF Keep
    <3>3. QED BY <3>1, <3>2
  <2>2. CASE i < k
    <3>1. i \in 0 .. k - 1
      BY <2>2
    <3>2. g[i] = Keep(g, s, m, i)
      BY <3>1 DEF Keeps
    <3>3. QED BY <2>1, <2>2, <3>2
  <2>3. CASE i = k
    BY <2>1, <2>3
  <2>4. QED BY <2>2, <2>3
<1>2. h = [i \in 0 .. k |-> Keep(h, s, m, i)]
  <2>1. h = [i \in 0 .. k |-> h[i]]
    OBVIOUS
  <2> HIDE DEF h
  <2>2. QED BY <1>1, <2>1
<1>3. Keeps(h, s, m, k)
  BY <1>2 DEF Keeps
<1>4. QED BY <1>3

LEMMA KeepsExists ==
  ASSUME NEW s, NEW m, NEW l \in Nat
  PROVE  \E g : Keeps(g, s, m, l)
<1> DEFINE Bad == {k \in Nat : ~\E g : Keeps(g, s, m, k)}
<1>1. SUFFICES ASSUME Bad # {} PROVE FALSE
  OBVIOUS
<1>2. PICK k \in Bad : \A y \in Bad : k <= y
  BY <1>1, MinIsMember
<1>3. CASE k = 0
  <2> DEFINE g == [i \in 0 .. 0 |-> <<>>]
  <2>1. \A i \in 0 .. 0 : Keep(g, s, m, i) = <<>>
    BY DEF Keep
  <2>2. Keeps(g, s, m, 0)
    BY <2>1 DEF Keeps
  <2>3. QED BY <1>2, <1>3, <2>2
<1>4. CASE k # 0
  <2>1. k - 1 \in Nat /\ k \in Nat \ {0} /\ ~ (k <= k - 1)
    BY <1>4
  <2>2. k - 1 \notin Bad
    BY <1>2, <2>1
  <2>3. PICK g : Keeps(g, s, m, k - 1)
    BY <2>1, <2>2
  <2>4. QED BY <2>1, <2>3, KeepsExtends
<1>5. QED BY <1>3, <1>4

\* config::remove_wo leaves out a member and brings in none.
LEMMA WithoutIsView ==
  ASSUME NEW s \in View, NEW m
  PROVE  without(s, m) \in View
<1>1. Len(s) \in Nat /\ \A i \in 1 .. Len(s) : s[i] \in Node
  BY DEF View
<1>2. \E g : Keeps(g, s, m, Len(s))
  BY <1>1, KeepsExists
<1> DEFINE n == CHOOSE g : g = [i \in 0 .. Len(s) |->
                    IF i = 0 THEN <<>>
                    ELSE IF s[i] # m THEN Append(g[i - 1], s[i]) ELSE g[i - 1]]
<1>3. Keeps(n, s, m, Len(s))
  BY <1>2, Zenon DEF Keeps, Keep
<1>4. without(s, m) = n[Len(s)]
  BY DEF without
<1> HIDE DEF n
<1>5. ASSUME NEW i \in 0 .. Len(s) PROVE n[i] = Keep(n, s, m, i)
  BY <1>3, <1>5 DEF Keeps
<1> DEFINE Bad == {i \in 0 .. Len(s) : n[i] \notin View}
<1>6. ASSUME Bad # {} PROVE FALSE
  <2>0. Bad \subseteq Nat
    BY <1>1
  <2>1. PICK i \in Bad : \A y \in Bad : i <= y
    <3> HIDE DEF Bad
    <3>1. QED BY <1>6, <2>0, MinIsMember, Zenon
  <2>2. i \in 0 .. Len(s) /\ n[i] \notin View
    BY <2>1
  <2>3. i # 0
    <3>1. CASE i = 0
      <4>1. n[i] = <<>>
        BY <1>5, <2>2, <3>1 DEF Keep
      <4>2. <<>> \in View
        BY DEF View
      <4>3. QED BY ONLY <2>2, <4>1, <4>2
    <3>2. QED BY <3>1
  <2>4. i - 1 \in 0 .. Len(s) /\ i \in 1 .. Len(s) /\ ~ (i <= i - 1)
    BY <1>1, <2>2, <2>3
  <2>5. n[i - 1] \in View
    BY <2>1, <2>4
  <2>6. n[i] = Append(n[i - 1], s[i]) \/ n[i] = n[i - 1]
    BY <1>5, <2>2, <2>3 DEF Keep
  <2>7. Append(n[i - 1], s[i]) \in View
    BY <1>1, <2>4, <2>5 DEF View
  <2>8. QED BY <2>2, <2>5, <2>6, <2>7
<1>7. Len(s) \in 0 .. Len(s)
  BY <1>1
<1>8. QED BY <1>4, <1>6, <1>7
-----------------------------------------------------------------------------
(* Types                                                                   *)

AcceptorTypes ==
    /\ instance_h \in [Node -> 0 .. MaxView]
    /\ values \in [Node -> [Instance -> View]]
    /\ logged \in [Node -> SUBSET Instance]
    /\ vote \in [Node -> [b : 0 .. MaxRounds, v : View]]

ConfigTypes ==
    /\ up \in [Node -> BOOLEAN] /\ stuck \in [Node -> BOOLEAN]
    /\ myvid \in [Node -> 0 .. MaxView] /\ mems \in [Node -> View]
    /\ primary \in [Node -> Node]

RecTypes == rec \in [Node -> [pc : {"check", "call", "wait"}, m : Node \cup {NULL}]]
HbTypes == hb \in [Node -> [pc : {"idle", "remove", "decide", "upcall"}, m : Node \cup {NULL}]]

\* A joinreq that is under way has a caller.
JrTypes ==
    /\ jr \in [Node -> [pc : {"idle", "add", "decide", "upcall"}, m : Node \cup {NULL}]]
    /\ \A n \in Node : jr[n].pc # "idle" => jr[n].m \in Node

Upcall == [i : Instance, v : View, by : {"decide", "hb", "jr"}]

UpcallTypes == upcalls \in [Node -> SUBSET Upcall]
ChangeTypes == changes \in [Node -> SUBSET Upcall]
DecideTypes == \A d \in decides : d.to \in Node /\ d.i \in Instance /\ d.v \in View

CountTypes ==
    rounds \in 0 .. MaxRounds /\ starts \in [Node -> 0 .. MaxStarts] /\ faults \in 0 .. MaxFaults

TypeInv ==
    /\ AcceptorTypes /\ ConfigTypes /\ RecTypes /\ HbTypes /\ JrTypes
    /\ UpcallTypes /\ ChangeTypes /\ DecideTypes /\ CountTypes

LEMMA TypeInvTypes == TypeInv => TypeOK
<1> SUFFICES ASSUME TypeInv PROVE TypeOK
  OBVIOUS
<1>1. \A n \in Node : \A u \in upcalls[n] \cup changes[n] :
        u.i \in Instance /\ u.v \in View /\ u.by \in {"decide", "hb", "jr"}
  <2>1. UpcallTypes /\ ChangeTypes
    BY DEF TypeInv
  <2>2. ASSUME NEW n \in Node PROVE upcalls[n] \cup changes[n] \subseteq Upcall
    BY <2>1 DEF UpcallTypes, ChangeTypes
  <2>3. \A u \in Upcall : u.i \in Instance /\ u.v \in View /\ u.by \in {"decide", "hb", "jr"}
    BY DEF Upcall
  <2>4. QED BY <2>2, <2>3
<1>2. QED BY <1>1 DEF TypeInv, TypeOK, AcceptorTypes, ConfigTypes, RecTypes, HbTypes, JrTypes,
                  DecideTypes, CountTypes

LEMMA InitTypes == Init => TypeInv
<1> SUFFICES ASSUME Init PROVE TypeInv
  OBVIOUS
<1>1. <<>> \in View /\ First \in Node
  BY DEF View
<1>2. AcceptorTypes
  BY <1>1 DEF Init, AcceptorTypes, NoVote, Instance
<1>3. ConfigTypes /\ CountTypes
  BY <1>1 DEF Init, ConfigTypes, CountTypes
<1>4. RecTypes /\ HbTypes /\ JrTypes
  BY DEF Init, RecTypes, HbTypes, JrTypes, Idle
<1>5. UpcallTypes /\ ChangeTypes /\ DecideTypes
  BY DEF Init, UpcallTypes, ChangeTypes, DecideTypes
<1>6. QED BY <1>2, <1>3, <1>4, <1>5 DEF TypeInv

LEMMA MemsIsView ==
  ASSUME AcceptorTypes, ConfigTypes, NEW n \in Node
  PROVE  mems[n] \in View /\ curview(n) \in View
<1>1. CASE myvid[n] = 0
  BY <1>1 DEF ConfigTypes, curview, View
<1>2. CASE myvid[n] # 0
  <2>1. myvid[n] \in Instance
    BY <1>2 DEF ConfigTypes, Instance
  <2>2. QED BY <1>2, <2>1 DEF ConfigTypes, curview, AcceptorTypes
<1>3. QED BY <1>1, <1>2

\* rsm::set_primary: who becomes primary is a node.
LEMMA PrimaryIsNode ==
  ASSUME AcceptorTypes, ConfigTypes, NEW n \in Node, set_primary(n) # NULL
  PROVE  set_primary(n) \in Node
<1>1. CASE isamember(primary[n], curview(n)) /\ curview(n) # <<>>
  <2>1. set_primary(n) = primary[n]
    BY <1>1 DEF set_primary
  <2>2. QED BY <2>1 DEF ConfigTypes
<1>2. CASE ~isamember(primary[n], curview(n)) /\ curview(n) # <<>>
  <2> DEFINE p == IF myvid[n] > 1 THEN values[n][myvid[n] - 1] ELSE <<>>
             rest == {i \in DOMAIN p : isamember(p[i], curview(n))}
  <2>1. p \in View
    <3>1. CASE myvid[n] > 1
      <4>1. myvid[n] - 1 \in Instance
        BY <3>1 DEF ConfigTypes, Instance
      <4>2. QED BY <3>1, <4>1 DEF AcceptorTypes
    <3>2. CASE ~ (myvid[n] > 1)
      BY <3>2 DEF View
    <3>3. QED BY <3>1, <3>2
  <2>2. set_primary(n) = IF rest # {} THEN p[Min(rest)] ELSE NULL
    BY <1>2 DEF set_primary
  <2>3. rest # {}
    BY <2>2
  <2> HIDE DEF p
  <2>4. DOMAIN p \subseteq Nat /\ \A i \in DOMAIN p : p[i] \in Node
    BY <2>1 DEF View
  <2>5. rest \subseteq Nat /\ rest \subseteq DOMAIN p
    BY <2>4
  <2> HIDE DEF rest
  <2>6. Min(rest) \in rest
    BY <2>3, <2>5, MinIsMember
  <2>7. QED BY <2>2, <2>3, <2>4, <2>5, <2>6
<1>3. CASE curview(n) = <<>>
  BY <1>3 DEF set_primary
<1>4. QED BY <1>1, <1>2, <1>3
-----------------------------------------------------------------------------
(* The types of a round of Paxos                                           *)

LEMMA CommitTypes ==
  ASSUME AcceptorTypes, UpcallTypes, NEW n \in Node, NEW i \in Instance, NEW v \in View,
         NEW by \in {"decide", "hb", "jr"}, commit(n, i, v, by)
  PROVE  AcceptorTypes' /\ UpcallTypes'
<1>1. i \in 0 .. MaxView /\ NoVote \in [b : 0 .. MaxRounds, v : View]
  BY DEF Instance, NoVote, View
<1>2. instance_h' \in [Node -> 0 .. MaxView]
  BY <1>1 DEF commit, AcceptorTypes
<1>3. values' \in [Node -> [Instance -> View]]
  BY DEF commit, AcceptorTypes
<1>4. logged' \in [Node -> SUBSET Instance]
  BY DEF commit, loginstance, AcceptorTypes
<1>5. vote' \in [Node -> [b : 0 .. MaxRounds, v : View]]
  BY <1>1 DEF commit, AcceptorTypes
<1>6. UpcallTypes'
  <2>1. [i |-> i, v |-> v, by |-> by] \in Upcall
    BY DEF Upcall
  <2>2. QED BY <2>1 DEF commit, UpcallTypes
<1>7. QED BY <1>2, <1>3, <1>4, <1>5, <1>6 DEF AcceptorTypes

\* Of finitely many answers to prepare, one has the highest vote.
LEMMA HighestVote ==
  ASSUME AcceptorTypes, NEW R, R \subseteq Node, R # {}
  PROVE  \E q \in R : \A r \in R : vote[r].b <= vote[q].b
<1> DEFINE T == {MaxRounds - vote[r].b : r \in R}
<1>1. \A r \in R : vote[r].b \in 0 .. MaxRounds
  BY DEF AcceptorTypes
<1>2. T \subseteq Nat /\ T # {}
  <2>1. PICK q : q \in R
    OBVIOUS
  <2>2. MaxRounds - vote[q].b \in T
    BY <2>1
  <2>3. \A r \in R : MaxRounds - vote[r].b \in Nat
    BY <1>1
  <2>4. QED BY <2>2, <2>3
<1>3. Min(T) \in T /\ \A y \in T : Min(T) <= y
  <2> HIDE DEF T
  <2>1. QED BY <1>2, MinIsMember
<1>4. PICK q \in R : Min(T) = MaxRounds - vote[q].b
  BY <1>3
<1>5. ASSUME NEW r \in R PROVE vote[r].b <= vote[q].b
  <2>1. MaxRounds - vote[q].b <= MaxRounds - vote[r].b
    BY <1>3, <1>4
  <2>2. QED BY <1>1, <2>1
<1>6. QED BY <1>5

LEMMA AcceptsTypes ==
  ASSUME AcceptorTypes, ConfigTypes, DecideTypes, CountTypes, rounds < MaxRounds,
         NEW n \in Node, NEW i \in Instance, NEW v \in View,
         NEW R, R \subseteq Node, R # {}, NEW A, A \subseteq R, Accepts(n, i, v, R, A)
  PROVE  AcceptorTypes' /\ DecideTypes' /\ rounds' \in 0 .. MaxRounds
<1>1. PICK high \in R : /\ \A r \in R : vote[r].b <= vote[high].b
                        /\ high = CHOOSE q \in R : \A r \in R : vote[r].b <= vote[q].b
  BY HighestVote
<1>2. PICK w : /\ w = IF vote[high].v = <<>> THEN v ELSE vote[high].v
               /\ logprop(A, rounds + 1, w)
               /\ decides' = IF majority(A, mems[n])
                             THEN decides \cup [from : {n}, to : A, i : {i}, v : {w}] ELSE decides
  BY <1>1 DEF Accepts
<1>3. w \in View
  BY <1>2 DEF AcceptorTypes
<1>4. rounds' = rounds + 1 /\ rounds' \in 0 .. MaxRounds
  BY DEF Accepts, CountTypes
<1>5. UNCHANGED <<instance_h, values, logged>>
  BY DEF Accepts
<1>6. vote' \in [Node -> [b : 0 .. MaxRounds, v : View]]
  BY <1>2, <1>3, <1>4 DEF logprop, AcceptorTypes
<1>7. DecideTypes'
  <2>1. A \subseteq Node
    OBVIOUS
  <2>2. \A d \in [from : {n}, to : A, i : {i}, v : {w}] :
          d.to \in Node /\ d.i \in Instance /\ d.v \in View
    BY <1>3, <2>1
  <2>3. QED BY <1>2, <2>2 DEF DecideTypes
<1>8. QED BY <1>4, <1>5, <1>6, <1>7 DEF AcceptorTypes

\* proposer::run keeps the types of what it writes, whatever its caller does
\* then.
LEMMA RunTypes ==
  ASSUME AcceptorTypes, ConfigTypes, UpcallTypes, DecideTypes, CountTypes,
         NEW n \in Node, NEW v \in View, NEW by \in {"hb", "jr"},
         run(n, v, by, TRUE, TRUE, TRUE)
  PROVE  AcceptorTypes' /\ UpcallTypes' /\ DecideTypes' /\ rounds' \in 0 .. MaxRounds
<1>0. PICK i : i = myvid[n] + 1
  OBVIOUS
<1>1. CASE UNCHANGED <<acceptorVars, decides, rounds, upcalls>>
  BY <1>1 DEF acceptorVars, AcceptorTypes, UpcallTypes, DecideTypes, CountTypes
<1>2. CASE i <= MaxView /\ OldInstance(n, i, by) /\ UNCHANGED <<decides, rounds>>
  <2>1. i \in Instance
    BY <1>0, <1>2 DEF ConfigTypes, Instance
  <2>2. PICK q \in Range(mems[n]) : commit(n, i, values[q][i], by)
    BY <1>2 DEF OldInstance
  <2>3. q \in Node
    BY MemsIsView, MembersAreNodes
  <2>4. values[q][i] \in View
    BY <2>1, <2>3 DEF AcceptorTypes
  <2>5. AcceptorTypes' /\ UpcallTypes'
    BY <2>1, <2>2, <2>4, CommitTypes
  <2>6. DecideTypes' /\ rounds' \in 0 .. MaxRounds
    BY <1>2 DEF DecideTypes, CountTypes
  <2>7. QED BY <1>2, <2>5, <2>6
<1>3. CASE /\ i <= MaxView /\ rounds < MaxRounds
           /\ \E R \in SUBSET Answering(n, i) : \E A \in SUBSET R \ {{}} :
                /\ majority(R, mems[n])
                /\ Accepts(n, i, v, R, A)
           /\ UNCHANGED upcalls
  <2>1. i \in Instance
    BY <1>0, <1>3 DEF ConfigTypes, Instance
  <2>2. PICK R, A : /\ R \subseteq Answering(n, i) /\ A \subseteq R
                    /\ majority(R, mems[n]) /\ Accepts(n, i, v, R, A)
        BY <1>3
  <2>3. R \subseteq Node /\ R # {}
    BY <2>2, MemsIsView, MembersAreNodes, MajorityIsSomebody DEF Answering
  <2>4. AcceptorTypes' /\ DecideTypes' /\ rounds' \in 0 .. MaxRounds
    BY <1>3, <2>1, <2>2, <2>3, AcceptsTypes
  <2>5. QED BY <1>3, <2>2, <2>4 DEF UpcallTypes
<1>4. QED BY <1>0, <1>1, <1>2, <1>3, Zenon DEF run
-----------------------------------------------------------------------------
(* The types of every step                                                 *)

\* config takes its view from what the acceptor holds after the step.
LEMMA ReconstructTypes ==
  ASSUME AcceptorTypes', ConfigTypes, NEW n \in Node, reconstruct(n)
  PROVE  myvid' \in [Node -> 0 .. MaxView] /\ mems' \in [Node -> View]
<1>1. instance_h'[n] \in 0 .. MaxView
  BY DEF AcceptorTypes
<1>2. CASE instance_h'[n] > 0
  <2>1. instance_h'[n] \in Instance
    BY <1>1, <1>2 DEF Instance
  <2>2. values'[n][instance_h'[n]] \in View
    BY <2>1 DEF AcceptorTypes
  <2>3. QED BY <1>1, <1>2, <2>2 DEF reconstruct, ConfigTypes
<1>3. CASE ~ (instance_h'[n] > 0)
  BY <1>3 DEF reconstruct, ConfigTypes
<1>4. QED BY <1>2, <1>3

LEMMA StartTypes ==
  ASSUME TypeInv, NEW n \in Node, Start(n)
  PROVE  TypeInv'
<1>1. /\ AcceptorTypes /\ ConfigTypes /\ RecTypes /\ HbTypes /\ JrTypes
      /\ UpcallTypes /\ ChangeTypes /\ DecideTypes /\ CountTypes
  BY DEF TypeInv
<1>2. 1 \in Instance /\ <<n>> \in View /\ <<>> \in View
  BY DEF Instance, View
<1>3. AcceptorTypes'
  <2>1. instance_h' \in [Node -> 0 .. MaxView]
    BY <1>1, <1>2 DEF Start, AcceptorTypes
  <2>2. logged' \in [Node -> SUBSET Instance]
    BY <1>1, <1>2 DEF Start, AcceptorTypes
  <2>3. values' \in [Node -> [Instance -> View]]
    <3> DEFINE fresh == instance_h[n] = 0 /\ n = First
               new == [i \in Instance |->
              CASE i = 1 /\ fresh -> <<n>> [] i \in logged[n] -> values[n][i] [] OTHER -> <<>>]
    <3>2. values' = [values EXCEPT ![n] = new]
      BY <1>1 DEF Start, AcceptorTypes
    <3>3. new \in [Instance -> View]
      BY <1>1, <1>2 DEF AcceptorTypes
    <3> HIDE DEF new
    <3>4. QED BY <1>1, <3>2, <3>3 DEF AcceptorTypes
  <2>4. QED BY <1>1, <2>1, <2>2, <2>3 DEF AcceptorTypes, Start
<1>4. ConfigTypes'
  <2>1. reconstruct(n)
    BY DEF Start
  <2>2. myvid' \in [Node -> 0 .. MaxView] /\ mems' \in [Node -> View]
    BY <1>1, <1>3, <2>1, ReconstructTypes
  <2>3. QED BY <1>1, <2>2 DEF Start, ConfigTypes
<1>5. RecTypes'
  BY <1>1 DEF Start, RecTypes
<1>6. CountTypes'
  BY <1>1 DEF Start, CountTypes
<1>7. HbTypes' /\ JrTypes' /\ UpcallTypes' /\ ChangeTypes' /\ DecideTypes'
  BY <1>1 DEF Start, HbTypes, JrTypes, UpcallTypes, ChangeTypes, DecideTypes
<1>8. QED BY <1>3, <1>4, <1>5, <1>6, <1>7 DEF TypeInv

\* What Forget leaves of a process.
LEMMA ForgetTypes ==
  ASSUME TypeInv, NEW n \in Node, Forget(n), UNCHANGED acceptorVars, CountTypes'
  PROVE  TypeInv'
<1>1. /\ AcceptorTypes /\ ConfigTypes /\ RecTypes /\ HbTypes /\ JrTypes
      /\ UpcallTypes /\ ChangeTypes /\ DecideTypes
  BY DEF TypeInv
<1>2. AcceptorTypes'
  BY <1>1 DEF acceptorVars, AcceptorTypes
<1>3. ConfigTypes'
  <2>1. <<>> \in View
    BY DEF View
  <2>2. mems' \in [Node -> View]
    BY <1>1, <2>1 DEF Forget, ConfigTypes
  <2>3. QED BY <1>1, <2>2 DEF Forget, ConfigTypes
<1>4. RecTypes'
  BY <1>1 DEF Forget, RecTypes
<1>5. HbTypes'
  BY <1>1 DEF Forget, HbTypes, Idle
<1>6. JrTypes'
  BY <1>1 DEF Forget, JrTypes, Idle
<1>7. UpcallTypes' /\ ChangeTypes'
  BY <1>1 DEF Forget, UpcallTypes, ChangeTypes
<1>8. DecideTypes'
  BY <1>1 DEF Forget, EndRun, DecideTypes
<1>9. QED BY <1>2, <1>3, <1>4, <1>5, <1>6, <1>7, <1>8 DEF TypeInv

LEMMA UpcallStepTypes ==
  ASSUME TypeInv, NEW n \in Node, NEW u \in upcalls[n], paxos_commit(n, u)
  PROVE  TypeInv'
<1>1. /\ AcceptorTypes /\ ConfigTypes /\ RecTypes /\ HbTypes /\ JrTypes
      /\ UpcallTypes /\ ChangeTypes /\ DecideTypes /\ CountTypes
  BY DEF TypeInv
<1>2. u \in Upcall /\ u.i \in 0 .. MaxView /\ u.v \in View
  BY <1>1 DEF UpcallTypes, Upcall, Instance
<1>3. UpcallTypes' /\ ChangeTypes'
  BY <1>1, <1>2 DEF paxos_commit, UpcallTypes, ChangeTypes
<1>4. ConfigTypes'
  BY <1>1, <1>2 DEF paxos_commit, ConfigTypes
<1>5. AcceptorTypes' /\ RecTypes' /\ HbTypes' /\ JrTypes' /\ DecideTypes' /\ CountTypes'
  BY <1>1 DEF paxos_commit, acceptorVars, countVars, AcceptorTypes, RecTypes, HbTypes, JrTypes,
              DecideTypes, CountTypes
<1>6. QED BY <1>3, <1>4, <1>5 DEF TypeInv

LEMMA ChangeStepTypes ==
  ASSUME TypeInv, NEW n \in Node, NEW u, commit_change(n, u)
  PROVE  TypeInv'
<1>1. /\ AcceptorTypes /\ ConfigTypes /\ RecTypes /\ HbTypes /\ JrTypes
      /\ UpcallTypes /\ ChangeTypes /\ DecideTypes /\ CountTypes
  BY DEF TypeInv
<1>2. UNCHANGED <<acceptorVars, countVars>> /\ CountTypes'
  BY <1>1 DEF commit_change, countVars, CountTypes
<1>3. CASE Forget(n)
  BY <1>2, <1>3, ForgetTypes
<1>4. CASE set_primary(n) # NULL /\ Changed(n, u)
  <2>1. set_primary(n) \in Node
    BY <1>1, <1>4, PrimaryIsNode
  <2>2. ConfigTypes'
    <3>1. PICK p \in Node : primary' = [primary EXCEPT ![n] = p]
      BY <1>4, <2>1 DEF Changed
    <3>2. QED BY <1>1, <1>4, <3>1 DEF Changed, ConfigTypes
  <2>3. RecTypes'
    BY <1>1, <1>4 DEF Changed, Wake, RecTypes
  <2>4. HbTypes'
    BY <1>1, <1>4 DEF Changed, HbTypes, Idle
  <2>5. ChangeTypes'
    BY <1>1, <1>4 DEF Changed, ChangeTypes
  <2>6. JrTypes' /\ UpcallTypes' /\ DecideTypes' /\ AcceptorTypes'
    BY <1>1, <1>2, <1>4 DEF Changed, JrTypes, UpcallTypes, DecideTypes, AcceptorTypes, acceptorVars
  <2>7. QED BY <1>2, <2>2, <2>3, <2>4, <2>5, <2>6 DEF TypeInv
<1>5. QED BY <1>3, <1>4 DEF commit_change

LEMMA DecideStepTypes ==
  ASSUME TypeInv, NEW d \in decides, decidereq(d)
  PROVE  TypeInv'
<1>1. /\ AcceptorTypes /\ ConfigTypes /\ RecTypes /\ HbTypes /\ JrTypes
      /\ UpcallTypes /\ ChangeTypes /\ DecideTypes /\ CountTypes
  BY DEF TypeInv
<1>2. d.to \in Node /\ d.i \in Instance /\ d.v \in View
  BY <1>1 DEF DecideTypes
<1>3. AcceptorTypes' /\ UpcallTypes'
  <2>1. CASE commit(d.to, d.i, d.v, "decide")
    BY <1>1, <1>2, <2>1, CommitTypes
  <2>2. CASE UNCHANGED <<acceptorVars, upcalls>>
    BY <1>1, <2>2 DEF acceptorVars, AcceptorTypes, UpcallTypes
  <2>3. QED BY <2>1, <2>2 DEF decidereq
<1>4. DecideTypes'
  BY <1>1 DEF decidereq, DecideTypes
<1>5. ConfigTypes' /\ RecTypes' /\ HbTypes' /\ JrTypes' /\ ChangeTypes' /\ CountTypes'
  BY <1>1 DEF decidereq, countVars, ConfigTypes, RecTypes, HbTypes, JrTypes, ChangeTypes, CountTypes
<1>6. QED BY <1>3, <1>4, <1>5 DEF TypeInv

LEMMA HeartbeatTypes ==
  ASSUME TypeInv, NEW n \in Node, heartbeater(n)
  PROVE  TypeInv'
<1>1. /\ AcceptorTypes /\ ConfigTypes /\ RecTypes /\ HbTypes /\ JrTypes
      /\ UpcallTypes /\ ChangeTypes /\ DecideTypes /\ CountTypes
  BY DEF TypeInv
<1>2. Range(mems[n]) \subseteq Node /\ n \in Range(mems[n])
  BY <1>1, MemsIsView, MembersAreNodes DEF heartbeater, isamember
<1>3. Min(Range(mems[n])) \in Node
  <2>1. Range(mems[n]) \subseteq Nat /\ Range(mems[n]) # {}
    BY <1>2
  <2>2. QED BY <1>2, <2>1, MinIsMember
<1>4. PICK m \in Node : Suspect(n, m) /\ (stuck' = stuck \/ stuck' = [stuck EXCEPT ![m] = TRUE])
  BY <1>2, <1>3 DEF heartbeater
<1>5. HbTypes'
  BY <1>1, <1>4 DEF Suspect, HbTypes
<1>6. ConfigTypes'
  BY <1>1, <1>4 DEF heartbeater, ConfigTypes
<1>7. CountTypes'
  BY <1>1 DEF heartbeater, CountTypes
<1>8. AcceptorTypes' /\ RecTypes' /\ JrTypes' /\ UpcallTypes' /\ ChangeTypes' /\ DecideTypes'
  <2>1. UNCHANGED <<acceptorVars, rec, jr, upcalls, changes, decides>>
    BY DEF heartbeater
  <2>2. QED BY <1>1, <2>1 DEF acceptorVars, AcceptorTypes, RecTypes, JrTypes, UpcallTypes,
                              ChangeTypes, DecideTypes
<1>9. QED BY <1>5, <1>6, <1>7, <1>8 DEF TypeInv

LEMMA RemoveTypes ==
  ASSUME TypeInv, NEW n \in Node, remove_wo(n) \/ RemoveDone(n)
  PROVE  TypeInv'
<1>1. /\ AcceptorTypes /\ ConfigTypes /\ RecTypes /\ HbTypes /\ JrTypes
      /\ UpcallTypes /\ ChangeTypes /\ DecideTypes /\ CountTypes
  BY DEF TypeInv
<1>2. UNCHANGED <<up, myvid, mems, stuck, primary, rec, jr, changes, starts, faults>>
  BY DEF remove_wo, RemoveDone, countVars
<1>3. ConfigTypes' /\ RecTypes' /\ JrTypes' /\ ChangeTypes'
  BY <1>1, <1>2 DEF ConfigTypes, RecTypes, JrTypes, ChangeTypes
<1>4. HbTypes'
  <2>1. SetHb(n, "idle") \/ SetHb(n, "decide") \/ SetHb(n, "upcall")
    BY DEF remove_wo, RemoveDone, run
  <2>2. QED BY <1>1, <2>1 DEF SetHb, HbTypes
<1>5. AcceptorTypes' /\ UpcallTypes' /\ DecideTypes' /\ rounds' \in 0 .. MaxRounds
  <2>1. CASE remove_wo(n)
    <3>1. PICK v : v = without(mems[n], hb[n].m)
      OBVIOUS
    <3>2. v \in View
      BY <1>1, <3>1, MemsIsView, WithoutIsView
    <3>3. run(n, v, "hb", TRUE, TRUE, TRUE)
      BY <2>1, <3>1 DEF remove_wo, run
    <3>4. QED BY <1>1, <3>2, <3>3, RunTypes
  <2>2. CASE RemoveDone(n)
    BY <1>1, <2>2 DEF RemoveDone, EndRun, acceptorVars, countVars, AcceptorTypes, UpcallTypes,
                      DecideTypes, CountTypes
  <2>3. QED BY <2>1, <2>2
<1>6. CountTypes'
  BY <1>1, <1>2, <1>5 DEF CountTypes
<1>7. QED BY <1>3, <1>4, <1>5, <1>6 DEF TypeInv

LEMMA RecoveryTypes ==
  ASSUME TypeInv, NEW n \in Node, NEW p \in Node, recovery(n) \/ JoinFails(n, p)
  PROVE  TypeInv'
<1>1. /\ AcceptorTypes /\ ConfigTypes /\ RecTypes /\ HbTypes /\ JrTypes
      /\ UpcallTypes /\ ChangeTypes /\ DecideTypes /\ CountTypes
  BY DEF TypeInv
<1>2. UNCHANGED <<up, acceptorVars, myvid, mems, stuck, primary, hb, jr, upcalls, changes, decides, countVars>>
  BY DEF recovery, JoinFails
<1>3. RecTypes'
  <2>1. primary[n] \in Node
    BY <1>1 DEF ConfigTypes
  <2>2. PICK r \in [pc : {"check", "call", "wait"}, m : Node \cup {NULL}] : rec' = [rec EXCEPT ![n] = r]
    BY <2>1 DEF recovery, JoinFails, JoinReturns
  <2>3. QED BY <1>1, <2>2 DEF RecTypes
<1>4. AcceptorTypes' /\ ConfigTypes' /\ CountTypes'
  BY <1>1, <1>2 DEF acceptorVars, countVars, AcceptorTypes, ConfigTypes, CountTypes
<1>5. HbTypes' /\ JrTypes' /\ UpcallTypes' /\ ChangeTypes' /\ DecideTypes'
  BY <1>1, <1>2 DEF HbTypes, JrTypes, UpcallTypes, ChangeTypes, DecideTypes
<1>6. QED BY <1>3, <1>4, <1>5 DEF TypeInv

\* The joining node takes over what the other's log holds.
LEMMA RestoreTypes ==
  ASSUME TypeInv, NEW n \in Node, NEW p \in Node, restore(n, p), UNCHANGED <<up, stuck, primary>>
  PROVE  AcceptorTypes' /\ ConfigTypes' /\ RecTypes'
<1>1. AcceptorTypes /\ ConfigTypes /\ RecTypes
  BY DEF TypeInv
<1>2. AcceptorTypes'
  <2>1. instance_h' \in [Node -> 0 .. MaxView] /\ logged' \in [Node -> SUBSET Instance]
    BY <1>1 DEF restore, logread, AcceptorTypes
  <2>2. vote' \in [Node -> [b : 0 .. MaxRounds, v : View]]
    BY <1>1 DEF restore, logread, AcceptorTypes
  <2>3. values' \in [Node -> [Instance -> View]]
    <3> DEFINE new == [i \in Instance |-> IF i \in logged[p] THEN values[p][i] ELSE values[n][i]]
    <3>1. values' = [values EXCEPT ![n] = new]
      BY <1>1 DEF restore, logread, AcceptorTypes
    <3>2. new \in [Instance -> View]
      BY <1>1 DEF AcceptorTypes
    <3> HIDE DEF new
    <3>3. QED BY <1>1, <3>1, <3>2 DEF AcceptorTypes
  <2>4. QED BY <2>1, <2>2, <2>3 DEF AcceptorTypes
<1>3. ConfigTypes'
  <2>1. myvid' \in [Node -> 0 .. MaxView] /\ mems' \in [Node -> View]
    BY <1>1, <1>2, ReconstructTypes DEF restore
  <2>2. QED BY <1>1, <2>1 DEF ConfigTypes
<1>4. RecTypes'
  BY <1>1 DEF restore, JoinReturns, RecTypes
<1>5. QED BY <1>2, <1>3, <1>4

LEMMA JoinreqTypes ==
  ASSUME TypeInv, NEW n \in Node, NEW p \in Node, joinreq(n, p)
  PROVE  TypeInv'
<1>1. /\ AcceptorTypes /\ ConfigTypes /\ RecTypes /\ HbTypes /\ JrTypes
      /\ UpcallTypes /\ ChangeTypes /\ DecideTypes /\ CountTypes
  BY DEF TypeInv
<1>2. UNCHANGED <<up, stuck, primary, hb, upcalls, changes, decides, countVars>>
  BY DEF joinreq
<1>3. HbTypes' /\ UpcallTypes' /\ ChangeTypes' /\ DecideTypes' /\ CountTypes'
  BY <1>1, <1>2 DEF countVars, HbTypes, UpcallTypes, ChangeTypes, DecideTypes, CountTypes
<1>4. JrTypes'
  BY <1>1 DEF joinreq, JrTypes
<1>5. AcceptorTypes' /\ ConfigTypes' /\ RecTypes'
  <2>1. CASE restore(n, p)
    BY <1>2, <2>1, RestoreTypes
  <2>2. CASE UNCHANGED <<acceptorVars, myvid, mems>> /\ (JoinReturns(n) \/ UNCHANGED rec)
    <3>1. AcceptorTypes' /\ ConfigTypes'
      BY <1>1, <1>2, <2>2 DEF acceptorVars, AcceptorTypes, ConfigTypes
    <3>2. RecTypes'
      BY <1>1, <2>2 DEF JoinReturns, RecTypes
    <3>3. QED BY <3>1, <3>2
  <2>3. QED BY <2>1, <2>2 DEF joinreq
<1>6. QED BY <1>3, <1>4, <1>5 DEF TypeInv

LEMMA AddTypes ==
  ASSUME TypeInv, NEW p \in Node, add(p)
  PROVE  TypeInv'
<1>1. /\ AcceptorTypes /\ ConfigTypes /\ RecTypes /\ HbTypes /\ JrTypes
      /\ UpcallTypes /\ ChangeTypes /\ DecideTypes /\ CountTypes
  BY DEF TypeInv
<1>2. UNCHANGED <<up, myvid, mems, stuck, primary, hb, changes, starts, faults>> /\ jr[p].m \in Node
  BY <1>1 DEF add, JrTypes
<1>3. ConfigTypes' /\ HbTypes' /\ ChangeTypes'
  BY <1>1, <1>2 DEF ConfigTypes, HbTypes, ChangeTypes
<1>4. JrTypes' /\ RecTypes'
  <2>1. SetJr(p, "decide") \/ SetJr(p, "upcall") \/ JoinErr(p)
    BY DEF add, run
  <2>2. CASE SetJr(p, "decide") \/ SetJr(p, "upcall")
    BY <1>1, <1>2, <2>2 DEF SetJr, JrTypes, RecTypes
  <2>3. CASE JoinErr(p)
    BY <1>1, <2>3 DEF JoinErr, JoinReturns, Idle, JrTypes, RecTypes
  <2>4. QED BY <2>1, <2>2, <2>3
<1>5. AcceptorTypes' /\ UpcallTypes' /\ DecideTypes' /\ rounds' \in 0 .. MaxRounds
  <2>1. PICK v : v = Append(mems[p], jr[p].m)
    OBVIOUS
  <2>2. v \in View
    BY <1>1, <1>2, <2>1, MemsIsView DEF View
  <2>3. run(p, v, "jr", TRUE, TRUE, TRUE)
    BY <2>1 DEF add, run
  <2>4. QED BY <1>1, <2>2, <2>3, RunTypes
<1>6. CountTypes'
  BY <1>1, <1>2, <1>5 DEF CountTypes
<1>7. QED BY <1>3, <1>4, <1>5, <1>6 DEF TypeInv

LEMMA AddDoneTypes ==
  ASSUME TypeInv, NEW p \in Node, AddDone(p)
  PROVE  TypeInv'
<1>1. /\ AcceptorTypes /\ ConfigTypes /\ RecTypes /\ HbTypes /\ JrTypes
      /\ UpcallTypes /\ ChangeTypes /\ DecideTypes /\ CountTypes
  BY DEF TypeInv
<1>2. PICK n \in Node : n = jr[p].m
  BY <1>1 DEF AddDone, JrTypes
<1>3. UNCHANGED <<up, stuck, primary, hb, upcalls, changes, countVars>>
  BY DEF AddDone
<1>4. HbTypes' /\ UpcallTypes' /\ ChangeTypes' /\ CountTypes'
  BY <1>1, <1>3 DEF countVars, HbTypes, UpcallTypes, ChangeTypes, CountTypes
<1>5. JrTypes'
  BY <1>1 DEF AddDone, Idle, JrTypes
<1>6. DecideTypes'
  BY <1>1 DEF AddDone, EndRun, DecideTypes
<1>7. AcceptorTypes' /\ ConfigTypes' /\ RecTypes'
  <2>1. CASE restore(n, p)
    BY <1>3, <2>1, RestoreTypes
  <2>2. CASE UNCHANGED <<acceptorVars, myvid, mems, rec>>
    BY <1>1, <1>3, <2>2 DEF acceptorVars, AcceptorTypes, ConfigTypes, RecTypes
  <2>3. QED BY <1>2, <2>1, <2>2 DEF AddDone
<1>8. QED BY <1>4, <1>5, <1>6, <1>7 DEF TypeInv

LEMMA TypeStep ==
  ASSUME TypeInv, [Next]_vars
  PROVE  TypeInv'
<1>1. CASE UNCHANGED vars
  <2>1. /\ AcceptorTypes /\ ConfigTypes /\ RecTypes /\ HbTypes /\ JrTypes
        /\ UpcallTypes /\ ChangeTypes /\ DecideTypes /\ CountTypes
    BY DEF TypeInv
  <2>2. AcceptorTypes' /\ ConfigTypes' /\ CountTypes' /\ DecideTypes'
    BY <1>1, <2>1 DEF vars, acceptorVars, countVars, AcceptorTypes, ConfigTypes, CountTypes, DecideTypes
  <2>3. RecTypes' /\ HbTypes' /\ JrTypes' /\ UpcallTypes' /\ ChangeTypes'
    BY <1>1, <2>1 DEF vars, RecTypes, HbTypes, JrTypes, UpcallTypes, ChangeTypes
  <2>4. QED BY <2>2, <2>3 DEF TypeInv
<1>2. CASE Next
  <2>1. ASSUME NEW n \in Node, Start(n) PROVE TypeInv'
    BY <2>1, StartTypes
  <2>2. ASSUME NEW n \in Node, Crash(n) PROVE TypeInv'
    <3>1. CountTypes'
      BY <2>2 DEF Crash, TypeInv, CountTypes
    <3>2. QED BY <2>2, <3>1, ForgetTypes DEF Crash
  <2>3. ASSUME NEW n \in Node, heartbeater(n) \/ remove_wo(n) \/ RemoveDone(n) PROVE TypeInv'
    BY <2>3, HeartbeatTypes, RemoveTypes
  <2>4. ASSUME NEW n \in Node, recovery(n) \/ add(n) \/ AddDone(n) PROVE TypeInv'
    BY <2>4, RecoveryTypes, AddTypes, AddDoneTypes
  <2>5. ASSUME NEW n \in Node, NEW u \in upcalls[n], paxos_commit(n, u) PROVE TypeInv'
    BY <2>5, UpcallStepTypes
  <2>6. ASSUME NEW n \in Node, NEW u \in changes[n], commit_change(n, u) PROVE TypeInv'
    BY <2>6, ChangeStepTypes
  <2>7. ASSUME NEW n \in Node, NEW m \in Node, heartbeat_aborts(n, m) PROVE TypeInv'
    <3>1. CountTypes'
      BY <2>7 DEF heartbeat_aborts, countVars, TypeInv, CountTypes
    <3>2. QED BY <2>7, <3>1, ForgetTypes DEF heartbeat_aborts
  <2>8. ASSUME NEW n \in Node, NEW m \in Node, JoinFails(n, m) \/ joinreq(n, m) PROVE TypeInv'
    BY <2>8, RecoveryTypes, JoinreqTypes
  <2>9. ASSUME NEW d \in decides, decidereq(d) PROVE TypeInv'
    BY <2>9, DecideStepTypes
  <2>10. QED
    <3>1. CASE \E d \in decides : decidereq(d)
      BY <2>9, <3>1
    <3>2. CASE ~\E d \in decides : decidereq(d)
      <4>1. PICK n \in Node :
              \/ Start(n) \/ Crash(n)
              \/ heartbeater(n) \/ remove_wo(n) \/ RemoveDone(n)
              \/ recovery(n) \/ add(n) \/ AddDone(n)
              \/ \E u \in upcalls[n] : paxos_commit(n, u)
              \/ \E u \in changes[n] : commit_change(n, u)
              \/ \E m \in Node : heartbeat_aborts(n, m) \/ JoinFails(n, m) \/ joinreq(n, m)
        BY <1>2, <3>2, Zenon DEF Next
      <4>2. QED BY <2>1, <2>2, <2>3, <2>4, <2>5, <2>6, <2>7, <2>8, <4>1
    <3>3. QED BY <3>1, <3>2
<1>3. QED BY <1>1, <1>2

\* The state of a node stays what the code's types and loops make it: every
\* view is a list of nodes, whoever set_primary chooses is a node, a joinreq
\* under way has a caller, and no counter passes its bound.
THEOREM RsmViewTypeCorrect == Spec => []TypeOK
<1>1. TypeInv /\ [Next]_vars => TypeInv'
  BY TypeStep
<1>2. QED BY InitTypes, <1>1, TypeInvTypes, PTL DEF Spec
=============================================================================
