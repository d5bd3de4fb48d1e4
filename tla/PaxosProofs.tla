---------------------------- MODULE PaxosProofs ----------------------------
(* Theorems about Paxos for every number of nodes, runs, crashes and late requests. *)
EXTENDS PaxosInv, FiniteSetTheorems, TLAPS

USE NodeAssumption, ViewAssumption, BoundAssumption, UninitAssumption,
    ProposerAssumption

-----------------------------------------------------------------------------
(* Type correctness, for any number of instances *)

LEMMA NodeNat == Node \cup {0} \subseteq Nat
  OBVIOUS

LEMMA ZeroType == \A m \in Node \cup {0} : Zero(m) \in Ballot
  BY DEF Zero, Ballot

LEMMA MineType == TypeOK => \A p \in Node : Mine(p) \in Ballot
  BY DEF TypeOK, Mine, Ballot

LEMMA ReturnType ==
  ASSUME TypeOK, NEW p \in Node, Return(p)
  PROVE  /\ phase' \in [Node -> Phase] /\ inst' \in [Node -> Instance]
         /\ c_nodes' \in [Node -> View] /\ c_v' \in [Node -> View]
         /\ todo' \in [Node -> View] /\ accepts' \in [Node -> View]
         /\ max' \in [Node -> Ballot] /\ v' \in [Node -> View]
  <1>1. Zero(0) \in Ballot /\ 1 \in Instance /\ {} \in View /\ "idle" \in Phase
    BY ZeroType DEF Instance, View, Phase
  <1>2. QED BY <1>1 DEF TypeOK, Return

LEMMA CommitType ==
  ASSUME TypeOK, NEW q \in Node, NEW i \in Instance, NEW val \in View,
         Commit(q, i, val)
  PROVE  /\ n_h' \in [Node -> Ballot] /\ n_a' \in [Node -> Ballot]
         /\ v_a' \in [Node -> View] /\ instance_h' \in [Node -> Instance]
         /\ values' \in [Node -> [Instance -> View]]
         /\ upcall' \in [Node -> SUBSET Instance] /\ myvid' \in [Node -> Instance]
         /\ seen' \in [Node -> SUBSET Instance] /\ voted' \subseteq Ack
  <1>1. Zero(q) \in Ballot /\ {} \in View BY ZeroType DEF View
  <1>2. CASE i > instance_h[q]
    <2>1. [values[q] EXCEPT ![i] = val] \in [Instance -> View]
      BY DEF TypeOK
    <2>2. values' = [values EXCEPT ![q] = [values[q] EXCEPT ![i] = val]]
      BY <1>2 DEF Commit
    <2>3. values' \in [Node -> [Instance -> View]]
      BY <2>1, <2>2 DEF TypeOK
    <2>4. upcall' \in [Node -> SUBSET Instance]
      BY <1>2 DEF TypeOK, Commit
    <2>5. instance_h' \in [Node -> Instance] /\ voted' \subseteq Ack
      BY <1>2 DEF TypeOK, Commit
    <2>6. /\ n_h' \in [Node -> Ballot] /\ n_a' \in [Node -> Ballot]
          /\ v_a' \in [Node -> View] /\ myvid' \in [Node -> Instance]
          /\ seen' \in [Node -> SUBSET Instance]
      <3>1. /\ n_h' = [n_h EXCEPT ![q] = Zero(q)] /\ n_a' = [n_a EXCEPT ![q] = Zero(q)]
            /\ v_a' = [v_a EXCEPT ![q] = {}] /\ myvid' = myvid /\ seen' = seen
        BY <1>2 DEF Commit
      <3>2. QED BY <1>1, <3>1 DEF TypeOK
    <2>7. QED BY <2>3, <2>4, <2>5, <2>6
  <1>3. CASE ~ (i > instance_h[q])
    BY <1>3 DEF TypeOK, Commit, acceptorVars, configVars
  <1>4. QED BY <1>2, <1>3

LEMMA TypeNext == TypeOK /\ [Next]_vars => TypeOK'
  <1> SUFFICES ASSUME TypeOK, [Next]_vars PROVE TypeOK'
    OBVIOUS
  <1> USE DEF boundVars, historyVars, acceptorVars, configVars
  <1>1. ASSUME NEW p \in Node, RunStart(p) PROVE TypeOK'
    <2>1. Setn(p) \in Nat BY DEF Setn, TypeOK, Ballot
    <2>2. Mems(p) \in View BY DEF Mems, TypeOK
    <2>3. \A w \in seen[p] : NextViews(p, values[p][w]) \subseteq View
      <3>1. \A mems \in View : NextViews(p, mems) \subseteq View
        BY DEF NextViews, Suspects, View
      <3>2. \A w \in seen[p] : values[p][w] \in View BY DEF TypeOK
      <3>3. QED BY <3>1, <3>2
    <2>4. myvid[p] + 1 \in Instance BY <1>1 DEF RunStart, TypeOK, Instance
    <2>5. Zero(0) \in Ballot /\ {} \in View /\ "prepare" \in Phase
      BY ZeroType DEF View, Phase
    <2>6. c_v' \in [Node -> View] BY <1>1, <2>3 DEF RunStart, TypeOK
    <2>7. QED BY <1>1, <2>1, <2>2, <2>4, <2>5, <2>6 DEF RunStart, TypeOK
  <1>2. ASSUME NEW p \in Node, NEW q \in Node, PrepareOld(p, q) PROVE TypeOK'
    BY <1>2 DEF PrepareOld, TypeOK, runVars, Phase
  <1>3. ASSUME NEW p \in Node, NEW q \in Node, PreparePromise(p, q) PROVE TypeOK'
    BY <1>3, MineType DEF PreparePromise, Promise, TypeOK, runVars, View, Turn
  <1>4. ASSUME NEW p \in Node, NEW q \in Node, PrepareReject(p, q) PROVE TypeOK'
    BY <1>4 DEF PrepareReject, TypeOK, runVars, View
  <1>5. ASSUME NEW p \in Node, PrepareMajority(p) PROVE TypeOK'
    <2> DEFINE val == IF v[p] = {} THEN c_v[p] ELSE v[p]
               r == [inst |-> inst[p], n |-> Mine(p), v |-> val, nodes |-> accepts[p]]
    <2>1. val \in View BY DEF TypeOK
    <2>2. r \in Proposal BY <2>1, MineType DEF Proposal, TypeOK
    <2>3. proposed' = proposed \cup {r} /\ v' = [v EXCEPT ![p] = val]
      BY <1>5 DEF PrepareMajority
    <2> HIDE DEF val, r
    <2>4. proposed' \subseteq Proposal BY <2>2, <2>3 DEF TypeOK
    <2>5. QED BY <1>5, <2>1, <2>3, <2>4 DEF PrepareMajority, TypeOK, runVars, Phase, View
  <1>6. ASSUME NEW p \in Node, NEW q \in Node, AcceptYes(p, q) PROVE TypeOK'
    <2>1. [inst |-> inst[p], n |-> Mine(p), v |-> v[p], node |-> q] \in Ack
      BY MineType DEF Ack, TypeOK
    <2>2. voted' \subseteq Ack BY <1>6, <2>1 DEF AcceptYes, Vote, TypeOK
    <2>3. QED BY <1>6, <2>2, MineType DEF AcceptYes, Vote, TypeOK, runVars, View
  <1>7. ASSUME NEW p \in Node, NEW q \in Node, AcceptNo(p, q) PROVE TypeOK'
    BY <1>7 DEF AcceptNo, TypeOK, runVars, View
  <1>8. ASSUME NEW p \in Node, AcceptMajority(p) PROVE TypeOK'
    BY <1>8 DEF AcceptMajority, TypeOK, runVars, Phase
  <1>9. ASSUME NEW p \in Node, NoMajority(p) PROVE TypeOK'
    BY <1>9, ReturnType DEF NoMajority, TypeOK
  <1>10. ASSUME NEW p \in Node, NEW q \in Node, Decide(p, q) PROVE TypeOK'
    <2>1. Commit(q, inst[p], v[p]) /\ inst[p] \in Instance /\ v[p] \in View
      BY <1>10 DEF Decide, TypeOK
    <2>2. todo' \in [Node -> View] BY <1>10 DEF Decide, TypeOK, View
    <2>3. UNCHANGED <<phase, my_n, runVars, accepts, max, v, late, boundVars, proposed>>
      BY <1>10 DEF Decide
    <2>4. QED BY <2>1, <2>2, <2>3, CommitType DEF TypeOK, runVars
  <1>11. ASSUME NEW p \in Node, DecideEnd(p) PROVE TypeOK'
    BY <1>11, ReturnType DEF DecideEnd, TypeOK
  <1>12. ASSUME NEW p \in Node, NEW q \in Node, Timeout(p, q) PROVE TypeOK'
    <2>1. Pending(p, q) \in Request
      BY <1>12, MineType, ZeroType DEF Pending, Request, Timeout, TypeOK, View
    <2>2. late' \subseteq Request BY <1>12, <2>1 DEF Timeout, TypeOK
    <2>3. QED BY <1>12, <2>2 DEF Timeout, TypeOK, runVars, View
  <1>13. ASSUME NEW p \in Node, Learn(p) PROVE TypeOK'
    <2>1. Commit(p, inst[p], v[p]) /\ inst[p] \in Instance /\ v[p] \in View
      BY <1>13 DEF Learn, TypeOK
    <2>2. UNCHANGED <<my_n, late, boundVars, proposed>>
      BY <1>13 DEF Learn
    <2>3. CASE inst[p] > instance_h[p]
      BY <1>13, <2>1, <2>2, <2>3, CommitType DEF Learn, TypeOK, runVars, loopVars, Phase
    <2>4. CASE ~ (inst[p] > instance_h[p])
      <3>1. Return(p) BY <1>13, <2>4 DEF Learn
      <3>2. QED BY <2>1, <2>2, <3>1, CommitType, ReturnType DEF TypeOK
    <2>5. QED BY <2>3, <2>4
  <1>14. ASSUME NEW p \in Node, CrashRestart(p) PROVE TypeOK'
    <2>1. my_n' \in [Node -> Nat] BY <1>14 DEF CrashRestart, TypeOK
    <2>2. Return(p) BY <1>14 DEF CrashRestart
    <2>3. QED BY <1>14, <2>1, <2>2, ReturnType DEF CrashRestart, TypeOK
  <1>15. ASSUME NEW p \in Node, NEW i \in Instance, PaxosCommit(p, i) PROVE TypeOK'
    <2>1. CASE phase[p] = "upcall" /\ inst[p] = i
      <3>1. Return(p) BY <1>15, <2>1 DEF PaxosCommit
      <3>2. QED BY <1>15, <3>1, ReturnType DEF PaxosCommit, TypeOK
    <2>2. CASE ~ (phase[p] = "upcall" /\ inst[p] = i)
      BY <1>15, <2>2 DEF PaxosCommit, TypeOK, runVars, loopVars
    <2>3. QED BY <2>1, <2>2
  <1>16. ASSUME NEW r \in late, LateRequest(r) PROVE TypeOK'
    <2>1. /\ r.dst \in Node /\ r.inst \in Instance /\ r.n \in Ballot /\ r.v \in View
      BY DEF TypeOK, Request
    <2>2. UNCHANGED <<phase, my_n, runVars, loopVars, late, boundVars, proposed>>
      BY <1>16 DEF LateRequest
    <2>3. CASE r.type = "prepare" /\ Promise(r.dst, r.n)
      BY <2>1, <2>2, <2>3 DEF Promise, TypeOK, runVars, loopVars
    <2>4. CASE r.type = "accept" /\ Vote(r.dst, r.inst, r.n, r.v)
      <3>1. [inst |-> r.inst, n |-> r.n, v |-> r.v, node |-> r.dst] \in Ack
        BY <2>1 DEF Ack
      <3>2. voted' \subseteq Ack BY <2>4, <3>1 DEF Vote, TypeOK
      <3>3. QED BY <2>1, <2>2, <2>4, <3>2 DEF Vote, TypeOK, runVars, loopVars
    <2>5. CASE r.type = "decide" /\ Commit(r.dst, r.inst, r.v)
      BY <2>1, <2>2, <2>5, CommitType DEF TypeOK, runVars, loopVars
    <2>6. QED BY <1>16, <2>3, <2>4, <2>5 DEF LateRequest
  <1>17. ASSUME UNCHANGED vars PROVE TypeOK'
    BY <1>17 DEF vars, TypeOK, runVars, loopVars
  <1>18. QED
    BY <1>1, <1>2, <1>3, <1>4, <1>5, <1>6, <1>7, <1>8, <1>9, <1>10, <1>11,
       <1>12, <1>13, <1>14, <1>15, <1>16, <1>17 DEF Next, RunStep

LEMMA InitType == Init => TypeOK
  <1> SUFFICES ASSUME Init PROVE TypeOK
    OBVIOUS
  <1>1. \A p \in Node : Zero(p) \in Ballot BY ZeroType
  <1>2. Zero(0) \in Ballot /\ {} \in View /\ FirstView \in View /\ 1 \in Instance
        /\ "idle" \in Phase
    BY ZeroType DEF View, Instance, Phase
  <1>3. values \in [Node -> [Instance -> View]] BY <1>2 DEF Init
  <1>4. my_n \in [Node -> Nat] BY DEF Init
  <1>5. QED BY <1>1, <1>2, <1>3, <1>4 DEF Init, TypeOK

\* Every variable keeps its type, whatever the number of nodes and instances.
THEOREM TypeCorrect == Spec => []TypeOK
  BY InitType, TypeNext, PTL DEF Spec

-----------------------------------------------------------------------------
(* Proposal numbers are totally ordered, and two majorities meet *)

LEMMA BallotOrder ==
  ASSUME NEW a \in Ballot, NEW b \in Ballot, NEW c \in Ballot
  PROVE  /\ ~ Gt(a, a)
         /\ Geq(a, b) <=> (Gt(a, b) \/ a = b)
         /\ Gt(a, b) \/ Gt(b, a) \/ a = b
         /\ Gt(a, b) /\ Geq(b, c) => Gt(a, c)
         /\ Geq(a, b) /\ Gt(b, c) => Gt(a, c)
         /\ Geq(a, b) /\ Geq(b, c) => Geq(a, c)
         /\ Gt(a, b) => ~ Geq(b, a)
  <1>1. a = b <=> a.n = b.n /\ a.m = b.m BY DEF Ballot
  <1>2. /\ a.n \in Nat /\ b.n \in Nat /\ c.n \in Nat
        /\ a.m \in Nat /\ b.m \in Nat /\ c.m \in Nat
    BY NodeNat DEF Ballot
  <1>3. QED BY <1>1, <1>2 DEF Gt, Geq

LEMMA MajoritiesMeet ==
  ASSUME NEW S \in SUBSET FirstView, NEW T \in SUBSET FirstView,
         Majority(FirstView, S), Majority(FirstView, T)
  PROVE  \E q \in S : q \in T
  <1>1. IsFiniteSet(FirstView) BY FS_Subset
  <1>2. FirstView \cap S = S /\ FirstView \cap T = T OBVIOUS
  <1>3. /\ Cardinality(FirstView) \in Nat
        /\ Cardinality(S) \in Nat /\ Cardinality(T) \in Nat
    BY <1>1, FS_Subset, FS_CardinalityType
  <1>4. Cardinality(S) + Cardinality(T) > Cardinality(FirstView)
    <2> DEFINE F == Cardinality(FirstView)
               s == Cardinality(S)
               t == Cardinality(T)
    <2>1. s >= (F \div 2) + 1 /\ t >= (F \div 2) + 1
      BY <1>2 DEF Majority
    <2>2. F \in Nat /\ s \in Nat /\ t \in Nat BY <1>3
    <2> HIDE DEF F, s, t
    <2>3. s + t > F BY <2>1, <2>2
    <2>4. QED BY <2>3 DEF F, s, t
  <1>5. S \cap T # {} BY <1>1, <1>4, FS_MajoritiesIntersect
  <1>6. QED BY <1>5

-----------------------------------------------------------------------------
(* What every step keeps *)

\* Votes and proposals are never taken back, an acceptor's promise only rises
\* until the instance is closed, and a vote respects the promise.
Grows ==
    /\ voted \subseteq voted' /\ proposed \subseteq proposed'
    /\ \A q \in Node : /\ Closed(q) => Closed(q)'
                       /\ Closed(q)' \/ Geq(n_h'[q], n_h[q])
    /\ \A w \in voted' : w \notin voted =>
         ~ Closed(w.node) /\ Geq(w.n, n_h[w.node])

\* The step is none of o's own.
Idle(o) ==
    /\ phase'[o] = phase[o] /\ my_n'[o] = my_n[o] /\ inst'[o] = inst[o]
    /\ c_nodes'[o] = c_nodes[o] /\ c_v'[o] = c_v[o] /\ todo'[o] = todo[o]
    /\ accepts'[o] = accepts[o] /\ max'[o] = max[o] /\ v'[o] = v[o]

LEMMA KeepChosen ==
  ASSUME NEW val, voted \subseteq voted', Chosen(val)
  PROVE  Chosen(val)'
  BY DEF Chosen, ChosenAt, AllVoted

LEMMA KeepCannotVote ==
  ASSUME TypeOK, TypeOK', Grows, NEW q \in Node, NEW c \in Ballot, CannotVote(q, c)
  PROVE  CannotVote(q, c)'
  <1>1. n_h[q] \in Ballot /\ n_h'[q] \in Ballot BY DEF TypeOK
  <1>2. ASSUME NEW w \in voted', w.node = q, w.n = c PROVE FALSE
    <2>1. w \notin voted BY <1>2 DEF CannotVote
    <2>2. ~ Closed(q) /\ Geq(c, n_h[q]) BY <1>2, <2>1 DEF Grows
    <2>3. Gt(n_h[q], c) BY <2>2 DEF CannotVote
    <2>4. QED BY <1>1, <2>2, <2>3, BallotOrder
  <1>3. Closed(q)' \/ Gt(n_h'[q], c)
    <2>1. CASE Closed(q) BY <2>1 DEF Grows
    <2>2. CASE Gt(n_h[q], c) BY <1>1, <2>2, BallotOrder DEF Grows
    <2>3. QED BY <2>1, <2>2 DEF CannotVote
  <1>4. QED BY <1>2, <1>3 DEF CannotVote

LEMMA KeepProposed ==
  ASSUME TypeOK, TypeOK', Grows, proposed' = proposed, ProposedInv, SafeInv
  PROVE  ProposedInv' /\ SafeInv'
  <1>1. ASSUME NEW r \in proposed, NEW q \in r.nodes
        PROVE  Closed(q)' \/ Geq(n_h'[q], r.n)
    <2>1. q \in Node /\ r.n \in Ballot BY DEF TypeOK, Proposal, View
    <2>2. n_h[q] \in Ballot /\ n_h'[q] \in Ballot BY <2>1 DEF TypeOK
    <2>3. QED BY <2>1, <2>2, BallotOrder DEF Grows, ProposedInv
  <1>2. ProposedInv' BY <1>1 DEF ProposedInv
  <1>3. ASSUME NEW r \in proposed, NEW s \in proposed, Gt(r.n, s.n), r.v # s.v
        PROVE  \E t \in proposed : \A q \in t.nodes : CannotVote(q, s.n)'
    <2>1. PICK t \in proposed : \A q \in t.nodes : CannotVote(q, s.n)
      BY <1>3 DEF SafeInv
    <2>2. s.n \in Ballot /\ t.nodes \subseteq Node BY DEF TypeOK, Proposal, View
    <2>3. \A q \in t.nodes : CannotVote(q, s.n)'
      BY <2>1, <2>2, KeepCannotVote
    <2>4. QED BY <2>3
  <1>4. SafeInv' BY <1>3 DEF SafeInv
  <1>5. QED BY <1>2, <1>4

LEMMA KeepRun ==
  ASSUME Grows, NEW p \in Node, RunOK(p), Idle(p)
  PROVE  RunOK(p)'
  <1>1. Mine(p)' = Mine(p) BY DEF Mine, Idle
  <1>2. \A val : Chosen(val) => Chosen(val)' BY KeepChosen DEF Grows
  <1>3. \A q, b, val : IsVote(q, b, val) => IsVote(q, b, val)' BY DEF Grows, IsVote
  <1>4. QED BY <1>1, <1>2, <1>3 DEF RunOK, Idle, Grows

LEMMA KeepLate ==
  ASSUME Grows, NEW m, LateOK(m)
  PROVE  LateOK(m)'
  <1>1. Chosen(m.v) => Chosen(m.v)' BY KeepChosen DEF Grows
  <1>2. QED BY <1>1 DEF LateOK, Grows

LEMMA KeepPrepare ==
  ASSUME TypeOK, TypeOK', Grows, NEW p \in Node, PrepareOK(p), Idle(p),
         \A r \in proposed' : r \notin proposed => r.n.m # p
  PROVE  PrepareOK(p)'
  <1>1. Mine(p)' = Mine(p) /\ Mine(p) \in Ballot
    BY MineType DEF Mine, Idle
  <1>2. ASSUME NEW q \in accepts[p]
        PROVE  /\ Closed(q)' \/ Geq(n_h'[q], Mine(p))
               /\ \A r \in proposed' : r.n = Mine(p) => q \notin r.nodes
               /\ \A w \in voted' : w.node = q /\ Gt(Mine(p), w.n) => Geq(max[p], w.n)
    <2>1. q \in Node BY DEF TypeOK, View
    <2>2. n_h[q] \in Ballot /\ n_h'[q] \in Ballot BY <2>1 DEF TypeOK
    <2>3. Closed(q) \/ Geq(n_h[q], Mine(p)) BY DEF PrepareOK
    <2>4. Closed(q)' \/ Geq(n_h'[q], Mine(p))
      BY <1>1, <2>1, <2>2, <2>3, BallotOrder DEF Grows
    <2>5. ASSUME NEW r \in proposed', r.n = Mine(p) PROVE q \notin r.nodes
      <3>1. r.n.m = p BY <2>5 DEF Mine
      <3>2. r \in proposed BY <3>1
      <3>3. QED BY <2>5, <3>2 DEF PrepareOK
    <2>6. ASSUME NEW w \in voted', w.node = q, Gt(Mine(p), w.n) PROVE Geq(max[p], w.n)
      <3>1. CASE w \in voted BY <2>6, <3>1 DEF PrepareOK
      <3>2. CASE w \notin voted
        <4>1. ~ Closed(q) /\ Geq(w.n, n_h[q]) BY <2>6, <3>2 DEF Grows
        <4>2. w.n \in Ballot BY DEF TypeOK, Ack
        <4>3. Geq(w.n, Mine(p)) BY <1>1, <2>2, <2>3, <4>1, <4>2, BallotOrder
        <4>4. QED BY <1>1, <2>6, <4>2, <4>3, BallotOrder
      <3>3. QED BY <3>1, <3>2
    <2>7. QED BY <2>4, <2>5, <2>6
  <1>3. QED BY <1>1, <1>2 DEF PrepareOK, Idle, Grows

-----------------------------------------------------------------------------
(* The four things a handler does to an acceptor *)

LEMMA QuietStep ==
  ASSUME TypeOK, VoteInv, ClosedInv, UNCHANGED <<acceptorVars, voted, proposed>>
  PROVE  Grows /\ VoteInv' /\ ClosedInv'
  <1>1. /\ n_h' = n_h /\ n_a' = n_a /\ v_a' = v_a /\ instance_h' = instance_h
        /\ values' = values /\ voted' = voted /\ proposed' = proposed
    BY DEF acceptorVars
  <1>2. Grows
    <2>1. \A q \in Node : Geq(n_h[q], n_h[q]) BY BallotOrder DEF TypeOK
    <2>2. QED BY <1>1, <2>1 DEF Grows, Closed
  <1>3. VoteInv' BY <1>1 DEF VoteInv, Closed, IsVote
  <1>4. ClosedInv' BY <1>1 DEF ClosedInv, Closed, Chosen, ChosenAt, AllVoted
  <1>5. QED BY <1>2, <1>3, <1>4

LEMMA PromiseStep ==
  ASSUME TypeOK, VoteInv, ClosedInv, NEW q \in Node, NEW b \in Ballot,
         Promise(q, b), proposed' = proposed
  PROVE  Grows /\ VoteInv' /\ ClosedInv'
  <1>1. /\ n_a' = n_a /\ v_a' = v_a /\ instance_h' = instance_h
        /\ values' = values /\ voted' = voted
    BY DEF Promise
  <1>2. \A o \in Node : n_h[o] \in Ballot /\ n_h'[o] \in Ballot /\ Geq(n_h'[o], n_h[o])
    BY BallotOrder DEF Promise, TypeOK
  <1>3. Grows BY <1>1, <1>2 DEF Grows, Closed
  <1>4. ASSUME NEW o \in Node, ~ Closed(o) PROVE Geq(n_h'[o], n_a[o])
    <2>1. n_a[o] \in Ballot /\ Geq(n_h[o], n_a[o]) BY <1>4 DEF TypeOK, VoteInv
    <2>2. QED BY <1>2, <2>1, BallotOrder
  <1>5. VoteInv' BY <1>1, <1>4 DEF VoteInv, Closed, IsVote
  <1>6. ClosedInv' BY <1>1 DEF ClosedInv, Closed, Chosen, ChosenAt, AllVoted
  <1>7. QED BY <1>3, <1>5, <1>6

LEMMA VoteStep ==
  ASSUME TypeOK, VoteInv, ClosedInv, ProposedInv,
         NEW q \in Node, NEW b \in Ballot, NEW val \in View,
         Vote(q, 2, b, val), ~ Closed(q), proposed' = proposed,
         NEW r \in proposed, r.n = b, r.v = val, q \in r.nodes
  PROVE  Grows /\ VoteInv' /\ ClosedInv'
  <1> DEFINE x == [inst |-> 2, n |-> b, v |-> val, node |-> q]
  <1>1. /\ n_h' = n_h /\ instance_h' = instance_h /\ values' = values
        /\ voted' = voted \cup {x} /\ Geq(b, n_h[q])
        /\ n_a' = [n_a EXCEPT ![q] = b] /\ v_a' = [v_a EXCEPT ![q] = val]
    BY DEF Vote, AcceptOK
  <1>2. \A o \in Node : n_h[o] \in Ballot /\ n_a[o] \in Ballot /\ Geq(n_h[o], n_h[o])
    BY BallotOrder DEF TypeOK
  <1>3. Grows BY <1>1, <1>2 DEF Grows, Closed
  <1>4. Geq(n_h[q], b) BY DEF ProposedInv
  <1>5. Geq(b, n_a[q])
    <2>1. Geq(n_h[q], n_a[q]) BY DEF VoteInv
    <2>2. QED BY <1>1, <1>2, <2>1, BallotOrder
  <1>6. ASSUME NEW w \in voted'
        PROVE  /\ w.inst = 2
               /\ \E s \in proposed : s.n = w.n /\ s.v = w.v /\ w.node \in s.nodes
               /\ Closed(w.node) \/ Geq(n_a'[w.node], w.n)
    <2>1. CASE w = x
      <3>1. n_a'[q] = b /\ Geq(b, b) BY <1>1, BallotOrder DEF TypeOK
      <3>2. QED BY <2>1, <3>1
    <2>2. CASE w \in voted
      <3>1. w.node \in Node /\ w.n \in Ballot BY <2>2 DEF TypeOK, Ack
      <3>2. Closed(w.node) \/ Geq(n_a[w.node], w.n) BY <2>2 DEF VoteInv
      <3>3. CASE w.node = q
        <4>1. Geq(b, w.n) BY <1>2, <1>5, <3>1, <3>2, <3>3, BallotOrder
        <4>2. QED BY <1>1, <2>2, <3>1, <3>3, <4>1 DEF VoteInv, TypeOK
      <3>4. CASE w.node # q
        BY <1>1, <2>2, <3>1, <3>2, <3>4 DEF VoteInv, TypeOK
      <3>5. QED BY <3>3, <3>4
    <2>3. QED BY <1>1, <2>1, <2>2
  <1>7. ASSUME NEW o \in Node, ~ Closed(o)
        PROVE  /\ Geq(n_h[o], n_a'[o])
               /\ \/ n_a'[o].n = 0 /\ v_a'[o] = {}
                  \/ n_a'[o].n > 0 /\ IsVote(o, n_a[o], v_a[o])'
    <2>1. CASE o = q
      <3>1. n_a'[o] = b /\ v_a'[o] = val BY <1>1, <2>1 DEF TypeOK
      <3>2. b.n > 0 BY DEF ProposedInv
      <3>3. x \in voted' BY <1>1
      <3>4. QED BY <1>4, <2>1, <3>1, <3>2, <3>3 DEF IsVote
    <2>2. CASE o # q
      <3>1. n_a'[o] = n_a[o] /\ v_a'[o] = v_a[o] BY <1>1, <2>2 DEF TypeOK
      <3>2. /\ Geq(n_h[o], n_a[o])
            /\ \/ n_a[o].n = 0 /\ v_a[o] = {}
               \/ n_a[o].n > 0 /\ IsVote(o, n_a[o], v_a[o])
        BY <1>7 DEF VoteInv
      <3>3. IsVote(o, n_a[o], v_a[o]) => IsVote(o, n_a[o], v_a[o])'
        BY <1>1, <3>1 DEF IsVote
      <3>4. QED BY <3>1, <3>2, <3>3
    <2>3. QED BY <2>1, <2>2
  <1>8. VoteInv' BY <1>1, <1>6, <1>7 DEF VoteInv, Closed
  <1>9. ClosedInv'
    <2>1. \A o \in Node : Chosen(values[o][2]) => Chosen(values[o][2])'
      BY <1>1, <1>3, KeepChosen DEF Grows, Chosen, ChosenAt, AllVoted
    <2>2. QED BY <1>1, <2>1 DEF ClosedInv, Closed
  <1>10. QED BY <1>3, <1>8, <1>9

LEMMA CommitStep ==
  ASSUME TypeOK, TypeOK', VoteInv, ClosedInv, LastInstance = 2,
         NEW q \in Node, NEW val \in View,
         Commit(q, 2, val), Chosen(val), proposed' = proposed
  PROVE  Grows /\ VoteInv' /\ ClosedInv'
  <1>1. CASE Closed(q)
    <2>1. UNCHANGED <<acceptorVars, voted>> BY <1>1 DEF Commit, Closed, configVars
    <2>2. QED BY <2>1, QuietStep
  <1>2. CASE ~ Closed(q)
    <2>1. instance_h[q] \in Instance /\ 2 > instance_h[q]
      BY <1>2 DEF TypeOK, Instance, Closed
    <2>2. /\ instance_h' = [instance_h EXCEPT ![q] = 2]
          /\ values' = [values EXCEPT ![q] = [values[q] EXCEPT ![2] = val]]
          /\ n_h' = [n_h EXCEPT ![q] = Zero(q)] /\ n_a' = [n_a EXCEPT ![q] = Zero(q)]
          /\ v_a' = [v_a EXCEPT ![q] = {}] /\ voted' = voted
      BY <2>1 DEF Commit
    <2>3. Closed(q)' /\ \A o \in Node : o # q =>
             /\ n_h'[o] = n_h[o] /\ n_a'[o] = n_a[o] /\ v_a'[o] = v_a[o]
             /\ instance_h'[o] = instance_h[o] /\ values'[o] = values[o]
      BY <2>2 DEF Closed, TypeOK
    <2>4. \A o \in Node : Geq(n_h[o], n_h[o]) BY BallotOrder DEF TypeOK
    <2>5. Grows BY <2>2, <2>3, <2>4 DEF Grows, Closed
    <2>6. VoteInv'
      <3>1. \A w \in voted : w.node \in Node BY DEF TypeOK, Ack
      <3>2. QED BY <2>2, <2>3, <3>1 DEF VoteInv, Closed, IsVote
    <2>7. values'[q][2] = val BY <2>2 DEF TypeOK, Instance
    <2>8. \A x : Chosen(x) => Chosen(x)' BY <2>2, KeepChosen
    <2>9. ClosedInv'
      <3>1. ASSUME NEW o \in Node, Closed(o)' PROVE Chosen(values[o][2])'
        <4>1. CASE o = q BY <2>7, <2>8, <4>1
        <4>2. CASE o # q BY <2>3, <2>8, <3>1, <4>2 DEF ClosedInv, Closed
        <4>3. QED BY <4>1, <4>2
      <3>2. QED BY <3>1 DEF ClosedInv
    <2>10. QED BY <2>5, <2>6, <2>9
  <1>3. QED BY <1>1, <1>2

-----------------------------------------------------------------------------
(* What a proposer sends after the prepare phase is safe *)

LEMMA ProposeStep ==
  ASSUME PaxosInvariant, TypeOK', NEW p \in Node, PrepareMajority(p)
  PROVE  /\ Grows /\ ProposedInv' /\ SafeInv' /\ VoteInv' /\ ClosedInv'
         /\ \A x \in proposed' : x \notin proposed => x.n.m = p
         /\ \E x \in proposed' : x.n = Mine(p) /\ x.v = v'[p] /\ x.nodes = accepts[p]
  <1> USE DEF PaxosInvariant
  <1> DEFINE val == IF v[p] = {} THEN c_v[p] ELSE v[p]
             r == [inst |-> inst[p], n |-> Mine(p), v |-> val, nodes |-> accepts[p]]
  <1>1. /\ proposed' = proposed \cup {r} /\ v' = [v EXCEPT ![p] = val]
        /\ phase[p] = "prepare" /\ Majority(c_nodes[p], accepts[p])
        /\ UNCHANGED <<acceptorVars, voted>>
    BY DEF PrepareMajority
  <1>2. /\ n_h' = n_h /\ n_a' = n_a /\ v_a' = v_a /\ instance_h' = instance_h
        /\ values' = values /\ voted' = voted
    BY <1>1 DEF acceptorVars
  <1>3. PrepareOK(p) /\ RunOK(p) BY <1>1 DEF PrepareInv, RunInv
  <1>4. /\ r.inst = 2 /\ r.n = Mine(p) /\ r.v = val /\ r.nodes = accepts[p]
        /\ r.nodes \subseteq FirstView /\ Majority(FirstView, r.nodes)
        /\ val # {} /\ r.n.n > 0 /\ r.n.m = p /\ Mine(p) \in Ballot
    BY <1>1, <1>3, MineType DEF RunOK, PrepareOK, Mine
  <1>5. v'[p] = val BY <1>1 DEF TypeOK
  <1> HIDE DEF val, r
  <1>6. ASSUME NEW s \in proposed, s.n = Mine(p) PROVE FALSE
    <2>1. s.nodes \subseteq FirstView /\ Majority(FirstView, s.nodes)
      BY DEF ProposedInv
    <2>2. \E q \in r.nodes : q \in s.nodes BY <1>4, <2>1, MajoritiesMeet
    <2>3. QED BY <1>3, <1>4, <1>6, <2>2 DEF PrepareOK
  <1>7. Grows
    <2>1. \A q \in Node : Geq(n_h[q], n_h[q]) BY BallotOrder DEF TypeOK
    <2>2. QED BY <1>1, <1>2, <2>1 DEF Grows, Closed
  <1>8. VoteInv' BY <1>1, <1>2 DEF VoteInv, Closed, IsVote
  <1>9. ClosedInv' BY <1>2 DEF ClosedInv, Closed, Chosen, ChosenAt, AllVoted
  <1>10. \A q \in r.nodes : Closed(q) \/ Geq(n_h[q], r.n)
    BY <1>3, <1>4 DEF PrepareOK
  <1>11. ProposedInv'
    BY <1>1, <1>2, <1>4, <1>6, <1>10 DEF ProposedInv, Closed
  <1>12. \A q, c : CannotVote(q, c) => CannotVote(q, c)'
    BY <1>2 DEF CannotVote, Closed
  <1>13. ASSUME NEW s \in proposed, Gt(r.n, s.n), val # s.v
         PROVE  \E t \in proposed' : \A q \in t.nodes : CannotVote(q, s.n)
    <2>1. s.n \in Ballot /\ max[p] \in Ballot BY DEF TypeOK, Proposal
    <2>2. s.n.n > 0 BY DEF ProposedInv
    <2>3. CASE Gt(s.n, max[p])
      <3>1. ASSUME NEW q \in r.nodes PROVE CannotVote(q, s.n)
        <4>1. q \in Node /\ n_h[q] \in Ballot BY <1>4 DEF TypeOK
        <4>2. Closed(q) \/ Gt(n_h[q], s.n)
          BY <1>4, <1>10, <1>13, <2>1, <4>1, BallotOrder
        <4>3. ASSUME NEW w \in voted, w.node = q, w.n = s.n PROVE FALSE
          <5>1. Geq(max[p], s.n) BY <1>3, <1>4, <1>13, <4>3 DEF PrepareOK
          <5>2. QED BY <2>1, <2>3, <5>1, BallotOrder
        <4>4. QED BY <4>2, <4>3 DEF CannotVote
      <3>2. QED BY <1>1, <3>1
    <2>4. CASE ~ Gt(s.n, max[p])
      <3>1. max[p].n > 0
        <4>1. s.n.n \in Nat /\ max[p].n \in Nat BY <2>1 DEF Ballot
        <4>2. QED BY <2>2, <2>4, <4>1 DEF Gt
      <3>2. PICK k \in proposed : k.n = max[p] /\ k.v = v[p]
        BY <1>3, <3>1 DEF PrepareOK
      <3>3. k.v # {} BY DEF ProposedInv
      <3>4. val = k.v BY <3>2, <3>3 DEF val
      <3>5. s.n # k.n BY <1>13, <3>4 DEF ProposedInv
      <3>6. Gt(k.n, s.n) BY <2>1, <2>4, <3>2, <3>5, BallotOrder
      <3>7. PICK t \in proposed : \A q \in t.nodes : CannotVote(q, s.n)
        BY <1>13, <3>4, <3>6 DEF SafeInv
      <3>8. QED BY <1>1, <3>7
    <2>5. QED BY <2>3, <2>4
  <1>14. ASSUME NEW s \in proposed, Gt(s.n, r.n)
         PROVE  \A q \in s.nodes : CannotVote(q, r.n)
    <2>1. s.n \in Ballot /\ s.nodes \subseteq Node BY DEF TypeOK, Proposal, View
    <2>2. ASSUME NEW q \in s.nodes PROVE CannotVote(q, r.n)
      <3>1. n_h[q] \in Ballot BY <2>1 DEF TypeOK
      <3>2. Closed(q) \/ Geq(n_h[q], s.n) BY DEF ProposedInv
      <3>3. Closed(q) \/ Gt(n_h[q], r.n)
        BY <1>4, <1>14, <2>1, <3>1, <3>2, BallotOrder
      <3>4. \A w \in voted : w.n # r.n BY <1>4, <1>6 DEF VoteInv
      <3>5. QED BY <3>3, <3>4 DEF CannotVote
    <2>3. QED BY <2>2
  <1>15. SafeInv'
    <2> SUFFICES ASSUME NEW a \in proposed', NEW b \in proposed', Gt(a.n, b.n), a.v # b.v
                 PROVE  \E t \in proposed' : \A q \in t.nodes : CannotVote(q, b.n)'
      BY DEF SafeInv
    <2>1. CASE a \in proposed /\ b \in proposed
      <3>1. PICK t \in proposed : \A q \in t.nodes : CannotVote(q, b.n)
        BY <2>1 DEF SafeInv
      <3>2. QED BY <1>1, <1>12, <3>1
    <2>2. CASE a = r /\ b \in proposed
      <3>1. PICK t \in proposed' : \A q \in t.nodes : CannotVote(q, b.n)
        BY <1>4, <1>13, <2>2
      <3>2. QED BY <1>12, <3>1
    <2>3. CASE a \in proposed /\ b = r
      BY <1>1, <1>12, <1>14, <2>3
    <2>4. CASE a = r /\ b = r
      BY <1>4, <2>4
    <2>5. QED BY <1>1, <2>1, <2>2, <2>3, <2>4
  <1>16. /\ \A x \in proposed' : x \notin proposed => x.n.m = p
         /\ \E x \in proposed' : x.n = Mine(p) /\ x.v = v'[p] /\ x.nodes = accepts[p]
    BY <1>1, <1>4, <1>5
  <1>17. QED BY <1>7, <1>8, <1>9, <1>11, <1>15, <1>16

-----------------------------------------------------------------------------
(* The invariant is inductive *)

LEMMA OthersKeep ==
  ASSUME PaxosInvariant, TypeOK', Grows, NEW o \in Node, Idle(o),
         \A x \in proposed' : x \notin proposed => x.n.m # o
  PROVE  RunOK(o)' /\ (phase[o] = "prepare" => PrepareOK(o))'
  <1>1. RunOK(o)' BY KeepRun DEF PaxosInvariant, RunInv
  <1>2. ASSUME phase'[o] = "prepare" PROVE PrepareOK(o)'
    <2>1. PrepareOK(o) BY <1>2 DEF Idle, PaxosInvariant, PrepareInv
    <2>2. QED BY <2>1, KeepPrepare DEF PaxosInvariant
  <1>3. QED BY <1>1, <1>2

\* A step of p's run that sends no proposal: what is left to show of it.
LEMMA RunKeeps ==
  ASSUME PaxosInvariant, TypeOK', Grows, VoteInv', ClosedInv', ConfigInv',
         proposed' = proposed, LateInv', NEW p \in Node,
         \A o \in Node : o # p => Idle(o),
         RunOK(p)', phase'[p] = "prepare" => PrepareOK(p)'
  PROVE  PaxosInvariant'
  <1>1. ASSUME NEW o \in Node
        PROVE  RunOK(o)' /\ (phase[o] = "prepare" => PrepareOK(o))'
    BY OthersKeep
  <1>2. RunInv' /\ PrepareInv' BY <1>1 DEF RunInv, PrepareInv
  <1>3. ProposedInv' /\ SafeInv' BY KeepProposed DEF PaxosInvariant
  <1>4. QED BY <1>2, <1>3 DEF PaxosInvariant

LEMMA LateKept ==
  ASSUME PaxosInvariant, Grows, late' \subseteq late
  PROVE  LateInv'
  BY KeepLate DEF LateInv, PaxosInvariant

LEMMA ConfigQuiet ==
  ASSUME ConfigInv, values' = values, instance_h' = instance_h,
         UNCHANGED configVars
  PROVE  ConfigInv'
  BY DEF ConfigInv, configVars, Closed

LEMMA ConfigCommit ==
  ASSUME TypeOK, TypeOK', ConfigInv, LastInstance = 2, NEW q \in Node,
         NEW val \in View, Commit(q, 2, val)
  PROVE  ConfigInv'
  <1>1. CASE 2 > instance_h[q]
    <2>1. /\ values' = [values EXCEPT ![q] = [values[q] EXCEPT ![2] = val]]
          /\ instance_h' = [instance_h EXCEPT ![q] = 2]
          /\ upcall' = [upcall EXCEPT ![q] = @ \cup {2}] /\ myvid' = myvid
      BY <1>1 DEF Commit
    <2>2. ASSUME NEW o \in Node
          PROVE  /\ values'[o][1] = FirstView /\ myvid'[o] <= instance_h'[o]
                 /\ upcall'[o] # {} => upcall'[o] = {2} /\ instance_h'[o] = 2
      <3>1. CASE o = q
        <4>1. values'[o][1] = values[q][1] BY <2>1, <3>1 DEF TypeOK, Instance
        <4>2. upcall'[o] = upcall[q] \cup {2} /\ instance_h'[o] = 2
          BY <2>1, <3>1 DEF TypeOK
        <4>3. myvid[o] \in 1..2 BY DEF TypeOK, Instance
        <4>4. QED BY <2>1, <3>1, <4>1, <4>2, <4>3 DEF ConfigInv
      <3>2. CASE o # q
        <4>1. /\ values'[o] = values[o] /\ instance_h'[o] = instance_h[o]
              /\ upcall'[o] = upcall[o]
          BY <2>1, <3>2 DEF TypeOK
        <4>2. QED BY <2>1, <4>1 DEF ConfigInv, Closed
      <3>3. QED BY <3>1, <3>2
    <2>3. QED BY <2>2 DEF ConfigInv, Closed
  <1>2. CASE ~ (2 > instance_h[q])
    BY <1>2, ConfigQuiet DEF Commit, acceptorVars
  <1>3. QED BY <1>1, <1>2

LEMMA ReturnKeeps ==
  ASSUME TypeOK, NEW p \in Node, Return(p), my_n' = my_n \/ \E g : my_n' = [my_n EXCEPT ![p] = g]
  PROVE  /\ RunOK(p)' /\ phase'[p] # "prepare"
         /\ \A o \in Node : o # p => Idle(o)
  <1>1. phase'[p] = "idle" BY DEF Return, TypeOK
  <1>2. \A o \in Node : o # p => Idle(o) BY DEF Return, TypeOK, Idle
  <1>3. QED BY <1>1, <1>2 DEF RunOK

LEMMA StartKeeps ==
  ASSUME PaxosInvariant, TypeOK', LastInstance = 2, NEW p \in Node, RunStart(p)
  PROVE  PaxosInvariant'
  <1> USE DEF PaxosInvariant
  <1>1. Grows /\ VoteInv' /\ ClosedInv'
    BY QuietStep DEF RunStart, historyVars
  <1>2. ConfigInv' BY ConfigQuiet DEF RunStart, acceptorVars
  <1>3. LateInv' BY <1>1, LateKept DEF RunStart
  <1>4. myvid[p] = 1 BY DEF RunStart, TypeOK, Instance
  <1>5. Mems(p) = FirstView BY <1>4 DEF Mems, ConfigInv
  <1>6. \A mems \in View : \A nv \in NextViews(p, mems) : p \in mems => nv # {}
    BY DEF NextViews, Suspects, View
  <1>7. Setn(p) > 0 /\ Setn(p) \in Nat BY DEF Setn, TypeOK, Ballot
  <1>8. c_v'[p] # {}
    <2>1. \A w \in seen[p] : values[p][w] \in View BY DEF TypeOK
    <2>2. QED BY <1>6, <2>1 DEF RunStart, TypeOK
  <1>9. /\ phase'[p] = "prepare" /\ inst'[p] = 2 /\ c_nodes'[p] = FirstView
        /\ c_v'[p] # {} /\ my_n'[p] > 0 /\ todo'[p] = FirstView
        /\ accepts'[p] = {} /\ max'[p] = Zero(0) /\ v'[p] = {}
    BY <1>4, <1>5, <1>7, <1>8 DEF RunStart, TypeOK
  <1>10. RunOK(p)' BY <1>9 DEF RunOK
  <1>11. PrepareOK(p)' BY <1>9 DEF PrepareOK, Zero
  <1>12. \A o \in Node : o # p => Idle(o) BY DEF RunStart, TypeOK, Idle
  <1>13. proposed' = proposed BY DEF RunStart, historyVars
  <1>14. QED BY <1>1, <1>2, <1>3, <1>10, <1>11, <1>12, <1>13, RunKeeps

LEMMA PrepareOldKeeps ==
  ASSUME PaxosInvariant, TypeOK', LastInstance = 2, NEW p \in Node, NEW q \in Node,
         PrepareOld(p, q)
  PROVE  PaxosInvariant'
  <1> USE DEF PaxosInvariant
  <1>1. Grows /\ VoteInv' /\ ClosedInv'
    BY QuietStep DEF PrepareOld, historyVars
  <1>2. ConfigInv' BY ConfigQuiet DEF PrepareOld, acceptorVars
  <1>3. LateInv' BY <1>1, LateKept DEF PrepareOld
  <1>4. RunOK(p) /\ inst[p] = 2 BY DEF RunInv, RunOK, PrepareOld
  <1>5. Closed(q)
    <2>1. instance_h[q] \in 1..2 BY DEF TypeOK, Instance
    <2>2. 2 <= instance_h[q] BY <1>4 DEF PrepareOld
    <2>3. QED BY <2>1, <2>2 DEF Closed
  <1>6. /\ phase'[p] = "learn" /\ v'[p] = values[q][2] /\ my_n' = my_n
        /\ inst' = inst /\ c_nodes' = c_nodes /\ c_v' = c_v
    BY <1>4 DEF PrepareOld, TypeOK, runVars
  <1>7. Chosen(v'[p]) BY <1>5, <1>6 DEF ClosedInv
  <1>8. Chosen(v[p])' BY <1>1, <1>7, KeepChosen DEF Grows
  <1>9. phase[p] # "idle" BY DEF PrepareOld
  <1>10. RunOK(p)' BY <1>4, <1>6, <1>8, <1>9 DEF RunOK
  <1>11. \A o \in Node : o # p => Idle(o) BY <1>6 DEF PrepareOld, TypeOK, Idle
  <1>12. proposed' = proposed BY DEF PrepareOld, historyVars
  <1>13. QED BY <1>1, <1>2, <1>3, <1>6, <1>10, <1>11, <1>12, RunKeeps

LEMMA PreparePromiseKeeps ==
  ASSUME PaxosInvariant, TypeOK', LastInstance = 2, NEW p \in Node, NEW q \in Node,
         PreparePromise(p, q)
  PROVE  PaxosInvariant'
  <1> USE DEF PaxosInvariant
  <1>1. Mine(p) \in Ballot /\ Promise(q, Mine(p)) /\ proposed' = proposed
    BY MineType DEF PreparePromise
  <1>2. Grows /\ VoteInv' /\ ClosedInv' BY <1>1, PromiseStep
  <1>3. ConfigInv' BY <1>1, ConfigQuiet DEF Promise
  <1>4. LateInv' BY <1>2, LateKept DEF PreparePromise
  <1>5. /\ phase[p] = "prepare" /\ RunOK(p) /\ PrepareOK(p) /\ inst[p] = 2
    BY DEF PreparePromise, RunInv, PrepareInv, RunOK
  <1>6. /\ UNCHANGED <<phase, my_n, inst, c_nodes, c_v>> /\ Mine(p)' = Mine(p)
    BY DEF PreparePromise, runVars, Mine
  <1>7. RunOK(p)' BY <1>5, <1>6 DEF RunOK
  <1>8. \A o \in Node : o # p => Idle(o) BY <1>6 DEF PreparePromise, TypeOK, Idle
  <1>9. ~ Closed(q) /\ q \in todo[p] /\ Gt(Mine(p), n_h[q]) /\ n_h'[q] = Mine(p)
    BY <1>1, <1>5 DEF PreparePromise, Promise, Closed, Turn, TypeOK
  <1>10. /\ n_h[q] \in Ballot /\ n_a[q] \in Ballot /\ max[p] \in Ballot
         /\ max'[p] \in Ballot
    BY DEF TypeOK
  <1>11. /\ todo'[p] = todo[p] \ {q} /\ accepts'[p] = accepts[p] \cup {q}
         /\ max'[p] = IF Outbids(p, q) THEN n_a[q] ELSE max[p]
         /\ v'[p] = IF Outbids(p, q) THEN v_a[q] ELSE v[p]
         /\ voted' = voted /\ instance_h' = instance_h
    BY DEF PreparePromise, Promise, TypeOK
  <1>12. Geq(max'[p], max[p]) /\ Geq(max'[p], n_a[q])
    BY <1>10, <1>11, BallotOrder DEF Outbids
  <1>13. accepts'[p] \subseteq FirstView /\ todo'[p] \subseteq FirstView
    BY <1>5, <1>9, <1>11 DEF PrepareOK
  <1>14. ASSUME NEW o \in accepts'[p]
         PROVE  /\ Closed(o)' \/ Geq(n_h'[o], Mine(p))
                /\ \A r \in proposed : r.n = Mine(p) => o \notin r.nodes
                /\ \A w \in voted : w.node = o /\ Gt(Mine(p), w.n) => Geq(max'[p], w.n)
    <2>1. o \in Node BY <1>13
    <2>2. CASE o = q
      <3>1. Geq(n_h'[o], Mine(p)) BY <1>1, <1>9, <2>2, BallotOrder
      <3>2. ASSUME NEW r \in proposed, r.n = Mine(p), o \in r.nodes PROVE FALSE
        <4>1. Geq(n_h[q], r.n) BY <1>9, <2>2, <3>2 DEF ProposedInv
        <4>2. QED BY <1>1, <1>9, <1>10, <3>2, <4>1, BallotOrder
      <3>3. ASSUME NEW w \in voted, w.node = o PROVE Geq(max'[p], w.n)
        <4>1. Geq(n_a[q], w.n) BY <1>9, <2>2, <3>3 DEF VoteInv
        <4>2. w.n \in Ballot BY DEF TypeOK, Ack
        <4>3. QED BY <1>10, <1>12, <4>1, <4>2, BallotOrder
      <3>4. QED BY <3>1, <3>2, <3>3
    <2>3. CASE o # q
      <3>1. o \in accepts[p] BY <1>11, <2>3
      <3>2. n_h[o] \in Ballot /\ n_h'[o] \in Ballot BY <2>1 DEF TypeOK
      <3>3. Closed(o) \/ Geq(n_h[o], Mine(p)) BY <1>5, <3>1 DEF PrepareOK
      <3>4. Closed(o)' \/ Geq(n_h'[o], Mine(p))
        BY <1>1, <1>2, <2>1, <3>2, <3>3, BallotOrder DEF Grows
      <3>5. ASSUME NEW w \in voted, w.node = o, Gt(Mine(p), w.n) PROVE Geq(max'[p], w.n)
        <4>1. Geq(max[p], w.n) BY <1>5, <3>1, <3>5 DEF PrepareOK
        <4>2. w.n \in Ballot BY DEF TypeOK, Ack
        <4>3. QED BY <1>10, <1>12, <4>1, <4>2, BallotOrder
      <3>6. QED BY <1>5, <3>1, <3>4, <3>5 DEF PrepareOK
    <2>4. QED BY <2>2, <2>3
  <1>15. \/ max'[p].n = 0 /\ v'[p] = {}
         \/ /\ max'[p].n > 0 /\ Gt(Mine(p), max'[p])
            /\ \E r \in proposed : r.n = max'[p] /\ r.v = v'[p]
    <2>1. CASE Outbids(p, q)
      <3>1. max'[p] = n_a[q] /\ v'[p] = v_a[q] BY <1>11, <2>1
      <3>2. Geq(n_h[q], n_a[q]) BY <1>9 DEF VoteInv
      <3>3. Gt(Mine(p), n_a[q]) BY <1>1, <1>9, <1>10, <3>2, BallotOrder
      <3>4. CASE n_a[q].n > 0 /\ IsVote(q, n_a[q], v_a[q])
        <4>1. \E r \in proposed : r.n = n_a[q] /\ r.v = v_a[q]
          BY <3>4 DEF IsVote, VoteInv
        <4>2. QED BY <3>1, <3>3, <3>4, <4>1
      <3>5. QED BY <1>9, <3>1, <3>4 DEF VoteInv
    <2>2. CASE ~ Outbids(p, q)
      BY <1>5, <1>11, <2>2 DEF PrepareOK
    <2>3. QED BY <2>1, <2>2
  <1>16. PrepareOK(p)'
    BY <1>1, <1>6, <1>11, <1>13, <1>14, <1>15 DEF PrepareOK, Closed
  <1>17. QED BY <1>1, <1>2, <1>3, <1>4, <1>7, <1>8, <1>16, RunKeeps

LEMMA PrepareRejectKeeps ==
  ASSUME PaxosInvariant, TypeOK', NEW p \in Node, NEW q \in Node, PrepareReject(p, q)
  PROVE  PaxosInvariant'
  <1> USE DEF PaxosInvariant
  <1>1. Grows /\ VoteInv' /\ ClosedInv'
    BY QuietStep DEF PrepareReject, historyVars
  <1>2. ConfigInv' BY ConfigQuiet DEF PrepareReject, acceptorVars
  <1>3. LateInv' BY <1>1, LateKept DEF PrepareReject
  <1>4. /\ UNCHANGED <<phase, my_n, inst, c_nodes, c_v, accepts, max, v, voted,
                       proposed, n_h, instance_h>>
        /\ phase[p] = "prepare" /\ todo'[p] = todo[p] \ {q}
    BY DEF PrepareReject, historyVars, acceptorVars, runVars, TypeOK
  <1>5. RunOK(p)' BY <1>4 DEF RunOK, RunInv
  <1>6. PrepareOK(p)' BY <1>4 DEF PrepareInv, PrepareOK, Mine, Closed
  <1>7. \A o \in Node : o # p => Idle(o) BY <1>4 DEF PrepareReject, TypeOK, Idle
  <1>8. QED BY <1>1, <1>2, <1>3, <1>4, <1>5, <1>6, <1>7, RunKeeps

LEMMA PrepareMajorityKeeps ==
  ASSUME PaxosInvariant, TypeOK', NEW p \in Node, PrepareMajority(p)
  PROVE  PaxosInvariant'
  <1>1. /\ Grows /\ ProposedInv' /\ SafeInv' /\ VoteInv' /\ ClosedInv'
        /\ \A x \in proposed' : x \notin proposed => x.n.m = p
    BY ProposeStep
  <1>2. PICK x \in proposed' : x.n = Mine(p) /\ x.v = v'[p] /\ x.nodes = accepts[p]
    BY ProposeStep
  <1>3. ConfigInv' BY ConfigQuiet DEF PrepareMajority, acceptorVars, PaxosInvariant
  <1>4. LateInv' BY <1>1, LateKept DEF PrepareMajority
  <1>5. /\ UNCHANGED <<my_n, inst, c_nodes, c_v, max>> /\ phase[p] = "prepare"
        /\ phase'[p] = "accept" /\ todo'[p] = accepts[p] /\ accepts'[p] = {}
    BY DEF PrepareMajority, runVars, TypeOK, PaxosInvariant
  <1>6. RunOK(p)'
    BY <1>2, <1>5 DEF RunOK, RunInv, PaxosInvariant, Mine
  <1>7. \A o \in Node : o # p => Idle(o)
    BY <1>5 DEF PrepareMajority, TypeOK, Idle, PaxosInvariant
  <1>8. ASSUME NEW o \in Node
        PROVE  RunOK(o)' /\ (phase[o] = "prepare" => PrepareOK(o))'
    <2>1. CASE o = p BY <1>5, <1>6, <2>1
    <2>2. CASE o # p
      <3>1. \A y \in proposed' : y \notin proposed => y.n.m # o BY <1>1, <2>2
      <3>2. QED BY <1>1, <1>7, <2>2, <3>1, OthersKeep
    <2>3. QED BY <2>1, <2>2
  <1>9. RunInv' /\ PrepareInv' BY <1>8 DEF RunInv, PrepareInv
  <1>10. QED BY <1>1, <1>3, <1>4, <1>9 DEF PaxosInvariant

LEMMA AcceptYesKeeps ==
  ASSUME PaxosInvariant, TypeOK', LastInstance = 2, NEW p \in Node, NEW q \in Node,
         AcceptYes(p, q)
  PROVE  PaxosInvariant'
  <1> USE DEF PaxosInvariant
  <1>1. /\ RunOK(p) /\ phase[p] = "accept" /\ inst[p] = 2 /\ q \in todo[p]
        /\ Mine(p) \in Ballot /\ v[p] \in View
    BY MineType DEF AcceptYes, RunInv, RunOK, Turn, TypeOK
  <1>2. PICK r \in proposed : /\ r.n = Mine(p) /\ r.v = v[p]
                              /\ todo[p] \cup accepts[p] \subseteq r.nodes
    BY <1>1 DEF RunOK
  <1>3. ~ Closed(q) BY <1>1 DEF AcceptYes, Closed
  <1>4. Vote(q, 2, Mine(p), v[p]) /\ proposed' = proposed BY <1>1 DEF AcceptYes
  <1>5. Grows /\ VoteInv' /\ ClosedInv' BY <1>1, <1>2, <1>3, <1>4, VoteStep
  <1>6. ConfigInv' BY <1>4, ConfigQuiet DEF Vote
  <1>7. LateInv' BY <1>5, LateKept DEF AcceptYes
  <1>8. /\ UNCHANGED <<phase, my_n, inst, c_nodes, c_v, max, v>>
        /\ todo'[p] = todo[p] \ {q} /\ accepts'[p] = accepts[p] \cup {q}
    BY DEF AcceptYes, runVars, TypeOK
  <1>9. Mine(p)' = Mine(p) BY <1>8 DEF Mine
  <1>10. \A o \in accepts'[p] : IsVote(o, Mine(p), v[p])'
    <2>1. IsVote(q, Mine(p), v[p])' BY <1>4, <1>8, <1>9 DEF Vote, IsVote
    <2>2. \A o \in accepts[p] : IsVote(o, Mine(p), v[p])'
      BY <1>1, <1>5, <1>8, <1>9 DEF RunOK, IsVote, Grows
    <2>3. QED BY <1>8, <2>1, <2>2
  <1>11. \E x \in proposed' : /\ x.n = Mine(p)' /\ x.v = v'[p]
                              /\ todo'[p] \cup accepts'[p] \subseteq x.nodes
    BY <1>1, <1>2, <1>4, <1>8, <1>9
  <1>12. RunOK(p)' BY <1>1, <1>8, <1>10, <1>11 DEF RunOK
  <1>13. \A o \in Node : o # p => Idle(o) BY <1>8 DEF AcceptYes, TypeOK, Idle
  <1>14. phase'[p] # "prepare" BY <1>1, <1>8
  <1>15. QED BY <1>4, <1>5, <1>6, <1>7, <1>12, <1>13, <1>14, RunKeeps

LEMMA AcceptNoKeeps ==
  ASSUME PaxosInvariant, TypeOK', NEW p \in Node, NEW q \in Node, AcceptNo(p, q)
  PROVE  PaxosInvariant'
  <1> USE DEF PaxosInvariant
  <1>1. Grows /\ VoteInv' /\ ClosedInv'
    BY QuietStep DEF AcceptNo, historyVars
  <1>2. ConfigInv' BY ConfigQuiet DEF AcceptNo, acceptorVars
  <1>3. LateInv' BY <1>1, LateKept DEF AcceptNo
  <1>4. /\ UNCHANGED <<phase, my_n, inst, c_nodes, c_v, accepts, max, v, voted, proposed>>
        /\ phase[p] = "accept" /\ todo'[p] = todo[p] \ {q}
    BY DEF AcceptNo, historyVars, runVars, TypeOK
  <1>5. RunOK(p)' BY <1>4 DEF RunOK, RunInv, Mine, IsVote
  <1>6. \A o \in Node : o # p => Idle(o) BY <1>4 DEF AcceptNo, TypeOK, Idle
  <1>7. phase'[p] # "prepare" BY <1>4
  <1>8. QED BY <1>1, <1>2, <1>3, <1>4, <1>5, <1>6, <1>7, RunKeeps

LEMMA AcceptMajorityKeeps ==
  ASSUME PaxosInvariant, TypeOK', NEW p \in Node, AcceptMajority(p)
  PROVE  PaxosInvariant'
  <1> USE DEF PaxosInvariant
  <1>1. Grows /\ VoteInv' /\ ClosedInv'
    BY QuietStep DEF AcceptMajority, historyVars
  <1>2. ConfigInv' BY ConfigQuiet DEF AcceptMajority, acceptorVars
  <1>3. LateInv' BY <1>1, LateKept DEF AcceptMajority
  <1>4. /\ UNCHANGED <<my_n, inst, c_nodes, c_v, accepts, max, v, voted, proposed>>
        /\ phase[p] = "accept" /\ phase'[p] = "decide" /\ todo'[p] = accepts[p]
    BY DEF AcceptMajority, historyVars, runVars, TypeOK
  <1>5. RunOK(p) /\ Majority(FirstView, accepts[p])
    BY <1>4 DEF AcceptMajority, RunInv, RunOK
  <1>6. accepts[p] \subseteq FirstView
    BY <1>4, <1>5 DEF RunOK, ProposedInv
  <1>7. AllVoted(accepts[p], 2, Mine(p), v[p])
    BY <1>4, <1>5 DEF RunOK, AllVoted, IsVote
  <1>8. Chosen(v[p])
    <2>1. PICK q \in accepts[p] : TRUE BY <1>5, <1>6, MajoritiesMeet
    <2>2. ChosenAt(Mine(p), v[p]) BY <1>5, <1>6, <1>7 DEF ChosenAt
    <2>3. [inst |-> 2, n |-> Mine(p), v |-> v[p], node |-> q] \in voted
      BY <1>7, <2>1 DEF AllVoted
    <2>4. QED BY <2>2, <2>3 DEF Chosen
  <1>9. Chosen(v[p])' BY <1>1, <1>4, <1>8, KeepChosen DEF Grows
  <1>10. RunOK(p)' BY <1>4, <1>5, <1>9 DEF RunOK, Mine
  <1>11. \A o \in Node : o # p => Idle(o) BY <1>4 DEF AcceptMajority, TypeOK, Idle
  <1>12. phase'[p] # "prepare" BY <1>4
  <1>13. QED BY <1>1, <1>2, <1>3, <1>4, <1>10, <1>11, <1>12, RunKeeps

LEMMA RunEndKeeps ==
  ASSUME PaxosInvariant, TypeOK', NEW p \in Node, NoMajority(p) \/ DecideEnd(p)
  PROVE  PaxosInvariant'
  <1> USE DEF PaxosInvariant
  <1>1. /\ Return(p) /\ UNCHANGED <<acceptorVars, configVars, my_n, late, historyVars>>
    BY DEF NoMajority, DecideEnd
  <1>2. Grows /\ VoteInv' /\ ClosedInv' BY <1>1, QuietStep DEF historyVars
  <1>3. ConfigInv' BY <1>1, ConfigQuiet DEF acceptorVars
  <1>4. LateInv' BY <1>1, <1>2, LateKept
  <1>5. /\ RunOK(p)' /\ phase'[p] # "prepare" /\ \A o \in Node : o # p => Idle(o)
    BY <1>1, ReturnKeeps
  <1>6. QED BY <1>1, <1>2, <1>3, <1>4, <1>5, RunKeeps DEF historyVars

LEMMA DecideKeeps ==
  ASSUME PaxosInvariant, TypeOK', LastInstance = 2, NEW p \in Node, NEW q \in Node,
         Decide(p, q)
  PROVE  PaxosInvariant'
  <1> USE DEF PaxosInvariant
  <1>1. /\ RunOK(p) /\ phase[p] = "decide" /\ inst[p] = 2 /\ v[p] \in View
        /\ Chosen(v[p]) /\ Commit(q, 2, v[p]) /\ proposed' = proposed
    BY DEF Decide, RunInv, RunOK, TypeOK
  <1>2. Grows /\ VoteInv' /\ ClosedInv' BY <1>1, CommitStep
  <1>3. ConfigInv' BY <1>1, ConfigCommit
  <1>4. LateInv' BY <1>2, LateKept DEF Decide
  <1>5. /\ UNCHANGED <<phase, my_n, inst, c_nodes, c_v, accepts, max, v>>
        /\ todo'[p] = todo[p] \ {q}
    BY DEF Decide, runVars, TypeOK
  <1>6. Chosen(v[p])' BY <1>1, <1>2, <1>5, KeepChosen DEF Grows
  <1>7. RunOK(p)' BY <1>1, <1>5, <1>6 DEF RunOK, Mine
  <1>8. \A o \in Node : o # p => Idle(o) BY <1>5 DEF Decide, TypeOK, Idle
  <1>9. phase'[p] # "prepare" BY <1>1, <1>5
  <1>10. QED BY <1>1, <1>2, <1>3, <1>4, <1>7, <1>8, <1>9, RunKeeps

LEMMA TimeoutKeeps ==
  ASSUME PaxosInvariant, TypeOK', NEW p \in Node, NEW q \in Node, Timeout(p, q)
  PROVE  PaxosInvariant'
  <1> USE DEF PaxosInvariant
  <1>1. Grows /\ VoteInv' /\ ClosedInv'
    BY QuietStep DEF Timeout, historyVars
  <1>2. ConfigInv' BY ConfigQuiet DEF Timeout, acceptorVars
  <1>3. /\ UNCHANGED <<phase, my_n, inst, c_nodes, c_v, accepts, max, v, voted,
                       proposed, n_h, instance_h>>
        /\ phase[p] \in {"prepare", "accept", "decide"}
        /\ q \in todo[p] /\ todo'[p] = todo[p] \ {q}
    BY DEF Timeout, historyVars, acceptorVars, runVars, TypeOK, Turn
  <1>4. RunOK(p) BY DEF RunInv
  <1>5. LateOK(Pending(p, q))
    <2>1. /\ Pending(p, q).inst = 2 /\ Pending(p, q).type = phase[p]
          /\ Pending(p, q).dst = q
      BY <1>3, <1>4 DEF Pending, RunOK
    <2>2. phase[p] # "prepare" => Pending(p, q).v = v[p] BY DEF Pending
    <2>3. phase[p] # "decide" => Pending(p, q).n = Mine(p) BY DEF Pending
    <2>4. QED BY <1>3, <1>4, <2>1, <2>2, <2>3 DEF LateOK, RunOK
  <1>6. \A m : LateOK(m) => LateOK(m)' BY <1>1, KeepLate
  <1>7. LateInv'
    <2>1. \A m \in late' : m \in late \/ m = Pending(p, q) BY DEF Timeout
    <2>2. QED BY <1>5, <1>6, <2>1 DEF LateInv
  <1>8. RunOK(p)' BY <1>3, <1>4 DEF RunOK, Mine, IsVote, Chosen, ChosenAt, AllVoted
  <1>9. ASSUME phase'[p] = "prepare" PROVE PrepareOK(p)'
    BY <1>3, <1>9 DEF PrepareInv, PrepareOK, Mine, Closed
  <1>10. \A o \in Node : o # p => Idle(o) BY <1>3 DEF Timeout, TypeOK, Idle
  <1>11. QED BY <1>1, <1>2, <1>3, <1>7, <1>8, <1>9, <1>10, RunKeeps

LEMMA LearnKeeps ==
  ASSUME PaxosInvariant, TypeOK', LastInstance = 2, NEW p \in Node, Learn(p)
  PROVE  PaxosInvariant'
  <1> USE DEF PaxosInvariant
  <1>1. /\ RunOK(p) /\ phase[p] = "learn" /\ inst[p] = 2 /\ v[p] \in View
        /\ Chosen(v[p]) /\ Commit(p, 2, v[p]) /\ proposed' = proposed /\ my_n' = my_n
    BY DEF Learn, RunInv, RunOK, TypeOK
  <1>2. Grows /\ VoteInv' /\ ClosedInv' BY <1>1, CommitStep
  <1>3. ConfigInv' BY <1>1, ConfigCommit
  <1>4. LateInv' BY <1>2, LateKept DEF Learn
  <1>5. CASE inst[p] > instance_h[p]
    <2>1. /\ UNCHANGED <<inst, c_nodes, c_v, todo, accepts, max, v>>
          /\ phase' = [phase EXCEPT ![p] = "upcall"]
      BY <1>5 DEF Learn, runVars, loopVars
    <2>2. phase'[p] = "upcall" BY <2>1 DEF TypeOK
    <2>3. RunOK(p)' BY <1>1, <2>1, <2>2 DEF RunOK
    <2>4. \A o \in Node : o # p => Idle(o) BY <1>1, <2>1 DEF TypeOK, Idle
    <2>5. QED BY <1>1, <1>2, <1>3, <1>4, <2>2, <2>3, <2>4, RunKeeps
  <1>6. CASE ~ (inst[p] > instance_h[p])
    <2>1. Return(p) BY <1>6 DEF Learn
    <2>2. /\ RunOK(p)' /\ phase'[p] # "prepare" /\ \A o \in Node : o # p => Idle(o)
      BY <1>1, <2>1, ReturnKeeps
    <2>3. QED BY <1>1, <1>2, <1>3, <1>4, <2>2, RunKeeps
  <1>7. QED BY <1>5, <1>6

LEMMA CrashKeeps ==
  ASSUME PaxosInvariant, TypeOK', NEW p \in Node, CrashRestart(p)
  PROVE  PaxosInvariant'
  <1> USE DEF PaxosInvariant
  <1>1. Grows /\ VoteInv' /\ ClosedInv'
    BY QuietStep DEF CrashRestart, historyVars
  <1>2. ConfigInv'
    <2>1. /\ values' = values /\ instance_h' = instance_h
          /\ upcall' = [upcall EXCEPT ![p] = {}]
          /\ myvid' = [myvid EXCEPT ![p] = instance_h[p]]
      BY DEF CrashRestart, acceptorVars
    <2>2. instance_h[p] <= instance_h[p] BY DEF TypeOK, Instance
    <2>3. QED BY <2>1, <2>2 DEF ConfigInv, Closed, TypeOK
  <1>3. LateInv' BY <1>1, LateKept DEF CrashRestart
  <1>4. Return(p) /\ \E g : my_n' = [my_n EXCEPT ![p] = g] BY DEF CrashRestart
  <1>5. /\ RunOK(p)' /\ phase'[p] # "prepare" /\ \A o \in Node : o # p => Idle(o)
    BY <1>4, ReturnKeeps
  <1>6. proposed' = proposed BY DEF CrashRestart, historyVars
  <1>7. QED BY <1>1, <1>2, <1>3, <1>5, <1>6, RunKeeps

LEMMA UpcallKeeps ==
  ASSUME PaxosInvariant, TypeOK', NEW p \in Node, NEW i \in Instance, PaxosCommit(p, i)
  PROVE  PaxosInvariant'
  <1> USE DEF PaxosInvariant
  <1>1. Grows /\ VoteInv' /\ ClosedInv'
    BY QuietStep DEF PaxosCommit, historyVars
  <1>2. ConfigInv'
    <2>1. /\ values' = values /\ instance_h' = instance_h
          /\ upcall' = [upcall EXCEPT ![p] = @ \ {i}] /\ myvid' = [myvid EXCEPT ![p] = i]
      BY DEF PaxosCommit, acceptorVars
    <2>2. upcall[p] = {2} /\ Closed(p) /\ i = 2 BY DEF PaxosCommit, ConfigInv
    <2>3. upcall'[p] = {} /\ myvid'[p] = 2 /\ instance_h'[p] = 2
      BY <2>1, <2>2 DEF TypeOK, Closed
    <2>4. QED BY <2>1, <2>3 DEF ConfigInv, Closed, TypeOK
  <1>3. LateInv' BY <1>1, LateKept DEF PaxosCommit
  <1>4. proposed' = proposed /\ my_n' = my_n BY DEF PaxosCommit, historyVars
  <1>5. CASE phase[p] = "upcall" /\ inst[p] = i
    <2>1. Return(p) BY <1>5 DEF PaxosCommit
    <2>2. /\ RunOK(p)' /\ phase'[p] # "prepare" /\ \A o \in Node : o # p => Idle(o)
      BY <1>4, <2>1, ReturnKeeps
    <2>3. QED BY <1>1, <1>2, <1>3, <1>4, <2>2, RunKeeps
  <1>6. CASE ~ (phase[p] = "upcall" /\ inst[p] = i)
    <2>1. \A o \in Node : Idle(o)
      BY <1>4, <1>6 DEF PaxosCommit, runVars, loopVars, Idle
    <2>2. RunOK(p)' /\ (phase[p] = "prepare" => PrepareOK(p))'
      BY <1>1, <1>4, <2>1, OthersKeep
    <2>3. QED BY <1>1, <1>2, <1>3, <1>4, <2>1, <2>2, RunKeeps
  <1>7. QED BY <1>5, <1>6

LEMMA LateKeeps ==
  ASSUME PaxosInvariant, TypeOK', LastInstance = 2, NEW r \in late, LateRequest(r)
  PROVE  PaxosInvariant'
  <1> USE DEF PaxosInvariant
  <1>1. /\ r.dst \in Node /\ r.n \in Ballot /\ r.v \in View /\ LateOK(r) /\ r.inst = 2
    BY DEF TypeOK, Request, LateInv, LateOK
  <1>2. /\ proposed' = proposed /\ late' = late /\ \A o \in Node : Idle(o)
    BY DEF LateRequest, runVars, loopVars, Idle
  <1>3. Grows /\ VoteInv' /\ ClosedInv' /\ ConfigInv'
    <2>1. CASE r.type = "prepare" /\ Promise(r.dst, r.n)
      BY <1>1, <1>2, <2>1, PromiseStep, ConfigQuiet DEF Promise
    <2>2. CASE r.type = "accept" /\ r.inst > instance_h[r.dst]
               /\ Vote(r.dst, r.inst, r.n, r.v)
      <3>1. PICK x \in proposed : x.n = r.n /\ x.v = r.v /\ r.dst \in x.nodes
        BY <1>1, <2>2 DEF LateOK
      <3>2. ~ Closed(r.dst) BY <1>1, <2>2 DEF Closed
      <3>3. Grows /\ VoteInv' /\ ClosedInv'
        BY <1>1, <1>2, <2>2, <3>1, <3>2, VoteStep
      <3>4. ConfigInv' BY <2>2, ConfigQuiet DEF Vote
      <3>5. QED BY <3>3, <3>4
    <2>3. CASE r.type = "decide" /\ Commit(r.dst, r.inst, r.v)
      BY <1>1, <1>2, <2>3, CommitStep, ConfigCommit DEF LateOK
    <2>4. QED BY <2>1, <2>2, <2>3 DEF LateRequest
  <1>4. LateInv' BY <1>2, <1>3, LateKept
  <1>5. RunOK(r.dst)' /\ (phase[r.dst] = "prepare" => PrepareOK(r.dst))'
    BY <1>1, <1>2, <1>3, OthersKeep
  <1>6. QED BY <1>1, <1>2, <1>3, <1>4, <1>5, RunKeeps

LEMMA StutterKeeps ==
  ASSUME PaxosInvariant, UNCHANGED vars
  PROVE  PaxosInvariant'
  <1>1. UNCHANGED <<n_h, n_a, v_a, instance_h, values, upcall, myvid, seen, phase, my_n, inst,
                    c_nodes, c_v, todo, accepts, max, v, late, runs, crashes,
                    proposed, voted>>
    BY DEF vars, acceptorVars, configVars, runVars, loopVars, boundVars, historyVars
  <1>2. TypeOK' /\ ConfigInv' BY <1>1 DEF PaxosInvariant, TypeOK, ConfigInv, Closed
  <1>3. Grows /\ VoteInv' /\ ClosedInv'
    BY <1>1, QuietStep DEF PaxosInvariant, acceptorVars
  <1>4. ProposedInv' /\ SafeInv' BY <1>1, <1>2, <1>3, KeepProposed DEF PaxosInvariant
  <1>5. LateInv' BY <1>1, <1>3, LateKept
  <1>6. \A o \in Node : RunOK(o)' /\ (phase[o] = "prepare" => PrepareOK(o))'
    BY <1>1, <1>2, <1>3, OthersKeep DEF Idle
  <1>7. RunInv' /\ PrepareInv' BY <1>6 DEF RunInv, PrepareInv
  <1>8. QED BY <1>2, <1>3, <1>4, <1>5, <1>7 DEF PaxosInvariant

LEMMA InitInvariant == Init => PaxosInvariant
  <1> SUFFICES ASSUME Init PROVE PaxosInvariant
    OBVIOUS
  <1>1. TypeOK BY InitType
  <1>2. ConfigInv BY DEF Init, ConfigInv, Instance
  <1>3. RunInv /\ PrepareInv BY DEF Init, RunInv, RunOK, PrepareInv
  <1>4. LateInv /\ ProposedInv /\ SafeInv BY DEF Init, LateInv, ProposedInv, SafeInv
  <1>5. VoteInv
    <2>1. \A q \in Node : Zero(q) \in Ballot BY ZeroType
    <2>2. \A q \in Node : Geq(Zero(q), Zero(q)) BY <2>1, BallotOrder
    <2>3. QED BY <2>2 DEF Init, VoteInv, Zero
  <1>6. ClosedInv BY DEF Init, ClosedInv, Closed
  <1>7. QED BY <1>1, <1>2, <1>3, <1>4, <1>5, <1>6 DEF PaxosInvariant

LEMMA NextInvariant ==
  ASSUME LastInstance = 2
  PROVE  PaxosInvariant /\ [Next]_vars => PaxosInvariant'
  <1> SUFFICES ASSUME PaxosInvariant, [Next]_vars PROVE PaxosInvariant'
    OBVIOUS
  <1>1. TypeOK' BY TypeNext DEF PaxosInvariant
  <1>2. ASSUME NEW p \in Node, RunStep(p) PROVE PaxosInvariant'
    BY <1>1, <1>2, PrepareOldKeeps, PreparePromiseKeeps, PrepareRejectKeeps,
       PrepareMajorityKeeps, AcceptYesKeeps, AcceptNoKeeps, AcceptMajorityKeeps,
       RunEndKeeps, DecideKeeps, TimeoutKeeps, LearnKeeps
    DEF RunStep
  <1>3. QED
    BY <1>1, <1>2, StartKeeps, CrashKeeps, UpcallKeeps, LateKeeps, StutterKeeps
    DEF Next

-----------------------------------------------------------------------------
(* What the invariant gives *)

LEMMA HigherCarriesChosen ==
  ASSUME PaxosInvariant, NEW hi \in proposed, NEW lo \in proposed, Gt(hi.n, lo.n),
         ChosenAt(lo.n, lo.v)
  PROVE  hi.v = lo.v
  <1> USE DEF PaxosInvariant
  <1> SUFFICES ASSUME hi.v # lo.v PROVE FALSE
    OBVIOUS
  <1>1. PICK t \in proposed : \A q \in t.nodes : CannotVote(q, lo.n)
    BY DEF SafeInv
  <1>2. t.nodes \subseteq FirstView /\ Majority(FirstView, t.nodes)
    BY DEF ProposedInv
  <1>3. PICK S \in SUBSET FirstView :
           Majority(FirstView, S) /\ AllVoted(S, 2, lo.n, lo.v)
    BY DEF ChosenAt
  <1>4. PICK q \in S : q \in t.nodes BY <1>2, <1>3, MajoritiesMeet
  <1>5. [inst |-> 2, n |-> lo.n, v |-> lo.v, node |-> q] \in voted
    BY <1>3, <1>4 DEF AllVoted
  <1>6. QED BY <1>1, <1>4, <1>5 DEF CannotVote

LEMMA OneChosen ==
  ASSUME PaxosInvariant, NEW x, NEW y, Chosen(x), Chosen(y)
  PROVE  x = y
  <1> USE DEF PaxosInvariant
  <1>1. PICK a \in voted : a.v = x /\ ChosenAt(a.n, x) BY DEF Chosen
  <1>2. PICK b \in voted : b.v = y /\ ChosenAt(b.n, y) BY DEF Chosen
  <1>3. PICK r \in proposed : r.n = a.n /\ r.v = x BY <1>1 DEF VoteInv
  <1>4. PICK s \in proposed : s.n = b.n /\ s.v = y BY <1>2 DEF VoteInv
  <1>5. r.n \in Ballot /\ s.n \in Ballot BY DEF TypeOK, Proposal
  <1>6. CASE r.n = s.n BY <1>3, <1>4, <1>6 DEF ProposedInv
  <1>7. CASE Gt(r.n, s.n) BY <1>2, <1>3, <1>4, <1>7, HigherCarriesChosen
  <1>8. CASE Gt(s.n, r.n) BY <1>1, <1>3, <1>4, <1>8, HigherCarriesChosen
  <1>9. QED BY <1>5, <1>6, <1>7, <1>8, BallotOrder

LEMMA InvariantHolds ==
  ASSUME LastInstance = 2
  PROVE  Spec => []PaxosInvariant
  <1>1. Init => PaxosInvariant BY InitInvariant
  <1>2. PaxosInvariant /\ [Next]_vars => PaxosInvariant' BY NextInvariant
  <1>3. QED BY <1>1, <1>2, PTL DEF Spec

\* Of one instance, all nodes commit the same view, for any number of nodes,
\* runs, crashes and late requests (paxos.cc run with one instance to decide).
THEOREM SingleInstanceAgreement ==
  ASSUME LastInstance = 2
  PROVE  Spec => []Agreement
  <1>1. Spec => []PaxosInvariant BY InvariantHolds
  <1>2. PaxosInvariant => Agreement
    <2> SUFFICES ASSUME PaxosInvariant, NEW p \in Node, NEW q \in Node,
                        NEW i \in Instance, i <= instance_h[p], i <= instance_h[q]
                 PROVE  values[p][i] = values[q][i]
      BY DEF Agreement
    <2>1. CASE i = 1 BY <2>1 DEF PaxosInvariant, ConfigInv
    <2>2. CASE i = 2
      <3>1. Closed(p) /\ Closed(q)
        BY <2>2 DEF Closed, PaxosInvariant, TypeOK, Instance
      <3>2. Chosen(values[p][2]) /\ Chosen(values[q][2])
        BY <3>1 DEF PaxosInvariant, ClosedInv
      <3>3. QED BY <2>2, <3>2, OneChosen
    <2>3. QED BY <2>1, <2>2 DEF Instance
  <1>3. QED BY <1>1, <1>2, PTL

\* Once a view is chosen in an instance, no accept request with a higher
\* number carries another one (what run makes of the prepare answers).
THEOREM SingleInstanceProposals ==
  ASSUME LastInstance = 2
  PROVE  Spec => []ProposalsSafe
  <1>1. Spec => []PaxosInvariant BY InvariantHolds
  <1>2. PaxosInvariant => ProposalsSafe
    <2> SUFFICES ASSUME PaxosInvariant, NEW r \in proposed, NEW w \in voted,
                        Gt(r.n, w.n), ChosenAt(w.n, w.v)
                 PROVE  r.v = w.v
      BY DEF ProposalsSafe
    <2>1. PICK s \in proposed : s.n = w.n /\ s.v = w.v
      BY DEF PaxosInvariant, VoteInv
    <2>2. QED BY <2>1, HigherCarriesChosen
  <1>3. QED BY <1>1, <1>2, PTL

\* A committed view was accepted by a majority of the view before it.
THEOREM SingleInstanceCommits ==
  ASSUME LastInstance = 2
  PROVE  Spec => []CommittedWasChosen
  <1>1. Spec => []PaxosInvariant BY InvariantHolds
  <1>2. PaxosInvariant => CommittedWasChosen
    BY DEF PaxosInvariant, ClosedInv, Closed, CommittedWasChosen, TypeOK, Instance
  <1>3. QED BY <1>1, <1>2, PTL

=============================================================================
