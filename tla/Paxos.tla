------------------------------- MODULE Paxos -------------------------------
(***************************************************************************)
(* The Paxos acceptor and proposer of paxos.cc, which agree on the views   *)
(* of the replicated lock server, one view per instance.  Every node runs  *)
(* one acceptor and one proposer; config.cc calls proposer::run with the   *)
(* view after the current one and is told of decided views by an upcall.   *)
(*                                                                         *)
(* A view is a set of nodes.  Its string form ("1 2 3 ", config::value) is *)
(* only ever compared with the empty string and split into members, so the *)
(* empty set stands for the empty string.                                  *)
(*                                                                         *)
(* An RPC is one step at the callee joined with the caller's handling of   *)
(* the answer, or a timeout; a request that timed out stays in `late' and  *)
(* its handler may still run at any later time, its answer being dropped.  *)
(***************************************************************************)
EXTENDS Integers, FiniteSets

CONSTANTS
    Node,          \* addresses; the order of Nat stands for that of the strings
    FirstView,     \* the view of instance 1, from which every log starts
    LastInstance,  \* bound: no instance after this one is started
    Proposer,      \* bound: the nodes whose config starts view changes
    MaxRuns,       \* bound on the calls of proposer::run
    MaxLate,       \* bound on the requests in flight without a caller
    MaxCrashes,    \* bound on the crashes
    UninitN        \* what the uninitialised proposer::my_n.n may hold

ASSUME NodeAssumption == Node \subseteq Nat \ {0} /\ IsFiniteSet(Node)
ASSUME ViewAssumption == FirstView \subseteq Node /\ FirstView # {}
ASSUME BoundAssumption == /\ LastInstance \in Nat \ {0}
                          /\ MaxRuns \in Nat /\ MaxCrashes \in Nat
                          /\ MaxLate \in Nat
ASSUME ProposerAssumption == Proposer \subseteq Node
ASSUME UninitAssumption == UninitN \subseteq Nat /\ UninitN # {}

VARIABLES
    (* acceptor, durable through its log *)
    n_h,           \* highest proposal promised
    n_a,           \* highest proposal accepted
    v_a,           \* its value
    instance_h,    \* highest instance known decided
    values,        \* the decided view of each instance, {} where there is none
    (* config *)
    upcall,        \* instances committed whose paxos_commit has not run yet
    myvid,         \* the view config is in; mems is that view's value
    seen,          \* the views it has been in since it was started
    (* proposer *)
    phase,         \* where proposer::run is; "idle" is stable = true
    my_n,          \* number of the last proposal used
    inst,          \* the instance being run
    c_nodes, c_v,  \* nodes asked and value wanted in this run
    todo,          \* nodes the current loop has still to call
    accepts,       \* nodes that answered yes to the current loop
    max, v,        \* highest n_a answered, and the value to propose
    (* network *)
    late,          \* requests given up on by their caller
    runs, crashes, \* how often run was called, and a node crashed
    (* history *)
    proposed,      \* every value sent in accept requests, with the nodes asked
    voted          \* every value ever accepted by an acceptor

acceptorVars == <<n_h, n_a, v_a, instance_h, values>>
configVars   == <<upcall, myvid, seen>>
runVars      == <<inst, c_nodes, c_v>>
loopVars     == <<todo, accepts, max, v>>
boundVars    == <<runs, crashes>>
historyVars  == <<proposed, voted>>
vars == <<acceptorVars, configVars, phase, my_n, runVars, loopVars, late,
          boundVars, historyVars>>

Instance == 1..LastInstance
View     == SUBSET Node
Ballot   == [n : Nat, m : Node \cup {0}]   \* prop_t; m = 0 is ""
Phase    == {"idle", "prepare", "accept", "decide", "learn", "upcall"}
Request  == [type : {"prepare", "accept", "decide"}, dst : Node,
             inst : Instance, n : Ballot, v : View]

-----------------------------------------------------------------------------
(* prop_t and quorums *)

\* operator> and operator>= on prop_t
Gt(a, b)  == a.n > b.n \/ (a.n = b.n /\ a.m > b.m)
Geq(a, b) == a.n > b.n \/ (a.n = b.n /\ a.m >= b.m)

\* proposer::majority: l2 holds a majority of l1
Majority(l1, l2) == Cardinality(l1 \cap l2) >= (Cardinality(l1) \div 2) + 1

Zero(m) == [n |-> 0, m |-> m]

\* the number this proposer uses in the current run
Mine(p) == [n |-> my_n[p], m |-> p]

\* proposer::setn
Setn(p) == IF n_h[p].n + 1 > my_n[p] + 1 THEN n_h[p].n + 1 ELSE my_n[p] + 1

Mems(p) == values[p][myvid[p]]

\* the nodes config::heartbeater at p may find dead: the least member pings
\* all the others, which ping only the least member
Suspects(p, mems) == {m \in mems \ {p} :
                        \/ \A o \in mems : p <= o
                        \/ \A o \in mems : m <= o}

\* what config::add and config::remove_wo propose in view mems
NextViews(p, mems) == {mems \cup {m} : m \in Node \ mems}
                        \cup {mems \ {m} : m \in Suspects(p, mems)}

-----------------------------------------------------------------------------
(* What the acceptor's handlers do to the node q they run at *)

\* acceptor::preparereq when the instance is still open at q
Promise(q, b) ==
    /\ n_h' = IF Gt(b, n_h[q]) THEN [n_h EXCEPT ![q] = b] ELSE n_h
    /\ UNCHANGED <<n_a, v_a, instance_h, values, configVars, voted>>

\* mutant: a promise does not bind the acceptor
AcceptAlways(q, b) == TRUE

\* acceptor::acceptreq when the instance is still open at q
AcceptOK(q, b) == Geq(b, n_h[q])
Vote(q, i, b, val) ==
    /\ AcceptOK(q, b)
    /\ n_a' = [n_a EXCEPT ![q] = b]
    /\ v_a' = [v_a EXCEPT ![q] = val]
    /\ voted' = voted \cup {[inst |-> i, n |-> b, v |-> val, node |-> q]}
    /\ UNCHANGED <<n_h, instance_h, values, configVars>>

\* mutant: the instance is counted up instead of taken from the request
CommitCounts(q, i, val) ==
    /\ values' = [values EXCEPT ![q][i] = val]
    /\ instance_h' = [instance_h EXCEPT ![q] = @ + 1]
    /\ n_h' = [n_h EXCEPT ![q] = Zero(q)]
    /\ n_a' = [n_a EXCEPT ![q] = Zero(q)]
    /\ v_a' = [v_a EXCEPT ![q] = {}]
    /\ upcall' = [upcall EXCEPT ![q] = @ \cup {i}]
    /\ UNCHANGED <<myvid, seen, voted>>

\* acceptor::commit_wo; the upcall it makes is the action PaxosCommit
Commit(q, i, val) ==
    IF i > instance_h[q]
    THEN /\ values' = [values EXCEPT ![q][i] = val]
         /\ instance_h' = [instance_h EXCEPT ![q] = i]
         /\ n_h' = [n_h EXCEPT ![q] = Zero(q)]
         /\ n_a' = [n_a EXCEPT ![q] = Zero(q)]
         /\ v_a' = [v_a EXCEPT ![q] = {}]
         /\ upcall' = [upcall EXCEPT ![q] = @ \cup {i}]
         /\ UNCHANGED <<myvid, seen, voted>>
    ELSE UNCHANGED <<acceptorVars, configVars, voted>>

-----------------------------------------------------------------------------
(* proposer::run *)

\* config::add or config::remove_wo calls run; a second caller returns at once.
\* The caller built the view to propose before it let go of cfg_mutex, maybe in
\* a view that config has left since; it reads myvid and mems only now. The two
\* are read one after the other without cfg_mutex; they are taken together here.
RunStart(p) ==
    /\ phase[p] = "idle"
    /\ p \in Proposer
    /\ myvid[p] < LastInstance
    /\ runs < MaxRuns /\ runs' = runs + 1
    /\ \E w \in seen[p] : \E nv \in NextViews(p, values[p][w]) :
         p \in values[p][w] /\ c_v' = [c_v EXCEPT ![p] = nv]
    /\ phase' = [phase EXCEPT ![p] = "prepare"]
    /\ inst' = [inst EXCEPT ![p] = myvid[p] + 1]
    /\ c_nodes' = [c_nodes EXCEPT ![p] = Mems(p)]
    /\ my_n' = [my_n EXCEPT ![p] = Setn(p)]
    /\ todo' = [todo EXCEPT ![p] = Mems(p)]
    /\ accepts' = [accepts EXCEPT ![p] = {}]
    /\ max' = [max EXCEPT ![p] = Zero(0)]
    /\ v' = [v EXCEPT ![p] = {}]
    /\ UNCHANGED <<acceptorVars, configVars, late, crashes, historyVars>>

\* run ends: stable = true; the next run sets everything else but my_n anew
Return(p) ==
    /\ phase' = [phase EXCEPT ![p] = "idle"]
    /\ inst' = [inst EXCEPT ![p] = 1]
    /\ c_nodes' = [c_nodes EXCEPT ![p] = {}]
    /\ c_v' = [c_v EXCEPT ![p] = {}]
    /\ todo' = [todo EXCEPT ![p] = {}]
    /\ accepts' = [accepts EXCEPT ![p] = {}]
    /\ max' = [max EXCEPT ![p] = Zero(0)]
    /\ v' = [v EXCEPT ![p] = {}]

\* the loops go through a view's members in order
Turn(p, q) == q \in todo[p] /\ \A r \in todo[p] : q <= r

\* prepare: q has decided the instance; its value is committed here (Learn)
PrepareOld(p, q) ==
    /\ phase[p] = "prepare" /\ Turn(p, q)
    /\ inst[p] <= instance_h[q]
    /\ phase' = [phase EXCEPT ![p] = "learn"]
    /\ v' = [v EXCEPT ![p] = values[q][inst[p]]]
    /\ UNCHANGED <<acceptorVars, configVars, my_n, runVars, todo, accepts, max, late,
                   boundVars, historyVars>>

\* mutant: the last answer counts, not the one with the highest number
Outbids_Last(p, q) == TRUE

\* q's last accepted proposal is the highest reported to p so far
Outbids(p, q) == Gt(n_a[q], max[p])

\* prepare: q promises, and reports the proposal it accepted last
PreparePromise(p, q) ==
    /\ phase[p] = "prepare" /\ Turn(p, q)
    /\ inst[p] > instance_h[q]
    /\ Gt(Mine(p), n_h[q])
    /\ Promise(q, Mine(p))
    /\ todo' = [todo EXCEPT ![p] = @ \ {q}]
    /\ accepts' = [accepts EXCEPT ![p] = @ \cup {q}]
    /\ max' = IF Outbids(p, q) THEN [max EXCEPT ![p] = n_a[q]] ELSE max
    /\ v' = IF Outbids(p, q) THEN [v EXCEPT ![p] = v_a[q]] ELSE v
    /\ UNCHANGED <<phase, my_n, runVars, late, boundVars, proposed>>

\* prepare: q has promised as high a number already
PrepareReject(p, q) ==
    /\ phase[p] = "prepare" /\ Turn(p, q)
    /\ inst[p] > instance_h[q]
    /\ ~ Gt(Mine(p), n_h[q])
    /\ todo' = [todo EXCEPT ![p] = @ \ {q}]
    /\ UNCHANGED <<acceptorVars, configVars, phase, my_n, runVars, accepts, max, v,
                   late, boundVars, historyVars>>

\* the prepare loop is over and a majority promised: on to accept
PrepareMajority(p) ==
    /\ phase[p] = "prepare" /\ todo[p] = {}
    /\ Majority(c_nodes[p], accepts[p])
    /\ LET val == IF v[p] = {} THEN c_v[p] ELSE v[p]
       IN  /\ v' = [v EXCEPT ![p] = val]
           /\ proposed' = proposed \cup
                {[inst |-> inst[p], n |-> Mine(p), v |-> val, nodes |-> accepts[p]]}
    /\ phase' = [phase EXCEPT ![p] = "accept"]
    /\ todo' = [todo EXCEPT ![p] = accepts[p]]
    /\ accepts' = [accepts EXCEPT ![p] = {}]
    /\ UNCHANGED <<acceptorVars, configVars, my_n, runVars, max, late, boundVars, voted>>

\* accept: q accepts the proposal
AcceptYes(p, q) ==
    /\ phase[p] = "accept" /\ Turn(p, q)
    /\ inst[p] > instance_h[q]
    /\ Vote(q, inst[p], Mine(p), v[p])
    /\ todo' = [todo EXCEPT ![p] = @ \ {q}]
    /\ accepts' = [accepts EXCEPT ![p] = @ \cup {q}]
    /\ UNCHANGED <<phase, my_n, runVars, max, v, late, boundVars, proposed>>

\* accept: q has promised more since, or has decided the instance
AcceptNo(p, q) ==
    /\ phase[p] = "accept" /\ Turn(p, q)
    /\ inst[p] <= instance_h[q] \/ ~ AcceptOK(q, Mine(p))
    /\ todo' = [todo EXCEPT ![p] = @ \ {q}]
    /\ UNCHANGED <<acceptorVars, configVars, phase, my_n, runVars, accepts, max, v,
                   late, boundVars, historyVars>>

\* mutant: decides on whatever was accepted
AcceptAnyNumber(p) ==
    /\ phase[p] = "accept" /\ todo[p] = {}
    /\ accepts[p] # {}
    /\ phase' = [phase EXCEPT ![p] = "decide"]
    /\ todo' = [todo EXCEPT ![p] = accepts[p]]
    /\ UNCHANGED <<acceptorVars, configVars, my_n, runVars, accepts, max, v, late,
                   boundVars, historyVars>>

\* the accept loop is over and a majority accepted: on to decide
AcceptMajority(p) ==
    /\ phase[p] = "accept" /\ todo[p] = {}
    /\ Majority(c_nodes[p], accepts[p])
    /\ phase' = [phase EXCEPT ![p] = "decide"]
    /\ todo' = [todo EXCEPT ![p] = accepts[p]]
    /\ UNCHANGED <<acceptorVars, configVars, my_n, runVars, accepts, max, v, late,
                   boundVars, historyVars>>

\* mutant: after a failed accept loop stable stays false
NoMajorityStuck(p) ==
    /\ phase[p] = "prepare" /\ todo[p] = {}
    /\ ~ Majority(c_nodes[p], accepts[p])
    /\ Return(p)
    /\ UNCHANGED <<acceptorVars, configVars, my_n, late, boundVars, historyVars>>

\* either loop is over without a majority: run returns false
NoMajority(p) ==
    /\ phase[p] \in {"prepare", "accept"} /\ todo[p] = {}
    /\ ~ Majority(c_nodes[p], accepts[p])
    /\ Return(p)
    /\ UNCHANGED <<acceptorVars, configVars, my_n, late, boundVars, historyVars>>

\* decide: q commits
Decide(p, q) ==
    /\ phase[p] = "decide" /\ Turn(p, q)
    /\ Commit(q, inst[p], v[p])
    /\ todo' = [todo EXCEPT ![p] = @ \ {q}]
    /\ UNCHANGED <<phase, my_n, runVars, accepts, max, v, late, boundVars, proposed>>

\* every node that accepted has been told: run returns true
DecideEnd(p) ==
    /\ phase[p] = "decide" /\ todo[p] = {}
    /\ Return(p)
    /\ UNCHANGED <<acceptorVars, configVars, my_n, late, boundVars, historyVars>>

\* the request of the current loop to q
Pending(p, q) == [type |-> phase[p], dst |-> q, inst |-> inst[p],
                  n |-> IF phase[p] = "decide" THEN Zero(0) ELSE Mine(p),
                  v |-> IF phase[p] = "prepare" THEN {} ELSE v[p]]

\* h.get_rpcc() is null or no answer came within a second, in which case the
\* request may still be on its way
Timeout(p, q) ==
    /\ phase[p] \in {"prepare", "accept", "decide"} /\ Turn(p, q)
    /\ \/ late' = late
       \/ Cardinality(late) < MaxLate /\ late' = late \cup {Pending(p, q)}
    /\ todo' = [todo EXCEPT ![p] = @ \ {q}]
    /\ UNCHANGED <<acceptorVars, configVars, phase, my_n, runVars, accepts, max,
                   v, boundVars, historyVars>>

\* prepare returns false after acc->commit(instance, resp.v_a); the commit
\* makes the upcall on this thread, so run only returns after it
Learn(p) ==
    /\ phase[p] = "learn"
    /\ Commit(p, inst[p], v[p])
    /\ IF inst[p] > instance_h[p]
       THEN /\ phase' = [phase EXCEPT ![p] = "upcall"]
            /\ UNCHANGED <<runVars, loopVars>>
       ELSE Return(p)
    /\ UNCHANGED <<my_n, late, boundVars, proposed>>

-----------------------------------------------------------------------------
(* Late requests, upcalls, crashes *)

\* the handler of a request nobody waits for any more
LateRequest(r) ==
    /\ r \in late
    /\ \/ /\ r.type = "prepare" /\ r.inst > instance_h[r.dst]
          /\ Promise(r.dst, r.n)
       \/ /\ r.type = "accept" /\ r.inst > instance_h[r.dst]
          /\ Vote(r.dst, r.inst, r.n, r.v)
       \/ /\ r.type = "decide"
          /\ Commit(r.dst, r.inst, r.v)
    /\ UNCHANGED <<phase, my_n, runVars, loopVars, late, boundVars, proposed>>

\* config::paxos_commit and the commit_change it ends in: commit_wo has released
\* the acceptor's mutex, so the upcalls of two commits may come in either order.
\* The upcall that prepare's commit makes still holds the proposer's mutex and may
\* never end (Fairness).
PaxosCommit(p, i) ==
    /\ i \in upcall[p]
    /\ upcall' = [upcall EXCEPT ![p] = @ \ {i}]
    /\ myvid' = [myvid EXCEPT ![p] = i]
    /\ seen' = [seen EXCEPT ![p] = @ \cup {i}]
    /\ IF phase[p] = "upcall" /\ inst[p] = i
       THEN Return(p)
       ELSE UNCHANGED <<phase, runVars, loopVars>>
    /\ UNCHANGED <<acceptorVars, my_n, late, boundVars, historyVars>>

\* mutant: a restarted config keeps the view it had instead of the log's
RestartKeepsView(p) ==
    /\ crashes < MaxCrashes /\ crashes' = crashes + 1
    /\ \E g \in UninitN : my_n' = [my_n EXCEPT ![p] = g]
    /\ Return(p)
    /\ upcall' = [upcall EXCEPT ![p] = {}]
    /\ late' = {r \in late : r.dst # p}
    /\ UNCHANGED <<acceptorVars, myvid, seen, runs, historyVars>>

\* the process dies and starts again from its log: config::reconstruct takes
\* the view from the acceptor, the proposer is new and its my_n.n has not
\* been set, and requests addressed to the old server are refused by nonce
CrashRestart(p) ==
    /\ crashes < MaxCrashes /\ crashes' = crashes + 1
    /\ \E g \in UninitN : my_n' = [my_n EXCEPT ![p] = g]
    /\ Return(p)
    /\ upcall' = [upcall EXCEPT ![p] = {}]
    /\ myvid' = [myvid EXCEPT ![p] = instance_h[p]]
    /\ seen' = [seen EXCEPT ![p] = {instance_h[p]}]
    /\ late' = {r \in late : r.dst # p}
    /\ UNCHANGED <<acceptorVars, runs, historyVars>>

-----------------------------------------------------------------------------
Init ==
    /\ n_h = [p \in Node |-> Zero(p)]
    /\ n_a = [p \in Node |-> Zero(p)]
    /\ v_a = [p \in Node |-> {}]
    /\ instance_h = [p \in Node |-> 1]
    /\ values = [p \in Node |-> [i \in Instance |-> IF i = 1 THEN FirstView ELSE {}]]
    /\ upcall = [p \in Node |-> {}]
    /\ myvid = [p \in Node |-> 1]
    /\ seen = [p \in Node |-> {1}]
    /\ phase = [p \in Node |-> "idle"]
    /\ my_n \in [Node -> UninitN]
    /\ inst = [p \in Node |-> 1]
    /\ c_nodes = [p \in Node |-> {}]
    /\ c_v = [p \in Node |-> {}]
    /\ todo = [p \in Node |-> {}]
    /\ accepts = [p \in Node |-> {}]
    /\ max = [p \in Node |-> Zero(0)]
    /\ v = [p \in Node |-> {}]
    /\ runs = 0 /\ crashes = 0
    /\ late = {} /\ proposed = {} /\ voted = {}

\* one pass of proposer::run's code by p's own thread
RunStep(p) ==
    \/ \E q \in Node : \/ PrepareOld(p, q) \/ PreparePromise(p, q)
                       \/ PrepareReject(p, q) \/ AcceptYes(p, q)
                       \/ AcceptNo(p, q) \/ Decide(p, q) \/ Timeout(p, q)
    \/ PrepareMajority(p) \/ AcceptMajority(p) \/ NoMajority(p)
    \/ DecideEnd(p) \/ Learn(p)

Next ==
    \/ \E p \in Node : RunStart(p) \/ RunStep(p) \/ CrashRestart(p)
    \/ \E p \in Node, i \in Instance : PaxosCommit(p, i)
    \/ \E r \in late : LateRequest(r)

Spec == Init /\ [][Next]_vars

\* The proposer's thread is scheduled and each of its calls returns within a
\* second; so is a thread that makes an upcall, as long as the proposer of its
\* node is not in one. The upcall that prepare makes holds the proposer's mutex.
\* It may wait for ever for rsm_mutex, which joinreq keeps over add, or for
\* cfg_mutex, which a heartbeat keeps while it waits for the proposer's mutex
\* (isrunning); then every upcall of the node waits with it. So nothing is owed
\* while phase is "upcall".
Fairness == /\ \A p \in Node : WF_vars(RunStep(p))
            /\ \A p \in Node, i \in Instance :
                  WF_vars(phase[p] # "upcall" /\ PaxosCommit(p, i))

FairSpec == Spec /\ Fairness

-----------------------------------------------------------------------------
(* Properties *)

Proposal == [inst : Instance, n : Ballot, v : View, nodes : View]
Ack      == [inst : Instance, n : Ballot, v : View, node : Node]

\* The types of the variables.
TypeOK ==
    /\ n_h \in [Node -> Ballot] /\ n_a \in [Node -> Ballot]
    /\ v_a \in [Node -> View]
    /\ instance_h \in [Node -> Instance]
    /\ values \in [Node -> [Instance -> View]]
    /\ upcall \in [Node -> SUBSET Instance] /\ myvid \in [Node -> Instance]
    /\ seen \in [Node -> SUBSET Instance]
    /\ phase \in [Node -> Phase] /\ my_n \in [Node -> Nat]
    /\ inst \in [Node -> Instance]
    /\ c_nodes \in [Node -> View] /\ c_v \in [Node -> View]
    /\ todo \in [Node -> View] /\ accepts \in [Node -> View]
    /\ max \in [Node -> Ballot] /\ v \in [Node -> View]
    /\ late \subseteq Request
    /\ runs \in Nat /\ crashes \in Nat
    /\ proposed \subseteq Proposal /\ voted \subseteq Ack

\* Two nodes that have committed an instance have the same view for it,
\* however their proposers raced, timed out, crashed or learned it from a
\* node that was ahead (prepare's oldinstance answer).
Agreement ==
    \A p, q \in Node : \A i \in Instance :
        i <= instance_h[p] /\ i <= instance_h[q] => values[p][i] = values[q][i]

\* Every node of S accepted view val for instance i under number b.
AllVoted(S, i, b, val) ==
    \A q \in S : [inst |-> i, n |-> b, v |-> val, node |-> q] \in voted

\* A majority of the view before instance 2 accepted val under one number.
ChosenAt(b, val) == \E S \in SUBSET FirstView :
                       Majority(FirstView, S) /\ AllVoted(S, 2, b, val)
Chosen(val) == \E w \in voted : w.v = val /\ ChosenAt(w.n, val)

\* Once a majority has accepted a view, every accept request sent with a
\* higher number carries that view: what the proposer picks from the
\* prepare answers never competes with it.
ProposalsSafe ==
    \A r \in proposed, w \in voted :
        Gt(r.n, w.n) /\ ChosenAt(w.n, w.v) => r.v = w.v

\* A view is committed only after a majority of the previous view accepted it.
CommittedWasChosen ==
    \A p \in Node : instance_h[p] >= 2 => Chosen(values[p][2])

\* Every call of proposer::run returns, whatever its requests meet, unless it
\* stays for ever in the upcall that prepare makes for an old instance.
RunReturns ==
    \A p \in Node :
        phase[p] # "idle" ~> phase[p] = "idle" \/ [](phase[p] = "upcall")

\* A view the acceptor committed reaches config, by the upcall or, if the node
\* crashes before it, by reconstruct at the restart, unless the node's proposer
\* stays for ever in the upcall that prepare makes, and with it cfg_mutex.
ConfigLearns ==
    \A p \in Node : \A i \in Instance :
        instance_h[p] >= i ~> myvid[p] >= i \/ [](phase[p] = "upcall")

-----------------------------------------------------------------------------
(* Promises that the code does not keep.  README.md describes the behaviours   *)
(* in which TLC finds them violated; no run relies on them.                    *)

\* Two views that follow each other differ by one node that was added or removed
\* (config.cc: "the next view will be the same as previous view, except with the
\* new node added or removed").
ViewsFollow ==
    \A p \in Node : \A i \in Instance :
        i > 1 /\ i <= instance_h[p] /\ values[p][i - 1] # {} /\ values[p][i] # {} =>
            \E m \in Node : values[p][i] \cup {m} = values[p][i - 1] \cup {m}

\* When no upcall is outstanding, config is in the acceptor's latest view.
ConfigInStep ==
    \A p \in Node : upcall[p] = {} => myvid[p] = instance_h[p]

=============================================================================
