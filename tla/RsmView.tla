------------------------------ MODULE RsmView ------------------------------
(***************************************************************************)
(* Views, joining and the primary: rsm (rsm.cc), config (config.cc), the   *)
(* log that a joining node takes over (log.cc), and the acceptor and       *)
(* proposer of paxos.cc underneath, where one round of Paxos is one step.  *)
(* The interleavings inside a round are those of module Paxos.             *)
(*                                                                         *)
(* Threads of a node: the recovery thread (rec), the heartbeater (hb), the *)
(* handler of joinreq (jr), which holds rsm_mutex from its first to its    *)
(* last step, and the threads that run upcalls of committed views.         *)
(*                                                                         *)
(* Simplifications:                                                        *)
(*  - add and remove_wo build the view and start the round in one step;    *)
(*    what happens between is in module Paxos.                             *)
(*  - insync, inviewchange and the view stamps are written, never read:    *)
(*    the replication they are for is a stub at this commit.               *)
(*  - the answer of a joinreq is not on its way: the joiner restores what  *)
(*    the primary dumps in the step that dumps it.  In the code both may   *)
(*    change in between, and the joiner may go back to an older view.      *)
(***************************************************************************)
EXTENDS Integers, Sequences, FiniteSets, FiniteSetsExt, SequencesExt

CONSTANTS
    Node,        \* addresses, ordered
    First,       \* the node every node is told of at its start
    MaxView,     \* bound: instances; the first node's start takes one
    MaxRounds,   \* bound: rounds of Paxos
    MaxStarts,   \* bound: starts of a process
    MaxFaults,   \* bound: crashes, and heartbeats that time out at a live node
    NULL

ASSUME RsmViewAssumption ==
    /\ Node \subseteq Nat /\ First \in Node
    /\ MaxView \in Nat \ {0} /\ MaxRounds \in Nat /\ MaxStarts \in Nat
    /\ MaxFaults \in Nat
    /\ NULL \notin Node

VARIABLES
    up,          \* the process runs
    instance_h,  \* acceptor: highest committed instance, logged
    values,      \* acceptor: the view of an instance, <<>> where there is none
    logged,      \* log: the instances whose view it holds
    vote,        \* acceptor: n_a and v_a, logged
    myvid, mems, \* config: the current view's number and its members
    stuck,       \* cfg_mutex is held by a thread that waits for ever
    primary,     \* rsm: who is the primary
    rec, hb, jr, \* the node's threads
    upcalls,     \* committed views that paxos_commit has not been told of
    changes,     \* those that paxos_commit has passed on to commit_change
    decides,     \* decidereqs of runs under way that have not arrived
    rounds, starts, faults

acceptorVars == <<instance_h, values, logged, vote>>
countVars == <<rounds, starts, faults>>
vars == <<up, acceptorVars, myvid, mems, stuck, primary, rec, hb, jr, upcalls,
          changes, decides, countVars>>

---------------------------------------------------------------------------
(* State *)

Instance == 1 .. MaxView
View == Seq(Node)

NoVote == [b |-> 0, v |-> <<>>]
Idle == [pc |-> "idle", m |-> NULL]

\* config::get_curview: what the acceptor has for the view config is in.  It
\* is not mems once prepare has committed that instance again (set_primary).
curview(n) == IF myvid[n] = 0 THEN <<>> ELSE values[n][myvid[n]]

isamember(m, s) == m \in Range(s)

\* A member that is listed twice counts twice.
majority(S, s) == 2 * Cardinality({i \in DOMAIN s : s[i] \in S}) > Len(s)

TypeOK ==
    /\ up \in [Node -> BOOLEAN]
    /\ instance_h \in [Node -> 0 .. MaxView] /\ myvid \in [Node -> 0 .. MaxView]
    /\ values \in [Node -> [Instance -> View]] /\ mems \in [Node -> View]
    /\ logged \in [Node -> SUBSET Instance]
    /\ vote \in [Node -> [b : 0 .. MaxRounds, v : View]]
    /\ stuck \in [Node -> BOOLEAN]
    /\ primary \in [Node -> Node]
    /\ rec \in [Node -> [pc : {"check", "call", "wait"}, m : Node \cup {NULL}]]
    /\ hb \in [Node -> [pc : {"idle", "remove", "decide", "upcall"}, m : Node \cup {NULL}]]
    /\ jr \in [Node -> [pc : {"idle", "add", "decide", "upcall"}, m : Node \cup {NULL}]]
    /\ \A n \in Node : \A u \in upcalls[n] \cup changes[n] :
         u.i \in Instance /\ u.v \in View /\ u.by \in {"decide", "hb", "jr"}
    /\ \A d \in decides : d.to \in Node /\ d.i \in Instance /\ d.v \in View
    /\ rounds \in 0 .. MaxRounds /\ starts \in [Node -> 0 .. MaxStarts]
    /\ faults \in 0 .. MaxFaults

Init ==
    /\ up = [n \in Node |-> FALSE]
    /\ instance_h = [n \in Node |-> 0] /\ myvid = [n \in Node |-> 0]
    /\ mems = [n \in Node |-> <<>>]
    /\ values = [n \in Node |-> [i \in Instance |-> <<>>]]
    /\ logged = [n \in Node |-> {}]
    /\ vote = [n \in Node |-> NoVote]
    /\ stuck = [n \in Node |-> FALSE]
    /\ primary = [n \in Node |-> First]
    /\ rec = [n \in Node |-> [pc |-> "check", m |-> NULL]]
    /\ hb = [n \in Node |-> Idle] /\ jr = [n \in Node |-> Idle]
    /\ upcalls = [n \in Node |-> {}] /\ changes = [n \in Node |-> {}]
    /\ decides = {}
    /\ rounds = 0 /\ starts = [n \in Node |-> 0] /\ faults = 0

---------------------------------------------------------------------------
(* Processes *)

\* config::reconstruct, behind what changes the acceptor.
reconstruct(n) ==
    LET i == instance_h'[n] IN
    IF i > 0 THEN /\ myvid' = [myvid EXCEPT ![n] = i]
                  /\ mems' = [mems EXCEPT ![n] = values'[n][i]]
             ELSE UNCHANGED <<myvid, mems>>

\* The constructors of rsm, config, acceptor and log: what the log holds is
\* read back, the first node of all makes up view 1, and reconstruct enters
\* the last view without an upcall to rsm, whose primary is First again.
Start(n) ==
    LET fresh == instance_h[n] = 0 /\ n = First IN
    /\ ~up[n] /\ starts[n] < MaxStarts
    /\ up' = [up EXCEPT ![n] = TRUE]
    /\ starts' = [starts EXCEPT ![n] = @ + 1]
    /\ values' = [values EXCEPT ![n] = [i \in Instance |->
                    CASE i = 1 /\ fresh -> <<n>> [] i \in logged[n] -> @[i] [] OTHER -> <<>>]]
    /\ logged' = IF fresh THEN [logged EXCEPT ![n] = {1}] ELSE logged
    /\ instance_h' = IF fresh THEN [instance_h EXCEPT ![n] = 1] ELSE instance_h
    /\ reconstruct(n)
    /\ primary' = [primary EXCEPT ![n] = First]
    /\ rec' = [rec EXCEPT ![n] = [pc |-> "check", m |-> NULL]]
    /\ UNCHANGED <<vote, stuck, hb, jr, upcalls, changes, decides, rounds, faults>>

\* The calls of decide have been answered or have timed out.  A decidereq
\* that outlives its caller is in module Paxos.
EndRun(n) == decides' = {d \in decides : d.from # n}

\* The threads of a process that ends.
Forget(n) ==
    /\ up' = [up EXCEPT ![n] = FALSE]
    /\ stuck' = [stuck EXCEPT ![n] = FALSE]
    /\ rec' = [rec EXCEPT ![n] = [pc |-> "check", m |-> NULL]]
    /\ hb' = [hb EXCEPT ![n] = Idle]
    /\ jr' = [jr EXCEPT ![n] = Idle]
    /\ upcalls' = [upcalls EXCEPT ![n] = {}]
    /\ changes' = [changes EXCEPT ![n] = {}]
    /\ EndRun(n)
    \* not state: never read before the next start sets them
    /\ myvid' = [myvid EXCEPT ![n] = 0]
    /\ mems' = [mems EXCEPT ![n] = <<>>]
    /\ primary' = [primary EXCEPT ![n] = First]

Crash(n) ==
    /\ up[n] /\ faults < MaxFaults
    /\ faults' = faults + 1
    /\ Forget(n)
    /\ UNCHANGED <<acceptorVars, rounds, starts>>

---------------------------------------------------------------------------
(* Committing a view *)

\* The log's record of a committed instance.
loginstance(n, i) == logged' = [logged EXCEPT ![n] = @ \cup {i}]

\* acceptor::commit_wo by thread by of node n, up to the upcall.
commit(n, i, v, by) ==
    /\ instance_h' = [instance_h EXCEPT ![n] = i]
    /\ values' = [values EXCEPT ![n][i] = v]
    /\ loginstance(n, i)
    /\ vote' = [vote EXCEPT ![n] = NoVote]
    /\ upcalls' = [upcalls EXCEPT ![n] = @ \cup {[i |-> i, v |-> v, by |-> by]}]

\* decidereq: an instance that is not news is ignored.
decidereq(d) ==
    /\ d \in decides
    /\ up[d.to]
    /\ decides' = decides \ {d}
    /\ \/ /\ d.i > instance_h[d.to]
          /\ commit(d.to, d.i, d.v, "decide")
       \/ /\ d.i <= instance_h[d.to]
          /\ UNCHANGED <<acceptorVars, upcalls>>
    /\ UNCHANGED <<up, myvid, mems, stuck, primary, rec, hb, jr, changes, countVars>>

\* config::paxos_commit, up to the call of commit_change.
paxos_commit(n, u) ==
    /\ up[n] /\ ~stuck[n] /\ u \in upcalls[n]
    /\ upcalls' = [upcalls EXCEPT ![n] = @ \ {u}]
    /\ changes' = [changes EXCEPT ![n] = @ \cup {u}]
    /\ myvid' = [myvid EXCEPT ![n] = u.i]
    /\ mems' = [mems EXCEPT ![n] = u.v]
    /\ UNCHANGED <<up, acceptorVars, stuck, primary, rec, hb, jr, decides, countVars>>

\* rsm::set_primary: the primary stays if it is in the new view, else it is
\* the first node of the previous view that is.  NULL stands for a failed
\* assert: an empty view, or a previous view the node never learned.
set_primary(n) ==
    LET c == curview(n)
        p == IF myvid[n] > 1 THEN values[n][myvid[n] - 1] ELSE <<>>
        rest == {i \in DOMAIN p : isamember(p[i], c)} IN
    CASE c = <<>> -> NULL
      [] c # <<>> /\ isamember(primary[n], c) -> primary[n]
      [] c # <<>> /\ ~isamember(primary[n], c) /\ rest # {} -> p[Min(rest)]
      [] OTHER -> NULL

Wake(n) == rec' = IF rec[n].pc = "wait" THEN [rec EXCEPT ![n].pc = "check"] ELSE rec

\* mutant: commit_change does not signal recovery_cond
Changed_silent(n, u) ==
    /\ changes' = [changes EXCEPT ![n] = @ \ {u}]
    /\ primary' = [primary EXCEPT ![n] = set_primary(n)]
    /\ hb' = IF u.by = "hb" THEN [hb EXCEPT ![n] = Idle] ELSE hb
    /\ UNCHANGED <<up, myvid, mems, stuck, jr, upcalls, decides, rec>>

\* A commit_change, which needs rsm_mutex, and the end of the upcall.  A
\* proposer's thread returns from its run.
Changed(n, u) ==
    /\ changes' = [changes EXCEPT ![n] = @ \ {u}]
    /\ primary' = [primary EXCEPT ![n] = set_primary(n)]
    /\ Wake(n)
    /\ hb' = IF u.by = "hb" THEN [hb EXCEPT ![n] = Idle] ELSE hb
    /\ UNCHANGED <<up, myvid, mems, stuck, jr, upcalls, decides>>

\* mutant: set_primary goes on without its asserts
commit_change_unasserted(n, u) ==
    /\ up[n] /\ ~stuck[n] /\ u \in changes[n]
    /\ jr[n].pc = "idle"
    /\ Changed(n, u)
    /\ UNCHANGED <<acceptorVars, countVars>>

commit_change(n, u) ==
    /\ up[n] /\ ~stuck[n] /\ u \in changes[n]
    /\ jr[n].pc = "idle"
    /\ \/ set_primary(n) # NULL /\ Changed(n, u)
       \/ set_primary(n) = NULL /\ Forget(n)
    /\ UNCHANGED <<acceptorVars, countVars>>

---------------------------------------------------------------------------
(* A round of Paxos *)

\* proposer::stable is false, and the proposer's mutex is held over the
\* upcall that prepare makes.
running(n) == hb[n].pc \in {"decide", "upcall"} \/ jr[n].pc \in {"decide", "upcall"}
upcalling(n) == hb[n].pc = "upcall" \/ jr[n].pc = "upcall"

\* prepare: a node has already committed the instance.  Its view of it, if it
\* has one, is committed here by the thread of the proposer.
OldInstance(n, i, by) ==
    \E q \in Range(mems[n]) :
        /\ up[q] /\ instance_h[q] >= i /\ i > instance_h[n]
        /\ commit(n, i, values[q][i], by)

\* The log's record of an accepted proposal, at every node of A.
logprop(A, b, v) == vote' = [q \in Node |-> IF q \in A THEN [b |-> b, v |-> v] ELSE vote[q]]

\* prepare and accept: R answer the first and vote for the value with the
\* highest proposal number among them; A is the part of R whose answer to
\* accept counts.
Accepts(n, i, v, R, A) ==
    LET high == CHOOSE q \in R : \A r \in R : vote[r].b <= vote[q].b
        w == IF vote[high].v = <<>> THEN v ELSE vote[high].v IN
    /\ rounds' = rounds + 1
    /\ logprop(A, rounds + 1, w)
    /\ decides' = IF majority(A, mems[n])
                  THEN decides \cup [from : {n}, to : A, i : {i}, v : {w}] ELSE decides
    /\ UNCHANGED <<instance_h, values, logged>>

Answering(n, i) == {q \in Range(mems[n]) : up[q] /\ instance_h[q] < i}

\* proposer::run of thread by for view v.  won, lost and old are what the
\* thread does then.  A run is lost when another is under way, when too few
\* answers come in time, and when the node itself has moved on meanwhile.
run(n, v, by, won, lost, old) ==
    LET i == myvid[n] + 1 IN
    /\ ~upcalling(n)
    /\ \/ /\ lost
          /\ UNCHANGED <<acceptorVars, decides, rounds, upcalls>>
       \/ /\ ~running(n) /\ i <= MaxView
          /\ OldInstance(n, i, by)
          /\ old
          /\ UNCHANGED <<decides, rounds>>
       \/ /\ ~running(n) /\ i <= MaxView /\ rounds < MaxRounds
          /\ \E R \in SUBSET Answering(n, i) : \E A \in SUBSET R \ {{}} :
              /\ majority(R, mems[n])
              /\ Accepts(n, i, v, R, A)
              /\ IF majority(A, mems[n]) THEN won ELSE lost
          /\ UNCHANGED upcalls

---------------------------------------------------------------------------
(* Heartbeats *)

\* config::heartbeat at m for a caller in view vid.
HeartbeatOk(m, vid) ==
    /\ up[m] /\ ~stuck[m]
    /\ \/ vid = myvid[m]
       \/ running(m) /\ ~upcalling(m) /\ vid - myvid[m] \in {-1, 1}

\* The handler answers that the views differ.
HeartbeatErr(m, vid) == up[m] /\ ~stuck[m] /\ vid # myvid[m] /\ ~running(m)

\* isrunning waits, under cfg_mutex, for the mutex of a proposer whose upcall
\* waits for cfg_mutex.
HeartbeatHangs(m, vid) == up[m] /\ ~stuck[m] /\ vid # myvid[m] /\ upcalling(m)

\* assert (vid == myvid + 1 || vid + 1 == myvid)
HeartbeatAborts(m, vid) ==
    up[m] /\ ~stuck[m] /\ running(m) /\ ~upcalling(m) /\ vid - myvid[m] \notin {-1, 0, 1}

Suspect(n, m) == hb' = [hb EXCEPT ![n] = [pc |-> "remove", m |-> m]]

\* A round of the heartbeater that ends with a node to be removed: the
\* smallest member pings the others, the others ping the smallest.
heartbeater(n) ==
    LET c == mems[n]
        low == Min(Range(c)) IN
    /\ up[n] /\ ~stuck[n] /\ hb[n].pc = "idle"
    /\ isamember(n, c)
    /\ \E m \in IF n = low THEN Range(c) \ {n} ELSE {low} :
        \/ /\ ~up[m] \/ stuck[m] \/ HeartbeatErr(m, myvid[n])
           /\ Suspect(n, m)
           /\ UNCHANGED <<up, stuck, myvid, mems, primary, rec, jr, upcalls, changes, faults>>
        \/ /\ HeartbeatOk(m, myvid[n]) /\ faults < MaxFaults
           /\ faults' = faults + 1
           /\ Suspect(n, m)
           /\ UNCHANGED <<up, stuck, myvid, mems, primary, rec, jr, upcalls, changes>>
        \/ /\ HeartbeatHangs(m, myvid[n])
           /\ stuck' = [stuck EXCEPT ![m] = TRUE]
           /\ Suspect(n, m)
           /\ UNCHANGED <<up, myvid, mems, primary, rec, jr, upcalls, changes, faults>>
    /\ UNCHANGED <<acceptorVars, decides, rounds, starts>>

\* The same, but the node that is pinged aborts; the caller finds it down.
heartbeat_aborts(n, m) ==
    /\ up[n] /\ ~stuck[n] /\ hb[n].pc = "idle"
    /\ isamember(n, mems[n]) /\ isamember(m, mems[n]) /\ n # m
    /\ Min(Range(mems[n])) \in {n, m}
    /\ HeartbeatAborts(m, myvid[n])
    /\ Forget(m)
    /\ UNCHANGED <<acceptorVars, countVars>>

SetHb(n, pc) == hb' = [hb EXCEPT ![n] = [pc |-> pc, m |-> NULL]]

\* The loop of remove_wo: the nodes of view s but m.
without(s, m) ==
    LET n[i \in 0 .. Len(s)] ==
          IF i = 0 THEN <<>> ELSE IF s[i] # m THEN Append(n[i - 1], s[i]) ELSE n[i - 1]
    IN  n[Len(s)]

\* config::remove_wo
remove_wo(n) ==
    /\ up[n] /\ ~stuck[n] /\ hb[n].pc = "remove"
    /\ run(n, without(mems[n], hb[n].m), "hb",
           SetHb(n, "decide"), SetHb(n, "idle"), SetHb(n, "upcall"))
    /\ UNCHANGED <<up, myvid, mems, stuck, primary, rec, jr, changes, starts, faults>>

RemoveDone(n) ==
    /\ up[n] /\ ~stuck[n] /\ hb[n].pc = "decide"
    /\ SetHb(n, "idle")
    /\ EndRun(n)
    /\ UNCHANGED <<up, acceptorVars, myvid, mems, stuck, primary, rec, jr, upcalls,
                   changes, countVars>>

---------------------------------------------------------------------------
(* Joining *)

\* The recovery thread looks whether it is a member, under rsm_mutex.
recovery(n) ==
    /\ up[n] /\ ~stuck[n] /\ jr[n].pc = "idle"
    /\ rec[n].pc = "check"
    /\ rec' = [rec EXCEPT ![n] = IF isamember(n, mems[n]) THEN [pc |-> "wait", m |-> NULL]
                                 ELSE [pc |-> "call", m |-> primary[n]]]
    /\ UNCHANGED <<up, acceptorVars, myvid, mems, stuck, primary, hb, jr, upcalls,
                   changes, decides, countVars>>

Calling(n, p) == up[n] /\ rec[n] = [pc |-> "call", m |-> p]

\* join has returned: the thread, which sleeps for 30 s if it has failed,
\* looks again.
JoinReturns(n) == rec' = [rec EXCEPT ![n] = [pc |-> "check", m |-> NULL]]

\* join fails: nobody answers, or the answer is not OK.  The call gives up
\* after 120 s, longer than any run of a handler that ends.
JoinFails(n, p) ==
    /\ Calling(n, p)
    /\ up[p] => jr[p] # [pc |-> "add", m |-> n] /\ jr[p] # [pc |-> "decide", m |-> n]
    /\ JoinReturns(n)
    /\ UNCHANGED <<up, acceptorVars, myvid, mems, stuck, primary, hb, jr, upcalls,
                   changes, decides, countVars>>

\* log::dump at p, and restore and logread at n: n takes over what p has
\* promised and voted.  Views above p's stay in values, but not in the log.
logread(n, p) ==
    /\ instance_h' = [instance_h EXCEPT ![n] = instance_h[p]]
    /\ values' = [values EXCEPT ![n] =
                   [i \in Instance |-> IF i \in logged[p] THEN values[p][i] ELSE @[i]]]
    /\ logged' = [logged EXCEPT ![n] = logged[p]]
    /\ vote' = [vote EXCEPT ![n] = vote[p]]

\* config::restore: n enters p's last view without an upcall.
restore(n, p) ==
    /\ logread(n, p)
    /\ reconstruct(n)
    /\ JoinReturns(n)

\* joinreq up to its answer, or up to the call of add.
joinreq(n, p) ==
    /\ Calling(n, p) /\ up[p] /\ ~stuck[p]
    /\ jr[p].pc = "idle"
    /\ \/ /\ isamember(n, mems[p]) /\ ~stuck[n]
          /\ restore(n, p)
          /\ UNCHANGED jr
       \/ /\ ~isamember(n, mems[p]) /\ primary[p] # p
          /\ JoinReturns(n)
          /\ UNCHANGED <<acceptorVars, myvid, mems, jr>>
       \/ /\ ~isamember(n, mems[p]) /\ primary[p] = p
          /\ jr' = [jr EXCEPT ![p] = [pc |-> "add", m |-> n]]
          /\ UNCHANGED <<acceptorVars, myvid, mems, rec>>
    /\ UNCHANGED <<up, stuck, primary, hb, upcalls, changes, decides, countVars>>

SetJr(p, pc) == jr' = [jr EXCEPT ![p].pc = pc] /\ UNCHANGED rec

\* The handler answers ERR.
JoinErr(p) ==
    /\ jr' = [jr EXCEPT ![p] = Idle]
    /\ IF Calling(jr[p].m, p) THEN JoinReturns(jr[p].m) ELSE UNCHANGED rec

\* config::add
add(p) ==
    /\ up[p] /\ ~stuck[p] /\ jr[p].pc = "add"
    /\ run(p, Append(mems[p], jr[p].m), "jr",
           SetJr(p, "decide"), JoinErr(p), SetJr(p, "upcall"))
    /\ UNCHANGED <<up, myvid, mems, stuck, primary, hb, changes, starts, faults>>

\* mutant: joinreq answers and keeps rsm_mutex
AddDone_locked(p) ==
    LET n == jr[p].m IN
    /\ up[p] /\ ~stuck[p] /\ jr[p].pc = "decide"
    /\ Calling(n, p) /\ ~stuck[n]
    /\ restore(n, p)
    /\ EndRun(p)
    /\ UNCHANGED <<up, stuck, primary, hb, upcalls, changes, countVars, jr>>

\* add has succeeded: the handler dumps its log, in which the new view is if
\* its own decidereq has come through, and answers.  A node whose cfg_mutex
\* is stuck has no use for the answer.
AddDone(p) ==
    LET n == jr[p].m IN
    /\ up[p] /\ ~stuck[p] /\ jr[p].pc = "decide"
    /\ jr' = [jr EXCEPT ![p] = Idle]
    /\ \/ /\ Calling(n, p) /\ ~stuck[n]
          /\ restore(n, p)
       \/ /\ ~Calling(n, p) \/ stuck[n]
          /\ UNCHANGED <<acceptorVars, myvid, mems, rec>>
    /\ EndRun(p)
    /\ UNCHANGED <<up, stuck, primary, hb, upcalls, changes, countVars>>

---------------------------------------------------------------------------

Next ==
    \/ \E n \in Node :
        \/ Start(n) \/ Crash(n)
        \/ heartbeater(n) \/ remove_wo(n) \/ RemoveDone(n)
        \/ recovery(n) \/ add(n) \/ AddDone(n)
        \/ \E u \in upcalls[n] : paxos_commit(n, u)
        \/ \E u \in changes[n] : commit_change(n, u)
        \/ \E m \in Node : heartbeat_aborts(n, m) \/ JoinFails(n, m) \/ joinreq(n, m)
    \/ \E d \in decides : decidereq(d)

Spec == Init /\ [][Next]_vars

\* Threads that can go on do: handlers, upcalls and the proposer's calls,
\* which time out after a second.  A commit_change that waits for rsm_mutex
\* gets it between two joinreqs: a node that was refused sleeps for 30 s.
Fairness ==
    \A n \in Node :
        /\ WF_vars(add(n)) /\ WF_vars(AddDone(n)) /\ WF_vars(RemoveDone(n))
        /\ WF_vars(\E u \in upcalls[n] : paxos_commit(n, u))
        /\ SF_vars(\E u \in changes[n] : commit_change(n, u))

FairSpec == Spec /\ Fairness

---------------------------------------------------------------------------
(* Properties *)

\* No wake-up of the recovery thread is lost: while it waits, the node is a
\* member, or the commit_change of a committed view is on its way, which
\* signals the thread.
RecoveryWillWake ==
    \A n \in Node :
        up[n] /\ rec[n].pc = "wait" /\ ~isamember(n, mems[n]) => changes[n] # {}

\* Every committed view reaches rsm although commit_change waits for the
\* rsm_mutex that joinreq holds over a whole run of Paxos.  What can keep one
\* back for ever is the upcall that prepare makes under the proposer's mutex:
\* it waits for a joinreq that is its own caller or waits for that mutex, or
\* a heartbeat holds cfg_mutex and waits for that mutex.
UpcallsReachRsm ==
    \A n \in Node :
        changes[n] \cup upcalls[n] # {} ~>
            \/ changes[n] \cup upcalls[n] = {}
            \/ upcalling(n) /\ jr[n].pc # "idle"
            \/ stuck[n]

---------------------------------------------------------------------------
(* Promises that the code does not keep.  README.md describes the behaviours   *)
(* in which TLC finds them violated; no run relies on them.                    *)

\* "there will be always one primary": two nodes of one view never both take
\* themselves for its primary (set_primary works on each node's own history
\* of views, and a joining node never runs it).
OnePrimary ==
    \A n, m \in Node :
        /\ up[n] /\ up[m] /\ myvid[n] = myvid[m]
        /\ isamember(n, mems[n]) /\ primary[n] = n
        /\ isamember(m, mems[m]) /\ primary[m] = m
        => n = m

\* "a total order of views": nodes that have a view for the same number have
\* the same one.
ViewAgreement ==
    \A n, m \in Node : \A i \in Instance :
        values[n][i] # <<>> /\ values[m][i] # <<>> => values[n][i] = values[m][i]

\* "each node will have a complete history of all view numbers and their
\* values": no node has entered a view without those before it.
HistoryComplete ==
    \A n \in Node : \A i \in Instance : i <= instance_h[n] => values[n][i] # <<>>
=============================================================================
