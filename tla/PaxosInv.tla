------------------------------ MODULE PaxosInv ------------------------------
(***************************************************************************)
(* The inductive invariant behind the agreement of one Paxos instance: the *)
(* instances are bounded by LastInstance = 2, so every run is a run of     *)
(* instance 2 among the members of FirstView.                              *)
(***************************************************************************)
EXTENDS Paxos

Closed(q) == instance_h[q] = 2

IsVote(q, b, val) == [inst |-> 2, n |-> b, v |-> val, node |-> q] \in voted

\* q has accepted nothing under number c and never will.
CannotVote(q, c) ==
    /\ \A w \in voted : w.node = q => w.n # c
    /\ Closed(q) \/ Gt(n_h[q], c)

\* Each node knows view 1, and config is only told of what was decided.
ConfigInv ==
    \A p \in Node :
        /\ values[p][1] = FirstView
        /\ myvid[p] <= instance_h[p]
        /\ upcall[p] # {} => upcall[p] = {2} /\ Closed(p)

\* What the phase of p's run says about its variables.
RunOK(p) ==
    /\ phase[p] # "idle" => /\ inst[p] = 2 /\ c_nodes[p] = FirstView
                            /\ c_v[p] # {} /\ my_n[p] > 0
    /\ phase[p] \in {"accept", "decide"} =>
         \E r \in proposed : /\ r.n = Mine(p) /\ r.v = v[p]
                             /\ todo[p] \cup accepts[p] \subseteq r.nodes
    /\ phase[p] = "accept" => \A q \in accepts[p] : IsVote(q, Mine(p), v[p])
    /\ phase[p] \in {"decide", "learn"} => Chosen(v[p])
RunInv == \A p \in Node : RunOK(p)

\* A request without a caller was sent by some run of instance 2.
LateOK(m) ==
    /\ m.inst = 2
    /\ m.type = "accept" =>
         \E r \in proposed : r.n = m.n /\ r.v = m.v /\ m.dst \in r.nodes
    /\ m.type = "decide" => Chosen(m.v)
LateInv == \A m \in late : LateOK(m)

\* An accept request goes to a majority, all of which promised its number,
\* and carries a view; no number is used for two views.
ProposedInv ==
    /\ \A r \in proposed :
         /\ r.inst = 2 /\ r.v # {} /\ r.n.n > 0
         /\ r.nodes \subseteq FirstView /\ Majority(FirstView, r.nodes)
         /\ \A q \in r.nodes : Closed(q) \/ Geq(n_h[q], r.n)
    /\ \A r, s \in proposed : r.n = s.n => r.v = s.v

\* An acceptor votes for what was proposed to it, and remembers its highest
\* vote until it has closed the instance.
VoteInv ==
    /\ \A w \in voted :
         /\ w.inst = 2
         /\ \E r \in proposed : r.n = w.n /\ r.v = w.v /\ w.node \in r.nodes
         /\ Closed(w.node) \/ Geq(n_a[w.node], w.n)
    /\ \A q \in Node : ~ Closed(q) =>
         /\ Geq(n_h[q], n_a[q])
         /\ \/ n_a[q].n = 0 /\ v_a[q] = {}
            \/ n_a[q].n > 0 /\ IsVote(q, n_a[q], v_a[q])

\* While p collects promises: who promised will accept nothing below p's
\* number any more, and what they had accepted is at most max.
PrepareOK(p) ==
    /\ accepts[p] \subseteq FirstView /\ todo[p] \subseteq FirstView
    /\ \A q \in accepts[p] :
         /\ Closed(q) \/ Geq(n_h[q], Mine(p))
         /\ \A r \in proposed : r.n = Mine(p) => q \notin r.nodes
         /\ \A w \in voted : w.node = q /\ Gt(Mine(p), w.n) => Geq(max[p], w.n)
    /\ \/ max[p].n = 0 /\ v[p] = {}
       \/ /\ max[p].n > 0 /\ Gt(Mine(p), max[p])
          /\ \E r \in proposed : r.n = max[p] /\ r.v = v[p]
PrepareInv == \A p \in Node : phase[p] = "prepare" => PrepareOK(p)

\* Of two proposals with different views, a majority can no longer accept the
\* one with the lower number.
SafeInv ==
    \A r, s \in proposed : Gt(r.n, s.n) /\ r.v # s.v =>
        \E t \in proposed : \A q \in t.nodes : CannotVote(q, s.n)

\* A closed instance holds a chosen view.
ClosedInv == \A p \in Node : Closed(p) => Chosen(values[p][2])

\* The inductive invariant of one instance.
PaxosInvariant ==
    /\ TypeOK /\ ConfigInv /\ RunInv /\ LateInv /\ ProposedInv
    /\ VoteInv /\ PrepareInv /\ SafeInv /\ ClosedInv

=============================================================================
