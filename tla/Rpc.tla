-------------------------------- MODULE Rpc --------------------------------
(***************************************************************************)
(* The RPC library's at-most-once machinery (rpc/rpc.cc): one client       *)
(* object rpcc with any number of calling threads, one server rpcs, and    *)
(* the connections between them.  The server keeps its windows and         *)
(* connections per client nonce, so one client is enough to study them.    *)
(*                                                                         *)
(* A call has one xid, one header (made once, call1) and one message per   *)
(* connection it is sent on: [xid, conn] identifies a copy of a request.   *)
(* A copy in reqs is on its way, or in the server's thread pool, or in a   *)
(* thread that has not reached reply_window_m_: the three differ in        *)
(* nothing the server can see.                                             *)
(*                                                                         *)
(* Left out: unmarshalling errors, unregistered procedures, set_reachable  *)
(* (testing only), clients with retrans = false (no window), statistics.   *)
(***************************************************************************)
EXTENDS Integers, FiniteSets

CONSTANTS
    MaxXid,       \* calls the client makes
    MaxConns,     \* connections it makes
    MaxRestarts   \* times the server dies and comes back

ASSUME RpcBounds ==
    /\ MaxXid \in Nat
    /\ MaxConns \in Nat
    /\ MaxRestarts \in Nat

VARIABLES
    \* struct rpcc
    xid_,          \* the next xid
    calls_,        \* xids of the calls under way
    hdr,           \* req_header of each call made
    answer,        \* caller.done, caller.intret and the value, of a call under way
    front,         \* xid_rep_window_.front(): everything up to it is answered
    ahead,         \* the rest of xid_rep_window_
    srv_nonce_,    \* 0 while !bind_done_
    destroy_wait_,
    ch,            \* the connection a call was last sent on, 0 for none
    \* the connections
    chan_,         \* the last connection made
    live,          \* its number while the client does not know it dead, or 0
    reqs,          \* copies of requests not yet looked up by the server
    replies,       \* replies on their way
    \* struct rpcs
    nonce_,
    reply_window_, \* per xid: no entry, cb_present = false, cb_present = true
    conns_,        \* the latest connection of the client, 0 for none
    running,       \* copies whose handler runs
    ran            \* copies whose handler was ever started (history)

clientVars == <<xid_, calls_, hdr, answer, front, ahead, srv_nonce_,
                destroy_wait_, ch>>
netVars == <<chan_, live, reqs, replies>>
serverVars == <<nonce_, reply_window_, conns_, running, ran>>
vars == <<clientVars, netVars, serverVars>>

Xid == 1..MaxXid
Conn == 1..MaxConns
Nonce == 1..(MaxRestarts + 1)
Copy == [xid : Xid, conn : Conn]
Header == [proc : {"bind", "call"}, srv : Nonce \cup {0}, rep : 0..MaxXid]

\* What a caller gets: intret, and for a bind the server's nonce.
Ret == {"none", "ok", "oldsrv", "atmostonce", "cancel"}
Answer == [ret : Ret, srv : Nonce \cup {0}]
NoAnswer == [ret |-> "none", srv |-> 0]

Reply == [xid : Xid, conn : Conn, ans : Answer]

\* The window is never out of order or joined to its front (rpc.cc:372-380).
TypeOK ==
    /\ xid_ \in 1..(MaxXid + 1)
    /\ calls_ \subseteq 1..(xid_ - 1)
    /\ hdr \in [Xid -> Header]
    /\ answer \in [Xid -> Answer]
    /\ front \in 0..(xid_ - 1)
    /\ ahead \subseteq (front + 2)..(xid_ - 1)
    /\ srv_nonce_ \in Nonce \cup {0}
    /\ destroy_wait_ \in BOOLEAN
    /\ ch \in [Xid -> Conn \cup {0}]
    /\ chan_ \in Conn \cup {0}
    /\ live \in {0, chan_}
    /\ reqs \subseteq Copy
    /\ replies \subseteq Reply
    /\ nonce_ \in Nonce
    /\ reply_window_ \in [Xid -> {"none", "busy", "done"}]
    /\ conns_ \in Conn \cup {0}
    /\ running \subseteq ran
    /\ ran \subseteq Copy
-----------------------------------------------------------------------------
Init ==
    /\ xid_ = 1
    /\ calls_ = {}
    /\ hdr = [x \in Xid |-> [proc |-> "bind", srv |-> 0, rep |-> 0]]
    /\ answer = [x \in Xid |-> NoAnswer]
    /\ front = 0
    /\ ahead = {}
    /\ srv_nonce_ = 0
    /\ destroy_wait_ = FALSE
    /\ ch = [x \in Xid |-> 0]
    /\ chan_ = 0
    /\ live = 0
    /\ reqs = {}
    /\ replies = {}
    /\ nonce_ = 1
    /\ reply_window_ = [x \in Xid |-> "none"]
    /\ conns_ = 0
    /\ running = {}
    /\ ran = {}

\* mutant: what the front has passed stays in the window
update_xid_rep_unpopped(x) ==
    IF x <= front
    THEN UNCHANGED <<front, ahead>>
    ELSE LET W == ahead \cup {x} IN
         \E f \in 0..MaxXid :
            /\ f >= front /\ (front + 1)..f \subseteq W /\ (f + 1) \notin W
            /\ front' = f
            /\ ahead' = W

\* mutant: the front jumps to the last reply
update_xid_rep_last(x) ==
    IF x <= front
    THEN UNCHANGED <<front, ahead>>
    ELSE front' = x /\ ahead' = {y \in ahead : y > x + 1}

\* update_xid_rep: x joins the window, and the front moves over what is now
\* contiguous with it.  got_pdu and call1 both add a call's xid; that the list
\* then has it twice is left out: the loop goes past the second entry, and
\* front() is the same.
update_xid_rep(x) ==
    IF x <= front
    THEN UNCHANGED <<front, ahead>>
    ELSE LET W == ahead \cup {x} IN
         \E f \in 0..MaxXid :
            /\ f >= front /\ (front + 1)..f \subseteq W /\ (f + 1) \notin W
            /\ front' = f
            /\ ahead' = {y \in W : y > f}

Waiting(x) == x \in calls_ /\ answer[x].ret = "none"
-----------------------------------------------------------------------------
(* The client: threads in call1, and the poll thread in got_pdu.           *)

\* mutant: a call may start while cancel waits
call1_unchecked ==
    /\ xid_ <= MaxXid
    /\ srv_nonce_ = 0 => calls_ = {}
    /\ calls_' = calls_ \cup {xid_}
    /\ hdr' = [hdr EXCEPT ![xid_] =
                 [proc |-> IF srv_nonce_ = 0 THEN "bind" ELSE "call",
                  srv |-> srv_nonce_, rep |-> front]]
    /\ xid_' = xid_ + 1
    /\ UNCHANGED <<answer, front, ahead, srv_nonce_, destroy_wait_, ch,
                   netVars, serverVars>>

\* call1 up to the header.  Bind before anything else, and never again; all
\* users of the library bind in one thread, before others have the rpcc.
call1 ==
    /\ xid_ <= MaxXid
    /\ ~destroy_wait_
    /\ srv_nonce_ = 0 => calls_ = {}
    /\ calls_' = calls_ \cup {xid_}
    /\ hdr' = [hdr EXCEPT ![xid_] =
                 [proc |-> IF srv_nonce_ = 0 THEN "bind" ELSE "call",
                  srv |-> srv_nonce_, rep |-> front]]
    /\ xid_' = xid_ + 1
    /\ UNCHANGED <<answer, front, ahead, srv_nonce_, destroy_wait_, ch,
                   netVars, serverVars>>

\* The loop of call1: the request is sent once, and once more on each later
\* connection, when the one it was sent on is dead and no reply has come.
Transmit(x) ==
    /\ x \in calls_
    /\ ch[x] = 0 \/ (Waiting(x) /\ ch[x] # live)
    /\ \E k \in Conn :                                      \* get_refconn
        /\ k = IF live # 0 THEN live ELSE chan_ + 1
        /\ live' = k
        /\ chan_' = IF live # 0 THEN chan_ ELSE k
        /\ ch' = [ch EXCEPT ![x] = k]
        /\ reqs' = reqs \cup {[xid |-> x, conn |-> k]}
    /\ UNCHANGED <<xid_, calls_, hdr, answer, front, ahead, srv_nonce_,
                   destroy_wait_, replies, serverVars>>

got_pdu(r) ==
    /\ r \in replies
    /\ replies' = replies \ {r}
    /\ update_xid_rep(r.xid)
    /\ answer' = IF Waiting(r.xid) THEN [answer EXCEPT ![r.xid] = r.ans] ELSE answer
    /\ UNCHANGED <<xid_, calls_, hdr, srv_nonce_, destroy_wait_, ch,
                   chan_, live, reqs, serverVars>>

\* The end of call1: the caller has its answer, or its last deadline passed.
\* struct caller is gone; a bind that got its OK stores the nonce.
Finished(x) ==
    /\ calls_' = calls_ \ {x}
    /\ update_xid_rep(x)
    /\ answer' = [answer EXCEPT ![x] = NoAnswer]
    /\ ch' = [ch EXCEPT ![x] = 0]
    /\ UNCHANGED <<xid_, hdr, destroy_wait_, netVars, serverVars>>

Return(x) ==
    /\ x \in calls_ /\ ~Waiting(x)
    /\ Finished(x)
    /\ srv_nonce_' = IF hdr[x].proc = "bind" /\ answer[x].ret = "ok"
                     THEN answer[x].srv ELSE srv_nonce_

Timeout(x) ==
    /\ Waiting(x)
    /\ Finished(x)
    /\ UNCHANGED srv_nonce_

\* cancel up to its wait for calls_ to drain; answers that have come and were
\* not yet returned are overwritten.  Without calls it does nothing.
cancel ==
    /\ calls_ # {}
    /\ answer' = [x \in Xid |-> IF x \in calls_
                                THEN [ret |-> "cancel", srv |-> 0] ELSE answer[x]]
    /\ destroy_wait_' = TRUE
    /\ UNCHANGED <<xid_, calls_, hdr, front, ahead, srv_nonce_, ch,
                   netVars, serverVars>>
-----------------------------------------------------------------------------
(* The network.                                                            *)

\* The client sees its connection dead; what was to be read from it is gone.
Break ==
    /\ live # 0
    /\ live' = 0
    /\ replies' = {}
    /\ UNCHANGED <<clientVars, chan_, reqs, serverVars>>

\* A request the dead connection did not deliver.
Lose(m) ==
    /\ m \in reqs /\ m.conn # live
    /\ reqs' = reqs \ {m}
    /\ UNCHANGED <<clientVars, chan_, live, replies, serverVars>>

\* The value of a reply: rpcbind returns the nonce.
Value(x, ret) == IF hdr[x].proc = "bind" /\ ret = "ok" THEN nonce_ ELSE 0

\* connection::send at the server: only a live connection delivers.
Send(x, k, ret) ==
    replies' = IF k = live
               THEN replies \cup {[xid |-> x, conn |-> k,
                                   ans |-> [ret |-> ret, srv |-> Value(x, ret)]]}
               ELSE replies
-----------------------------------------------------------------------------
(* The server: threads of the pool in dispatch.                            *)

OldInstance(m) == hdr[m.xid].srv \notin {0, nonce_}

\* checkduplicate_and_update, first what the client says it has seen.
Trimmed(rep) ==
    [y \in Xid |-> IF y <= rep THEN "none" ELSE reply_window_[y]]

rpcstate_t(w, x, rep) ==
    CASE w[x] = "done" -> "DONE"
      [] w[x] = "busy" -> "INPROGRESS"
      [] OTHER ->
           IF /\ \E y \in Xid : w[y] # "none"
              /\ \A y \in Xid : w[y] # "none" => x < y
              /\ x < rep
           THEN "FORGOTTEN" ELSE "NEW"

State(m) == rpcstate_t(Trimmed(hdr[m.xid].rep), m.xid, hdr[m.xid].rep)

DispatchOld(m) ==
    /\ m \in reqs /\ OldInstance(m)
    /\ reqs' = reqs \ {m}
    /\ Send(m.xid, m.conn, "oldsrv")
    /\ UNCHANGED <<clientVars, chan_, live, serverVars>>

\* The part of dispatch that every request of this instance goes through.
LookUp(m) ==
    /\ m \in reqs /\ ~OldInstance(m)
    /\ reqs' = reqs \ {m}
    /\ conns_' = m.conn
    /\ UNCHANGED <<clientVars, chan_, live, nonce_>>

DispatchNew(m) ==
    /\ LookUp(m) /\ State(m) = "NEW"
    /\ reply_window_' = [Trimmed(hdr[m.xid].rep) EXCEPT ![m.xid] = "busy"]
    /\ running' = running \cup {m}
    /\ ran' = ran \cup {m}
    /\ UNCHANGED replies

\* mutant: answered before there is an answer
DispatchInProgress_answered(m) ==
    /\ LookUp(m) /\ State(m) = "INPROGRESS"
    /\ reply_window_' = Trimmed(hdr[m.xid].rep)
    /\ Send(m.xid, m.conn, "ok")
    /\ UNCHANGED <<running, ran>>

DispatchInProgress(m) ==
    /\ LookUp(m) /\ State(m) = "INPROGRESS"
    /\ reply_window_' = Trimmed(hdr[m.xid].rep)
    /\ UNCHANGED <<replies, running, ran>>

DispatchSeen(m) ==
    /\ LookUp(m) /\ State(m) \in {"DONE", "FORGOTTEN"}
    /\ reply_window_' = Trimmed(hdr[m.xid].rep)
    /\ Send(m.xid, m.conn, IF State(m) = "DONE" THEN "ok" ELSE "atmostonce")
    /\ UNCHANGED <<running, ran>>

\* The handler ends: add_reply fills the entry if it is still there, and the
\* reply goes out on the request's connection, or on the latest one if the
\* server has noticed that the first is dead, which it may or may not have.
HandlerEnds(m) ==
    /\ m \in running
    /\ running' = running \ {m}
    /\ reply_window_' = [reply_window_ EXCEPT ![m.xid] =
                           IF @ = "none" THEN "none" ELSE "done"]
    /\ \E k \in {m.conn} \cup (IF m.conn = live THEN {} ELSE {conns_}) :
         Send(m.xid, k, "ok")
    /\ UNCHANGED <<clientVars, chan_, live, reqs, nonce_, conns_, ran>>

\* The server process is replaced by a new one.
Restart ==
    /\ nonce_ <= MaxRestarts
    /\ nonce_' = nonce_ + 1
    /\ reply_window_' = [x \in Xid |-> "none"]
    /\ conns_' = 0
    /\ running' = {}
    /\ live' = 0
    /\ reqs' = {}
    /\ replies' = {}
    /\ UNCHANGED <<clientVars, chan_, ran>>
-----------------------------------------------------------------------------
ClientStep ==
    \/ call1
    \/ cancel
    \/ \E x \in Xid : Transmit(x) \/ Return(x) \/ Timeout(x)
    \/ \E r \in replies : got_pdu(r)

NetworkStep == Break \/ \E m \in reqs : Lose(m)

ServerStep ==
    \/ \E m \in reqs : \/ DispatchOld(m)
                       \/ DispatchNew(m)
                       \/ DispatchInProgress(m)
                       \/ DispatchSeen(m)
    \/ \E m \in running : HandlerEnds(m)
    \/ Restart

Next == ClientStep \/ NetworkStep \/ ServerStep

Spec == Init /\ [][Next]_vars
-----------------------------------------------------------------------------
Runs(x) == {m \in ran : m.xid = x}

\* At most once, as far as a caller can rely on it: as long as a call waits
\* for its answer, none of its retransmissions has run it a second time
\* (checkduplicate_and_update, update_xid_rep).
OnceWhileWaiting ==
    \A x \in Xid : Waiting(x) /\ hdr[x].proc = "call" =>
        \A m, n \in Runs(x) : m = n

\* An OK is given only for a call whose handler has ended, whichever copy,
\* connection or duplicate the reply travelled by (dispatch, got_pdu).
OkMeansDone ==
    \A x \in Xid : answer[x].ret = "ok" => \E m \in Runs(x) : m \notin running

\* Once cancel waits for the calls to drain, none of them waits for a reply or
\* a deadline: those under way were marked and no new one got in (cancel,
\* call1).
CancelReachesAll == destroy_wait_ => \A x \in calls_ : ~Waiting(x)

---------------------------------------------------------------------------
(* A promise that the code does not keep, see README.md; no run relies on it. *)

\* At most once as the library states it ("provide at most once semantics by
\* maintaining a window of replies", rpc.h:276): no call is ever run twice.
AtMostOnce ==
    \A x \in Xid : hdr[x].proc = "call" => \A m, n \in Runs(x) : m = n
=============================================================================
