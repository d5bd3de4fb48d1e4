----------------------------- MODULE RpcProofs -----------------------------
(***************************************************************************)
(* Proofs about Rpc for every number of calls, connections and restarts.   *)
(*                                                                         *)
(* Why a retransmitted call is not run twice while its caller waits: its   *)
(* xid is in no xid_rep_window_ (Unacked), so no header acknowledges it    *)
(* (HeadersBehind), so no request makes the server forget it (Remembered)  *)
(* and the second copy is found in the window.  A restart of the server    *)
(* does forget it, but then the call's header names an older instance      *)
(* (NoncesPast, CallsBound).                                               *)
(***************************************************************************)
EXTENDS Rpc, TLAPS

\* Copies, replies and headers are about calls that were made.
Sent == /\ \A m \in reqs \cup ran : m.xid < xid_
        /\ \A r \in replies : r.xid < xid_

\* A copy is made once and is either on its way or started.
CopiesOnce == /\ reqs \cap ran = {}
              /\ \A m \in reqs \cup ran : m.xid \in calls_ => m.conn <= ch[m.xid]
              /\ \A x \in Xid : ch[x] <= chan_

\* A call that waits is not acknowledged by the client, ...
Unacked == \A x \in Xid : Waiting(x) => x > front /\ x \notin ahead

\* ... nor in any header sent so far.
HeadersBehind == \A y \in Xid : y < xid_ => hdr[y].rep <= front

\* Nobody knows of a server instance before it exists.
NoncesPast == /\ srv_nonce_ <= nonce_
              /\ \A y \in Xid : y < xid_ => hdr[y].srv <= nonce_
              /\ \A y \in Xid : answer[y].srv <= nonce_
              /\ \A r \in replies : r.ans.srv <= nonce_

CallsBound == \A y \in Xid : hdr[y].proc = "call" => hdr[y].srv # 0

\* What this instance has started for a waiting call is in its window.
Remembered == \A m \in ran : hdr[m.xid].srv = nonce_ /\ Waiting(m.xid)
                                => reply_window_[m.xid] # "none"

Ended(x) == \E m \in ran \ running : m.xid = x

\* Where an OK can come from: the window, or a reply on its way.
OkSources == /\ \A x \in Xid : reply_window_[x] = "done" => Ended(x)
             /\ \A r \in replies : r.ans.ret = "ok" => Ended(r.xid)

\* A reply has a verdict.
RepliesAnswer == \A r \in replies : r.ans.ret # "none"

\* A handler was called for a request that came over a connection.
Connected == running # {} => conns_ \in Conn

RpcInvariant == /\ TypeOK
                /\ Sent
                /\ Connected
                /\ RepliesAnswer
                /\ CopiesOnce
                /\ Unacked
                /\ HeadersBehind
                /\ NoncesPast
                /\ CallsBound
                /\ Remembered
                /\ OkSources
                /\ OnceWhileWaiting
                /\ OkMeansDone
                /\ CancelReachesAll
-----------------------------------------------------------------------------
\* What update_xid_rep does to the window: it keeps its shape, never moves
\* back, and takes in the call it is about and no other.
LEMMA WindowStep ==
    ASSUME TypeOK, NEW x \in Xid, x < xid_, update_xid_rep(x)
    PROVE  /\ front' \in 0..(xid_ - 1)
           /\ ahead' \subseteq (front' + 2)..(xid_ - 1)
           /\ front <= front'
           /\ \A y \in Xid : y > front /\ y \notin ahead /\ y # x
                                => y > front' /\ y \notin ahead'
<1>1. CASE x <= front
  <2>1. front' = front /\ ahead' = ahead
    BY <1>1 DEF update_xid_rep
  <2>2. front \in 0..(xid_ - 1) /\ ahead \subseteq (front + 2)..(xid_ - 1)
    BY DEF TypeOK
  <2>3. front <= front
    BY <2>2
  <2>4. QED BY <2>1, <2>2, <2>3
<1>2. CASE ~(x <= front)
  <2> DEFINE W == ahead \cup {x}
  <2>1. PICK f \in 0..MaxXid :
            /\ f >= front /\ (front + 1)..f \subseteq W /\ (f + 1) \notin W
            /\ front' = f
            /\ ahead' = {y \in W : y > f}
    BY <1>2 DEF update_xid_rep
  <2>2. W \subseteq (front + 1)..(xid_ - 1) /\ front \in Nat /\ xid_ \in Nat /\ x \in Nat
    BY <1>2, RpcBounds DEF TypeOK, Xid
  <2>3. f <= xid_ - 1
    <3>1. CASE f = front
      BY <3>1, <2>2, RpcBounds DEF TypeOK
    <3>2. CASE f > front
      <4>1. f \in (front + 1)..f
        BY <3>2, <2>1, <2>2
      <4>2. QED BY <4>1, <2>1, <2>2
    <3>3. QED BY <3>1, <3>2, <2>1, <2>2
  <2>4. ahead' \subseteq (f + 2)..(xid_ - 1)
    BY <2>1, <2>2
  <2>5. ASSUME NEW y \in Xid, y > front, y \notin ahead, y # x
        PROVE  y > f /\ y \notin ahead'
    <3>1. y \notin W
      BY <2>5
    <3>2. y \in Nat
      BY RpcBounds DEF Xid
    <3>3. QED BY <3>1, <3>2, <2>1, <2>2, <2>5
  <2>6. QED BY <2>1, <2>2, <2>3, <2>4, <2>5
<1>3. QED BY <1>1, <1>2

LEMMA InitInvariant == Init => RpcInvariant
<1> SUFFICES ASSUME Init PROVE RpcInvariant
  OBVIOUS
<1> USE RpcBounds
<1>1. TypeOK
  <2>1. hdr \in [Xid -> Header] /\ answer \in [Xid -> Answer]
    BY DEF Init, Header, Answer, NoAnswer, Ret
  <2>2. /\ xid_ \in 1..(MaxXid + 1) /\ front \in 0..(xid_ - 1)
        /\ nonce_ \in Nonce /\ srv_nonce_ \in Nonce \cup {0}
    BY DEF Init, Nonce
  <2>3. QED BY <2>1, <2>2 DEF Init, TypeOK
<1>2. Sent /\ Connected /\ RepliesAnswer /\ CopiesOnce /\ Unacked /\ HeadersBehind /\ Remembered
  BY DEF Init, Sent, Connected, RepliesAnswer, CopiesOnce, Unacked, HeadersBehind, Remembered, Waiting, Xid
<1>3. NoncesPast /\ CallsBound
  BY DEF Init, NoncesPast, CallsBound, NoAnswer, Xid
<1>4. OkSources /\ OnceWhileWaiting /\ OkMeansDone /\ CancelReachesAll
  BY DEF Init, OkSources, OnceWhileWaiting, OkMeansDone, CancelReachesAll,
         NoAnswer, Waiting, Runs
<1>5. QED BY <1>1, <1>2, <1>3, <1>4 DEF RpcInvariant
-----------------------------------------------------------------------------
(* The client's steps.                                                     *)

LEMMA Call1Step == RpcInvariant /\ call1 => RpcInvariant'
<1> SUFFICES ASSUME RpcInvariant, call1 PROVE RpcInvariant'
  OBVIOUS
<1> USE RpcBounds DEF RpcInvariant, call1, netVars, serverVars
<1>1. xid_ \in Xid /\ xid_ \in Nat /\ MaxXid \in Nat /\ front \in 0..(xid_ - 1)
  BY DEF TypeOK, Xid
<1>2. /\ hdr'[xid_] = [proc |-> IF srv_nonce_ = 0 THEN "bind" ELSE "call",
                       srv |-> srv_nonce_, rep |-> front]
      /\ \A y \in Xid : y # xid_ => hdr'[y] = hdr[y]
  BY <1>1 DEF TypeOK
<1>3. \A x \in Xid : Waiting(x)' => Waiting(x) \/ x = xid_
  BY DEF Waiting
<1>4. TypeOK'
  <2>1. hdr' \in [Xid -> Header]
    BY <1>1 DEF TypeOK, Header
  <2>2. xid_' \in 1..(MaxXid + 1) /\ calls_' \subseteq 1..(xid_' - 1)
    BY <1>1 DEF TypeOK
  <2>3. front' \in 0..(xid_' - 1) /\ ahead' \subseteq (front' + 2)..(xid_' - 1)
    BY <1>1 DEF TypeOK
  <2>4. QED BY <2>1, <2>2, <2>3 DEF TypeOK
<1>5. Sent'
  BY <1>1 DEF Sent, TypeOK, Copy, Reply, Xid
<1>6. CopiesOnce'
  BY <1>1 DEF CopiesOnce, Sent, TypeOK, Copy, Xid
<1>7. Unacked'
  BY <1>1, <1>3 DEF Unacked, TypeOK
<1>8. HeadersBehind'
  BY <1>1, <1>2 DEF HeadersBehind, TypeOK, Xid
<1>9. NoncesPast'
  BY <1>1, <1>2 DEF NoncesPast, TypeOK, Xid
<1>10. CallsBound'
  BY <1>1, <1>2 DEF CallsBound, TypeOK
<1>11. Remembered'
  <2> SUFFICES ASSUME NEW m \in ran, hdr'[m.xid].srv = nonce_, Waiting(m.xid)'
               PROVE  reply_window_[m.xid] # "none"
    BY DEF Remembered
  <2>1. m.xid \in Xid /\ m.xid # xid_
    BY <1>1 DEF Sent, TypeOK, Copy
  <2>2. QED BY <2>1, <1>2, <1>3 DEF Remembered
<1>12. OkSources'
  BY DEF OkSources, Ended
<1>13. OnceWhileWaiting'
  <2> SUFFICES ASSUME NEW x \in Xid, Waiting(x)', hdr'[x].proc = "call",
                      NEW m \in Runs(x), NEW n \in Runs(x)
               PROVE  m = n
    BY DEF OnceWhileWaiting, Runs
  <2>1. x # xid_
    BY <1>1 DEF Sent, TypeOK, Copy, Runs
  <2>2. QED BY <2>1, <1>2, <1>3 DEF OnceWhileWaiting
<1>14. OkMeansDone' /\ CancelReachesAll'
  BY DEF OkMeansDone, CancelReachesAll, Runs
<1>15. QED BY <1>4, <1>5, <1>6, <1>7, <1>8, <1>9, <1>10, <1>11, <1>12, <1>13, <1>14
           DEF RepliesAnswer, Connected

LEMMA TransmitStep == \A x \in Xid : RpcInvariant /\ Transmit(x) => RpcInvariant'
<1> SUFFICES ASSUME RpcInvariant, NEW x \in Xid, Transmit(x) PROVE RpcInvariant'
  OBVIOUS
<1> USE RpcBounds DEF RpcInvariant, serverVars
<1>1. /\ x \in calls_
      /\ ch[x] = 0 \/ (Waiting(x) /\ ch[x] # live)
      /\ UNCHANGED <<xid_, calls_, hdr, answer, front, ahead, srv_nonce_,
                     destroy_wait_, replies, serverVars>>
  BY DEF Transmit
<1>2. PICK k \in Conn :
        /\ k = IF live # 0 THEN live ELSE chan_ + 1
        /\ live' = k
        /\ chan_' = IF live # 0 THEN chan_ ELSE k
        /\ ch' = [ch EXCEPT ![x] = k]
        /\ reqs' = reqs \cup {[xid |-> x, conn |-> k]}
  BY DEF Transmit
<1>3. \A y \in Xid : Waiting(y)' <=> Waiting(y)
  BY <1>1 DEF Waiting
<1>4. /\ live \in {0, chan_} /\ chan_ \in Nat /\ k \in Nat /\ chan_' = k /\ chan_ <= k
      /\ ch[x] \in Nat /\ ch[x] < k
  BY <1>1, <1>2 DEF TypeOK, Conn, CopiesOnce
<1>5. TypeOK'
  <2>1. reqs' \subseteq Copy
    BY <1>2 DEF TypeOK, Copy
  <2>2. ch' \in [Xid -> Conn \cup {0}]
    BY <1>2 DEF TypeOK
  <2>3. QED BY <2>1, <2>2, <1>1, <1>2, <1>4 DEF TypeOK
<1>6. Sent'
  BY <1>1, <1>2 DEF Sent, TypeOK, Xid
<1>7. CopiesOnce'
  <2>1. [xid |-> x, conn |-> k] \notin ran
    BY <1>1, <1>4 DEF CopiesOnce
  <2>2. reqs' \cap ran' = {}
    BY <2>1, <1>1, <1>2 DEF CopiesOnce
  <2>3. ASSUME NEW m \in reqs' \cup ran', m.xid \in calls_' PROVE m.conn <= ch'[m.xid]
    <3>1. CASE m = [xid |-> x, conn |-> k]
      BY <3>1, <1>2, <1>4 DEF TypeOK
    <3>2. CASE m \in reqs \cup ran
      <4>1. m \in Copy
        BY <3>2 DEF TypeOK
      <4>2. m.conn <= ch[m.xid] /\ m.conn \in Nat /\ m.xid \in Xid
        BY <4>1, <3>2, <2>3, <1>1 DEF CopiesOnce, Copy, Conn
      <4>3. QED BY <4>2, <1>2, <1>4 DEF TypeOK
    <3>3. QED BY <3>1, <3>2, <1>1, <1>2
  <2>4. \A y \in Xid : ch'[y] <= chan_'
    <3> TAKE y \in Xid
    <3>1. ch[y] <= chan_ /\ ch[y] \in Nat
      BY DEF CopiesOnce, TypeOK, Conn
    <3>2. QED BY <3>1, <1>2, <1>4 DEF TypeOK
  <2>5. QED BY <2>2, <2>3, <2>4 DEF CopiesOnce
<1>8. Unacked' /\ HeadersBehind' /\ NoncesPast' /\ CallsBound'
  BY <1>1, <1>3 DEF Unacked, HeadersBehind, NoncesPast, CallsBound
<1>9. Remembered' /\ OnceWhileWaiting'
  BY <1>1, <1>3 DEF Remembered, OnceWhileWaiting, Runs, TypeOK, Copy
<1>10. OkSources' /\ OkMeansDone' /\ CancelReachesAll'
  BY <1>1 DEF OkSources, OkMeansDone, CancelReachesAll, Ended, Runs, Waiting
<1>11. QED BY <1>1, <1>5, <1>6, <1>7, <1>8, <1>9, <1>10 DEF RepliesAnswer, Connected

LEMMA GotPduStep == \A r \in replies : RpcInvariant /\ got_pdu(r) => RpcInvariant'
<1> SUFFICES ASSUME RpcInvariant, NEW r \in replies, got_pdu(r) PROVE RpcInvariant'
  OBVIOUS
<1> USE RpcBounds DEF RpcInvariant, serverVars
<1>1. /\ replies' = replies \ {r}
      /\ answer' = IF Waiting(r.xid) THEN [answer EXCEPT ![r.xid] = r.ans] ELSE answer
      /\ UNCHANGED <<xid_, calls_, hdr, srv_nonce_, destroy_wait_, ch,
                     chan_, live, reqs, serverVars>>
  BY DEF got_pdu
<1>2. r.xid \in Xid /\ r.ans \in Answer /\ r.xid < xid_
  BY DEF TypeOK, Reply, Sent
<1>3. /\ front' \in 0..(xid_ - 1)
      /\ ahead' \subseteq (front' + 2)..(xid_ - 1)
      /\ front <= front'
      /\ \A y \in Xid : y > front /\ y \notin ahead /\ y # r.xid
                           => y > front' /\ y \notin ahead'
  BY <1>2, WindowStep DEF got_pdu
<1>4. \A y \in Xid : y # r.xid => answer'[y] = answer[y]
  BY <1>1, <1>2 DEF TypeOK
<1>5. answer'[r.xid] \in {answer[r.xid], r.ans}
  BY <1>1, <1>2 DEF TypeOK
<1>6. \A y \in Xid : Waiting(y)' => Waiting(y)
  BY <1>1, <1>4, <1>5 DEF Waiting
<1>7. TypeOK'
  <2>1. answer' \in [Xid -> Answer]
    BY <1>1, <1>2 DEF TypeOK
  <2>2. QED BY <2>1, <1>1, <1>3 DEF TypeOK
<1>8. Sent' /\ CopiesOnce'
  BY <1>1 DEF Sent, CopiesOnce
<1>9. OkSources' /\ OkMeansDone'
  <2>1. \A x \in Xid : Ended(x) => \E m \in Runs(x) : m \notin running
    BY DEF Ended, Runs
  <2>2. ASSUME NEW x \in Xid, answer'[x].ret = "ok"
        PROVE  \E m \in Runs(x) : m \notin running
    <3>1. answer[x].ret = "ok" \/ (x = r.xid /\ r.ans.ret = "ok")
      BY <2>2, <1>4, <1>5
    <3>2. QED BY <3>1, <2>1 DEF OkMeansDone, OkSources
  <2>3. OkMeansDone'
    BY <2>2, <1>1 DEF OkMeansDone, Runs
  <2>4. OkSources'
    BY <1>1 DEF OkSources, Ended
  <2>5. QED BY <2>3, <2>4
<1>10. Unacked'
  <2> SUFFICES ASSUME NEW x \in Xid, Waiting(x)' PROVE x > front' /\ x \notin ahead'
    BY DEF Unacked
  <2>1. CASE x # r.xid
    BY <2>1, <1>3, <1>6 DEF Unacked
  <2>2. CASE x = r.xid
    \* every reply carries an answer, so its caller does not wait any more
    <3>1. r.ans.ret # "none"
      BY DEF RepliesAnswer
    <3>2. QED BY <3>1, <2>2, <1>1, <1>6, <1>2 DEF Waiting, TypeOK
  <2>3. QED BY <2>1, <2>2
<1>11. HeadersBehind'
  <2> SUFFICES ASSUME NEW y \in Xid, y < xid_ PROVE hdr[y].rep <= front'
    BY <1>1 DEF HeadersBehind
  <2>1. hdr[y].rep <= front /\ hdr[y].rep \in Nat
    BY DEF HeadersBehind, TypeOK, Header
  <2>2. QED BY <2>1, <1>3 DEF TypeOK
<1>12. NoncesPast'
  BY <1>1, <1>2, <1>4, <1>5 DEF NoncesPast
<1>13. CallsBound' /\ Remembered' /\ OnceWhileWaiting'
  BY <1>1, <1>6 DEF CallsBound, Remembered, OnceWhileWaiting, Runs, TypeOK, Copy
<1>14. CancelReachesAll'
  BY <1>1, <1>6 DEF CancelReachesAll, TypeOK, Xid
<1>15. QED BY <1>1, <1>7, <1>8, <1>9, <1>10, <1>11, <1>12, <1>13, <1>14 DEF RepliesAnswer, Connected

LEMMA FinishedStep ==
    \A x \in Xid : RpcInvariant /\ (Return(x) \/ Timeout(x)) => RpcInvariant'
<1> SUFFICES ASSUME RpcInvariant, NEW x \in Xid, Return(x) \/ Timeout(x)
             PROVE  RpcInvariant'
  OBVIOUS
<1> USE RpcBounds DEF RpcInvariant, serverVars, netVars
<1>1. /\ x \in calls_
      /\ calls_' = calls_ \ {x}
      /\ update_xid_rep(x)
      /\ answer' = [answer EXCEPT ![x] = NoAnswer]
      /\ ch' = [ch EXCEPT ![x] = 0]
      /\ UNCHANGED <<xid_, hdr, destroy_wait_, netVars, serverVars>>
  BY DEF Return, Timeout, Finished, Waiting
<1>2. srv_nonce_' \in {srv_nonce_, answer[x].srv}
  BY DEF Return, Timeout
<1>3. x < xid_
  BY <1>1 DEF TypeOK, Xid
<1>4. /\ front' \in 0..(xid_ - 1)
      /\ ahead' \subseteq (front' + 2)..(xid_ - 1)
      /\ front <= front'
      /\ \A y \in Xid : y > front /\ y \notin ahead /\ y # x
                           => y > front' /\ y \notin ahead'
  BY <1>1, <1>3, WindowStep
<1>5. answer'[x] = NoAnswer /\ \A y \in Xid : y # x => answer'[y] = answer[y]
  BY <1>1 DEF TypeOK
<1>6. \A y \in Xid : Waiting(y)' => Waiting(y) /\ y # x
  BY <1>1, <1>5 DEF Waiting
<1>7. TypeOK'
  <2>1. answer' \in [Xid -> Answer] /\ ch' \in [Xid -> Conn \cup {0}]
    BY <1>1 DEF TypeOK, NoAnswer, Answer, Ret
  <2>2. srv_nonce_' \in Nonce \cup {0}
    BY <1>2 DEF TypeOK, Answer
  <2>3. QED BY <2>1, <2>2, <1>1, <1>4 DEF TypeOK
<1>8. Sent'
  BY <1>1 DEF Sent
<1>9. CopiesOnce'
  <2>1. \A y \in Xid : y # x => ch'[y] = ch[y]
    BY <1>1 DEF TypeOK
  <2>2. ch'[x] = 0 /\ chan_ \in Nat
    BY <1>1 DEF TypeOK, Conn
  <2>3. QED BY <2>1, <2>2, <1>1 DEF CopiesOnce, TypeOK, Copy
<1>10. Unacked'
  BY <1>4, <1>6 DEF Unacked
<1>11. HeadersBehind'
  <2> SUFFICES ASSUME NEW y \in Xid, y < xid_ PROVE hdr[y].rep <= front'
    BY <1>1 DEF HeadersBehind
  <2>1. hdr[y].rep <= front /\ hdr[y].rep \in Nat
    BY DEF HeadersBehind, TypeOK, Header
  <2>2. QED BY <2>1, <1>4 DEF TypeOK
<1>12. NoncesPast'
  BY <1>1, <1>2, <1>5 DEF NoncesPast, NoAnswer, TypeOK, Nonce
<1>13. CallsBound' /\ Remembered' /\ OnceWhileWaiting'
  BY <1>1, <1>6 DEF CallsBound, Remembered, OnceWhileWaiting, Runs, TypeOK, Copy
<1>14. OkSources'
  BY <1>1 DEF OkSources, Ended
<1>15. OkMeansDone'
  BY <1>1, <1>5 DEF OkMeansDone, Runs, NoAnswer
<1>16. CancelReachesAll'
  BY <1>1, <1>6 DEF CancelReachesAll, TypeOK, Xid
<1>17. QED BY <1>1, <1>7, <1>8, <1>9, <1>10, <1>11, <1>12, <1>13, <1>14, <1>15, <1>16
           DEF RepliesAnswer, Connected

LEMMA CancelStep == RpcInvariant /\ cancel => RpcInvariant'
<1> SUFFICES ASSUME RpcInvariant, cancel PROVE RpcInvariant'
  OBVIOUS
<1> USE RpcBounds DEF RpcInvariant, cancel, netVars, serverVars
<1>1. \A y \in Xid : /\ y \in calls_ => answer'[y] = [ret |-> "cancel", srv |-> 0]
                     /\ y \notin calls_ => answer'[y] = answer[y]
  OBVIOUS
<1>2. \A y \in Xid : ~Waiting(y)'
  BY <1>1 DEF Waiting
<1>3. TypeOK'
  <2>1. answer' \in [Xid -> Answer]
    BY DEF TypeOK, Answer, Ret
  <2>2. QED BY <2>1 DEF TypeOK
<1>4. Sent' /\ CopiesOnce' /\ HeadersBehind' /\ CallsBound'
  BY DEF Sent, CopiesOnce, HeadersBehind, CallsBound
<1>5. NoncesPast'
  BY <1>1 DEF NoncesPast, TypeOK, Nonce
<1>6. Unacked' /\ Remembered' /\ OnceWhileWaiting' /\ CancelReachesAll'
  BY <1>2 DEF Unacked, Remembered, OnceWhileWaiting, CancelReachesAll, TypeOK, Copy, Xid
<1>7. OkSources'
  BY DEF OkSources, Ended
<1>8. OkMeansDone'
  BY <1>1 DEF OkMeansDone, Runs
<1>9. QED BY <1>3, <1>4, <1>5, <1>6, <1>7, <1>8 DEF RepliesAnswer, Connected
-----------------------------------------------------------------------------
(* The network's steps, and a reply that the server sends.                 *)

LEMMA NetworkLemma == RpcInvariant /\ NetworkStep => RpcInvariant'
<1> SUFFICES ASSUME RpcInvariant, NetworkStep PROVE RpcInvariant'
  OBVIOUS
<1> USE RpcBounds DEF RpcInvariant, clientVars, serverVars
<1>1. /\ live' \in {0, live} /\ reqs' \subseteq reqs /\ replies' \subseteq replies
      /\ UNCHANGED <<clientVars, chan_, serverVars>>
  BY DEF NetworkStep, Break, Lose
<1>2. TypeOK'
  BY <1>1 DEF TypeOK
<1>3. Sent' /\ Connected' /\ RepliesAnswer' /\ CopiesOnce'
  BY <1>1 DEF Sent, Connected, RepliesAnswer, CopiesOnce
<1>4. Unacked' /\ HeadersBehind' /\ NoncesPast' /\ CallsBound'
  BY <1>1 DEF Unacked, HeadersBehind, NoncesPast, CallsBound, Waiting
<1>5. Remembered' /\ OkSources'
  BY <1>1 DEF Remembered, OkSources, Ended, Waiting
<1>6. OnceWhileWaiting' /\ OkMeansDone' /\ CancelReachesAll'
  BY <1>1 DEF OnceWhileWaiting, OkMeansDone, CancelReachesAll, Waiting, Runs
<1>7. QED BY <1>2, <1>3, <1>4, <1>5, <1>6

\* What Send adds to the replies on their way.
LEMMA SendAdds ==
    ASSUME RpcInvariant, NEW x \in Xid, x < xid_, NEW k \in Conn,
           NEW ret \in {"ok", "oldsrv", "atmostonce"}, Send(x, k, ret)
    PROVE  /\ replies' \subseteq Reply
           /\ \A r \in replies' : \/ r \in replies
                                 \/ /\ r.xid = x /\ r.ans.ret = ret
                                    /\ r.ans.srv \in {0, nonce_}
<1> DEFINE new == [xid |-> x, conn |-> k, ans |-> [ret |-> ret, srv |-> Value(x, ret)]]
<1>1. Value(x, ret) \in {0, nonce_}
  BY DEF Value
<1>2. nonce_ \in Nonce /\ replies \subseteq Reply
  BY DEF RpcInvariant, TypeOK
<1>3. new \in Reply
  BY <1>1, <1>2 DEF Reply, Answer, Ret
<1>4. \A r \in replies' : r \in replies \/ r = new
  BY DEF Send
<1>5. QED BY <1>1, <1>2, <1>3, <1>4
-----------------------------------------------------------------------------
(* The server's steps.                                                     *)

LEMMA DispatchOldStep == \A m \in reqs : RpcInvariant /\ DispatchOld(m) => RpcInvariant'
<1> SUFFICES ASSUME RpcInvariant, NEW m \in reqs, DispatchOld(m) PROVE RpcInvariant'
  OBVIOUS
<1> USE RpcBounds DEF RpcInvariant, clientVars, serverVars
<1>1. /\ reqs' = reqs \ {m}
      /\ UNCHANGED <<clientVars, chan_, live, serverVars>>
  BY DEF DispatchOld
<1>2. m.xid \in Xid /\ m.conn \in Conn /\ m.xid < xid_
  BY DEF TypeOK, Copy, Sent
<1>3. /\ replies' \subseteq Reply
      /\ \A r \in replies' : \/ r \in replies
                            \/ /\ r.xid = m.xid /\ r.ans.ret = "oldsrv"
                               /\ r.ans.srv \in {0, nonce_}
  BY <1>2, SendAdds DEF DispatchOld
<1>4. TypeOK'
  BY <1>1, <1>3 DEF TypeOK
<1>5. Sent' /\ RepliesAnswer'
  BY <1>1, <1>2, <1>3 DEF Sent, RepliesAnswer
<1>6. Connected' /\ CopiesOnce'
  BY <1>1 DEF Connected, CopiesOnce
<1>7. Unacked' /\ HeadersBehind' /\ CallsBound'
  BY <1>1 DEF Unacked, HeadersBehind, CallsBound, Waiting
<1>8. NoncesPast'
  BY <1>1, <1>3 DEF NoncesPast, TypeOK, Nonce
<1>9. Remembered'
  BY <1>1 DEF Remembered, Waiting
<1>10. OkSources'
  BY <1>1, <1>3 DEF OkSources, Ended
<1>11. OnceWhileWaiting' /\ OkMeansDone' /\ CancelReachesAll'
  BY <1>1 DEF OnceWhileWaiting, OkMeansDone, CancelReachesAll, Waiting, Runs
<1>12. QED BY <1>4, <1>5, <1>6, <1>7, <1>8, <1>9, <1>10, <1>11

\* A request's own acknowledgement does not touch a call that waits.
LEMMA TrimKeepsWaiting ==
    ASSUME RpcInvariant, NEW m \in reqs, NEW x \in Xid, Waiting(x)
    PROVE  Trimmed(hdr[m.xid].rep)[x] = reply_window_[x]
<1>1. m.xid \in Xid /\ m.xid < xid_
  BY DEF RpcInvariant, TypeOK, Copy, Sent
<1>2. hdr[m.xid].rep <= front /\ hdr[m.xid].rep \in Nat
  BY <1>1 DEF RpcInvariant, HeadersBehind, TypeOK, Header
<1>3. x > front /\ front \in Nat /\ x \in Nat
  BY RpcBounds DEF RpcInvariant, Unacked, TypeOK, Xid
<1>4. ~(x <= hdr[m.xid].rep)
  BY <1>2, <1>3
<1>5. QED BY <1>4 DEF Trimmed

LEMMA LookUpStep ==
    \A m \in reqs : /\ RpcInvariant
                    /\ DispatchNew(m) \/ DispatchInProgress(m) \/ DispatchSeen(m)
                    => RpcInvariant'
<1> SUFFICES ASSUME RpcInvariant, NEW m \in reqs,
                    DispatchNew(m) \/ DispatchInProgress(m) \/ DispatchSeen(m)
             PROVE  RpcInvariant'
  OBVIOUS
<1> USE RpcBounds DEF RpcInvariant, clientVars
<1> DEFINE w == Trimmed(hdr[m.xid].rep)
<1>1. /\ reqs' = reqs \ {m} /\ conns_' = m.conn /\ ~OldInstance(m)
      /\ UNCHANGED <<clientVars, chan_, live, nonce_>>
  BY DEF DispatchNew, DispatchInProgress, DispatchSeen, LookUp
<1>2. m.xid \in Xid /\ m.conn \in Conn /\ m.xid < xid_ /\ m \in Copy /\ m \notin ran
  BY DEF TypeOK, Copy, Sent, CopiesOnce
<1>3. /\ w \in [Xid -> {"none", "busy", "done"}]
      /\ \A x \in Xid : w[x] = "done" => reply_window_[x] = "done"
  BY DEF Trimmed, TypeOK
<1>4. \/ /\ State(m) = "NEW" /\ replies' = replies
         /\ reply_window_' = [w EXCEPT ![m.xid] = "busy"]
         /\ running' = running \cup {m} /\ ran' = ran \cup {m}
      \/ /\ reply_window_' = w /\ running' = running /\ ran' = ran
         /\ \/ replies' = replies
            \/ \E ret \in {"ok", "atmostonce"} :
                  /\ Send(m.xid, m.conn, ret)
                  /\ ret = "ok" => State(m) = "DONE"
  BY DEF DispatchNew, DispatchInProgress, DispatchSeen
<1>5. /\ State(m) = "NEW" => w[m.xid] = "none"
      /\ State(m) = "DONE" => w[m.xid] = "done"
  BY <1>2, <1>3 DEF State, rpcstate_t
<1>6. /\ \A x \in Xid : Ended(x) => Ended(x)'
      /\ ran \subseteq ran' /\ ran' \subseteq ran \cup {m}
      /\ running' \subseteq ran' /\ running \subseteq running'
  BY <1>2, <1>4 DEF Ended, TypeOK
<1>7. /\ replies' \subseteq Reply
      /\ \A r \in replies' : \/ r \in replies
                            \/ /\ r.xid = m.xid /\ r.ans.ret \in {"ok", "atmostonce"}
                               /\ r.ans.srv \in {0, nonce_}
                               /\ r.ans.ret = "ok" => State(m) = "DONE"
  <2>1. CASE replies' = replies
    BY <2>1 DEF TypeOK
  <2>2. CASE \E ret \in {"ok", "atmostonce"} :
                  /\ Send(m.xid, m.conn, ret)
                  /\ ret = "ok" => State(m) = "DONE"
    BY <2>2, <1>2, SendAdds
  <2>3. QED BY <2>1, <2>2, <1>4
<1>8. TypeOK'
  <2>1. reply_window_' \in [Xid -> {"none", "busy", "done"}]
    BY <1>2, <1>3, <1>4
  <2>2. QED BY <2>1, <1>1, <1>2, <1>6, <1>7 DEF TypeOK
<1>9. Sent' /\ RepliesAnswer'
  BY <1>1, <1>2, <1>6, <1>7 DEF Sent, RepliesAnswer
<1>10. Connected'
  BY <1>1, <1>2 DEF Connected
<1>11. CopiesOnce'
  BY <1>1, <1>2, <1>6 DEF CopiesOnce
<1>12. Unacked' /\ HeadersBehind' /\ CallsBound' /\ CancelReachesAll'
  BY <1>1 DEF Unacked, HeadersBehind, CallsBound, CancelReachesAll, Waiting
<1>13. NoncesPast'
  BY <1>1, <1>7 DEF NoncesPast, TypeOK, Nonce
<1>14. \A x \in Xid : Waiting(x)' <=> Waiting(x)
  BY <1>1 DEF Waiting
<1>15. Remembered'
  <2> SUFFICES ASSUME NEW n \in ran', hdr[n.xid].srv = nonce_, Waiting(n.xid)
               PROVE  reply_window_'[n.xid] # "none"
    BY <1>1 DEF Remembered, Waiting
  <2>1. n.xid \in Xid
    BY <1>2, <1>6 DEF TypeOK, Copy
  <2>2. CASE n.xid = m.xid /\ State(m) = "NEW" /\ reply_window_' = [w EXCEPT ![m.xid] = "busy"]
    BY <2>2, <1>2, <1>3
  <2>3. CASE n \in ran
    <3>1. w[n.xid] # "none"
      BY <2>1, <2>3, TrimKeepsWaiting DEF Remembered
    <3>2. QED BY <3>1, <2>1, <1>2, <1>3, <1>4
  <2>4. QED BY <2>2, <2>3, <1>4
<1>16. OkSources'
  <2>1. ASSUME NEW x \in Xid, reply_window_'[x] = "done" PROVE Ended(x)'
    <3>1. w[x] = "done"
      BY <2>1, <1>2, <1>3, <1>4
    <3>2. QED BY <3>1, <1>3, <1>6 DEF OkSources
  <2>2. ASSUME NEW r \in replies', r.ans.ret = "ok" PROVE Ended(r.xid)'
    <3>1. r.xid \in Xid
      BY <1>7 DEF Reply
    <3>2. CASE r \in replies
      BY <3>1, <3>2, <2>2, <1>6 DEF OkSources
    <3>3. CASE r \notin replies
      BY <3>1, <3>3, <2>2, <1>2, <1>3, <1>5, <1>6, <1>7 DEF OkSources
    <3>4. QED BY <3>2, <3>3
  <2>3. QED BY <2>1, <2>2 DEF OkSources
<1>17. OkMeansDone'
  <2> SUFFICES ASSUME NEW x \in Xid, answer[x].ret = "ok"
               PROVE  \E n \in ran' : n.xid = x /\ n \notin running'
    BY <1>1 DEF OkMeansDone, Runs
  <2>1. Ended(x)
    BY DEF OkMeansDone, Ended, Runs
  <2>2. QED BY <2>1, <1>6 DEF Ended
<1>18. OnceWhileWaiting'
  <2> SUFFICES ASSUME NEW x \in Xid, Waiting(x), hdr[x].proc = "call",
                      NEW n \in ran', NEW o \in ran', n.xid = x, o.xid = x
               PROVE  n = o
    BY <1>1, <1>14 DEF OnceWhileWaiting, Runs
  <2>1. CASE n \in ran /\ o \in ran
    BY <2>1 DEF OnceWhileWaiting, Runs
  <2>2. ASSUME NEW p \in ran, p.xid = x, State(m) = "NEW", m.xid = x
        PROVE  FALSE
    <3>1. hdr[x].srv = nonce_
      BY <2>2, <1>1 DEF OldInstance, CallsBound
    <3>2. reply_window_[x] # "none"
      BY <3>1, <2>2 DEF Remembered
    <3>3. QED BY <3>2, <2>2, <1>5, TrimKeepsWaiting
  <2>3. n \in ran \cup {m} /\ o \in ran \cup {m} /\ (ran' = ran \/ State(m) = "NEW")
    BY <1>4, <1>6
  <2>4. QED BY <2>1, <2>2, <2>3
<1>19. QED BY <1>8, <1>9, <1>10, <1>11, <1>12, <1>13, <1>15, <1>16, <1>17, <1>18

LEMMA HandlerEndsStep == \A m \in running : RpcInvariant /\ HandlerEnds(m) => RpcInvariant'
<1> SUFFICES ASSUME RpcInvariant, NEW m \in running, HandlerEnds(m) PROVE RpcInvariant'
  OBVIOUS
<1> USE RpcBounds DEF RpcInvariant, clientVars
<1>1. /\ running' = running \ {m}
      /\ reply_window_' = [reply_window_ EXCEPT ![m.xid] =
                             IF @ = "none" THEN "none" ELSE "done"]
      /\ UNCHANGED <<clientVars, chan_, live, reqs, nonce_, conns_, ran>>
  BY DEF HandlerEnds
<1>2. m \in ran /\ m.xid \in Xid /\ m.conn \in Conn /\ m.xid < xid_ /\ conns_ \in Conn
  BY DEF TypeOK, Copy, Sent, Connected
<1>3. /\ replies' \subseteq Reply
      /\ \A r \in replies' : \/ r \in replies
                            \/ /\ r.xid = m.xid /\ r.ans.ret = "ok"
                               /\ r.ans.srv \in {0, nonce_}
  <2>1. PICK k \in {m.conn, conns_} : Send(m.xid, k, "ok")
    BY DEF HandlerEnds
  <2>2. QED BY <2>1, <1>2, SendAdds
<1>4. Ended(m.xid)' /\ \A x \in Xid : Ended(x) => Ended(x)'
  BY <1>1, <1>2 DEF Ended
<1>5. \A x \in Xid : (x # m.xid \/ reply_window_[x] = "none")
                        => reply_window_'[x] = reply_window_[x]
  BY <1>1 DEF TypeOK
<1>6. TypeOK'
  <2>1. reply_window_' \in [Xid -> {"none", "busy", "done"}]
    BY <1>1 DEF TypeOK
  <2>2. QED BY <2>1, <1>1, <1>3 DEF TypeOK
<1>7. Sent' /\ RepliesAnswer'
  BY <1>1, <1>2, <1>3 DEF Sent, RepliesAnswer
<1>8. Connected' /\ CopiesOnce'
  BY <1>1, <1>2 DEF Connected, CopiesOnce
<1>9. Unacked' /\ HeadersBehind' /\ CallsBound' /\ CancelReachesAll'
  BY <1>1 DEF Unacked, HeadersBehind, CallsBound, CancelReachesAll, Waiting
<1>10. NoncesPast'
  BY <1>1, <1>3 DEF NoncesPast, TypeOK, Nonce
<1>11. Remembered'
  BY <1>1 DEF Remembered, Waiting, TypeOK, Copy
<1>12. OkSources'
  <2>1. ASSUME NEW x \in Xid, reply_window_'[x] = "done" PROVE Ended(x)'
    BY <2>1, <1>4, <1>5 DEF OkSources
  <2>2. ASSUME NEW r \in replies', r.ans.ret = "ok" PROVE Ended(r.xid)'
    BY <2>2, <1>3, <1>4 DEF OkSources, Reply
  <2>3. QED BY <2>1, <2>2 DEF OkSources
<1>13. OnceWhileWaiting' /\ OkMeansDone'
  BY <1>1 DEF OnceWhileWaiting, OkMeansDone, Waiting, Runs
<1>14. QED BY <1>6, <1>7, <1>8, <1>9, <1>10, <1>11, <1>12, <1>13

LEMMA RestartStep == RpcInvariant /\ Restart => RpcInvariant'
<1> SUFFICES ASSUME RpcInvariant, Restart PROVE RpcInvariant'
  OBVIOUS
<1> USE RpcBounds DEF RpcInvariant, Restart, clientVars
<1>1. nonce_ \in Nat /\ nonce_' = nonce_ + 1 /\ nonce_' \in Nonce
  BY DEF TypeOK, Nonce
<1>2. TypeOK'
  BY <1>1 DEF TypeOK
<1>3. Sent' /\ Connected' /\ RepliesAnswer' /\ CopiesOnce'
  BY DEF Sent, Connected, RepliesAnswer, CopiesOnce
<1>4. Unacked' /\ HeadersBehind' /\ CallsBound' /\ CancelReachesAll'
  BY DEF Unacked, HeadersBehind, CallsBound, CancelReachesAll, Waiting
<1>5. NoncesPast'
  <2>1. /\ srv_nonce_ \in Nat
        /\ \A y \in Xid : hdr[y].srv \in Nat /\ answer[y].srv \in Nat
    BY DEF TypeOK, Header, Answer, Nonce
  <2>2. QED BY <2>1, <1>1 DEF NoncesPast
<1>6. Remembered'
  \* no call names the new instance yet
  <2> SUFFICES ASSUME NEW m \in ran PROVE hdr[m.xid].srv # nonce_'
    BY DEF Remembered
  <2>1. m.xid \in Xid /\ m.xid < xid_
    BY DEF TypeOK, Copy, Sent
  <2>2. hdr[m.xid].srv <= nonce_ /\ hdr[m.xid].srv \in Nat
    BY <2>1 DEF NoncesPast, TypeOK, Header, Nonce
  <2>3. QED BY <2>2, <1>1
<1>7. OkSources'
  BY DEF OkSources
<1>8. OnceWhileWaiting' /\ OkMeansDone'
  BY DEF OnceWhileWaiting, OkMeansDone, Waiting, Runs
<1>9. QED BY <1>2, <1>3, <1>4, <1>5, <1>6, <1>7, <1>8
-----------------------------------------------------------------------------
LEMMA StutterStep == RpcInvariant /\ UNCHANGED vars => RpcInvariant'
<1> SUFFICES ASSUME RpcInvariant, UNCHANGED vars PROVE RpcInvariant'
  OBVIOUS
<1> USE DEF RpcInvariant, vars, clientVars, netVars, serverVars
<1>1. TypeOK' /\ Sent' /\ Connected' /\ RepliesAnswer' /\ CopiesOnce'
  BY DEF TypeOK, Sent, Connected, RepliesAnswer, CopiesOnce
<1>2. Unacked' /\ HeadersBehind' /\ NoncesPast' /\ CallsBound' /\ Remembered'
  BY DEF Unacked, HeadersBehind, NoncesPast, CallsBound, Remembered, Waiting
<1>3. OkSources' /\ OnceWhileWaiting' /\ OkMeansDone' /\ CancelReachesAll'
  BY DEF OkSources, Ended, OnceWhileWaiting, OkMeansDone, CancelReachesAll, Waiting, Runs
<1>4. QED BY <1>1, <1>2, <1>3

\* Every state of the client, its connections and the server satisfies the
\* inductive invariant, whatever the bounds.
THEOREM RpcInvariantHolds == Spec => []RpcInvariant
<1>1. Init => RpcInvariant
  BY InitInvariant
<1>2. RpcInvariant /\ [Next]_vars => RpcInvariant'
  <2> SUFFICES ASSUME RpcInvariant, [Next]_vars PROVE RpcInvariant'
    OBVIOUS
  <2>1. CASE ClientStep
    BY <2>1, Call1Step, CancelStep, TransmitStep, FinishedStep, GotPduStep DEF ClientStep
  <2>2. CASE NetworkStep
    BY <2>2, NetworkLemma
  <2>3. CASE ServerStep
    BY <2>3, DispatchOldStep, LookUpStep, HandlerEndsStep, RestartStep DEF ServerStep
  <2>4. CASE UNCHANGED vars
    BY <2>4, StutterStep
  <2>5. QED BY <2>1, <2>2, <2>3, <2>4 DEF Next
<1>3. QED BY <1>1, <1>2, PTL DEF Spec

\* The RPC variables keep their types; in particular xid_rep_window_ stays
\* ordered and never joined to its front (update_xid_rep).
THEOREM RpcTypeCorrect == Spec => []TypeOK
<1>1. RpcInvariant => TypeOK
  BY DEF RpcInvariant
<1>2. QED BY <1>1, RpcInvariantHolds, PTL

\* While a caller waits, its call has been run at most once, however often
\* connections break and the server restarts (checkduplicate_and_update).
THEOREM RpcOnceWhileWaiting == Spec => []OnceWhileWaiting
<1>1. RpcInvariant => OnceWhileWaiting
  BY DEF RpcInvariant
<1>2. QED BY <1>1, RpcInvariantHolds, PTL

\* An OK answers a call whose handler has ended (dispatch, got_pdu).
THEOREM RpcOkMeansDone == Spec => []OkMeansDone
<1>1. RpcInvariant => OkMeansDone
  BY DEF RpcInvariant
<1>2. QED BY <1>1, RpcInvariantHolds, PTL

\* While cancel waits, every call under way is marked as done (cancel, call1).
THEOREM RpcCancelReachesAll == Spec => []CancelReachesAll
<1>1. RpcInvariant => CancelReachesAll
  BY DEF RpcInvariant
<1>2. QED BY <1>1, RpcInvariantHolds, PTL
=============================================================================
