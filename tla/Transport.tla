----------------------------- MODULE Transport -----------------------------
(***************************************************************************)
(* The connections of one process and the threads that share them: the    *)
(* select loop of PollMgr (rpc/pollmgr.cc), the connection class and the   *)
(* accepting thread (rpc/connection.cc), the non-blocking job queue of     *)
(* rpcs and the part of dispatch, get_refconn and ~rpcc that takes and     *)
(* drops references (rpc/rpc.cc).                                          *)
(*                                                                         *)
(* A worker is a thread that takes jobs of the server (dispatchpool_) or   *)
(* makes calls of the one client rpcc.  The accepted connections belong to *)
(* one remote client; saved is its entry in rpcs::conns_.                  *)
(*                                                                         *)
(* Simplifications:                                                        *)
(*  - A pdu is PduLen units, the first of which is its size.               *)
(*  - A callback, and send up to a point where it waits, hold the          *)
(*    connection's m_ throughout and are single steps.  PollMgr::m_ and    *)
(*    SelectAIO::m_ are only taken below it and never held at a wait.      *)
(*  - The socket is external: units arrive, the peer reads, either end     *)
(*    breaks the connection.                                               *)
(***************************************************************************)
EXTENDS Integers, Sequences, FiniteSets, FiniteSetsExt

CONSTANTS
    Fd,          \* file descriptors; accept and socket return a free one
    Conn,        \* connection objects, used in this order: 1..n
    Worker,      \* threads
    PduLen,      \* units of a pdu
    MaxUnits,    \* bound: units a peer sends on a connection
    MaxJobs,     \* fifo::max_
    MaxCalls,    \* bound: calls made by the client
    NULL

ASSUME TransportAssumption ==
    /\ Conn \subseteq Nat /\ Fd \subseteq Nat
    /\ PduLen \in Nat \ {0, 1}
    /\ MaxUnits \in Nat /\ MaxJobs \in Nat \ {0} /\ MaxCalls \in Nat
    /\ NULL \notin Conn /\ IsFiniteSet(Worker)

VARIABLES
    conn,        \* connection objects
    callbacks,   \* PollMgr::callbacks_
    rfds, wfds,  \* SelectAIO's sets
    pending,     \* PollMgr::pending_change_
    pipe,        \* whether SelectAIO's pipe holds a byte
    loop,        \* the thread in wait_loop: pc, ready sets, errno
    wk,          \* workers: pc, connection, what they do with it
    jobq,        \* fifo of jobs: the connection of each
    conns,       \* tcpsconn::conns_
    saved,       \* rpcs::conns_[nonce]
    chan,        \* rpcc::chan_
    sock,        \* the kernel's side of a descriptor
    calls,       \* calls made by the client
    aborted      \* an assert has failed

pollVars == <<callbacks, rfds, wfds, pending, pipe>>
ownerVars == <<jobq, conns, saved, chan, calls>>
vars == <<conn, pollVars, loop, wk, ownerVars, sock, aborted>>

---------------------------------------------------------------------------
(* State *)

\* A connection before connection::connection.  wsz and wdone are wpdu_.sz
\* and wpdu_.solong, buf says whether wpdu_.buf is set, rdone is
\* rpdu_.solong; rpdu_.sz is zero exactly when rdone is.
NoConnection == [st |-> "none", fd |-> 0, srv |-> FALSE, dead |-> FALSE, refno |-> 0,
                 buf |-> FALSE, wsz |-> 0, wdone |-> 0, rdone |-> 0]

IdleWorker == [pc |-> "idle", c |-> NULL, op |-> "none"]

ClosedSocket == [open |-> FALSE, in |-> 0, sent |-> 0, shut |-> "no"]

WorkerPC == {"idle", "dispatch", "latest", "send", "turn", "turnWoken", "complete", "completeWoken",
             "remove", "removing", "removed", "decref"}

TypeOK ==
    /\ conn \in [Conn -> [st : {"none", "open", "freed"}, fd : Fd \cup {0}, srv : BOOLEAN,
                          dead : BOOLEAN, refno : Nat, buf : BOOLEAN, wsz : {0, PduLen},
                          wdone : -1 .. PduLen, rdone : 0 .. PduLen]]
    /\ callbacks \in [Fd -> Conn \cup {NULL}]
    /\ rfds \subseteq Fd /\ wfds \subseteq Fd
    /\ pending \in BOOLEAN /\ pipe \in BOOLEAN
    /\ loop \in [pc : {"top", "copy", "select", "read", "write"}, r : SUBSET Fd, w : SUBSET Fd,
                 owner : [Fd -> Conn \cup {NULL}], eagain : BOOLEAN]
    /\ wk \in [Worker -> [pc : WorkerPC, c : Conn \cup {NULL},
                         op : {"none", "reply", "stale", "call", "close"}]]
    /\ jobq \in Seq(Conn) /\ Len(jobq) <= MaxJobs
    /\ conns \subseteq Conn
    /\ saved \in Conn \cup {NULL} /\ chan \in Conn \cup {NULL}
    /\ sock \in [Fd -> [open : BOOLEAN, in : 0 .. MaxUnits, sent : 0 .. MaxUnits,
                        shut : {"no", "eof", "rst"}]]
    /\ calls \in 0 .. MaxCalls /\ aborted \in BOOLEAN

Init ==
    /\ conn = [c \in Conn |-> NoConnection]
    /\ callbacks = [f \in Fd |-> NULL]
    /\ rfds = {} /\ wfds = {} /\ pending = FALSE /\ pipe = FALSE
    /\ loop = [pc |-> "top", r |-> {}, w |-> {}, owner |-> [f \in Fd |-> NULL], eagain |-> FALSE]
    /\ wk = [w \in Worker |-> IdleWorker]
    /\ jobq = <<>> /\ conns = {} /\ saved = NULL /\ chan = NULL
    /\ sock = [f \in Fd |-> ClosedSocket]
    /\ calls = 0 /\ aborted = FALSE

---------------------------------------------------------------------------
(* References *)

\* decref on the object table cs: the last reference to a dead connection
\* deletes it, and its destructor closes the descriptor.
decref(cs, c) ==
    LET n == cs[c].refno - 1 IN
    [cs EXCEPT ![c] = IF n = 0 /\ @.st = "open" /\ @.dead THEN [NoConnection EXCEPT !.st = "freed"]
                      ELSE [@ EXCEPT !.refno = n]]

incref(cs, c) == [cs EXCEPT ![c].refno = @ + 1]

\* The descriptors closed by the destructors between conn and cs.
Closed(cs) == {conn[c].fd : c \in {d \in Conn : conn[d].st = "open" /\ cs[d].st = "freed"}}

CloseSockets(cs) == sock' = [f \in Fd |-> IF f \in Closed(cs) THEN ClosedSocket ELSE sock[f]]

\* connection::connection on descriptor f, registered with PollMgr.
NewConnection(cs, c, f, srv) ==
    [cs EXCEPT ![c] = [NoConnection EXCEPT !.st = "open", !.fd = f, !.srv = srv, !.refno = 1]]

Unused == {c \in Conn : conn[c].st = "none"}
FreeFds(cs) == {f \in Fd : ~sock[f].open} \cup Closed(cs)

---------------------------------------------------------------------------
(* What a sender does last *)

\* A stale request (oldsrv_failure) is answered by a return from dispatch
\* that keeps the job's reference.
AfterSend(w) == IF wk[w].op = "stale" THEN IdleWorker ELSE [wk[w] EXCEPT !.pc = "decref"]

\* The end of send: the buffer is free again and all who wait for it wake.
FinishSend(w, cs) ==
    LET c == wk[w].c IN
    /\ conn' = [cs EXCEPT ![c].buf = FALSE, ![c].wsz = 0, ![c].wdone = 0]
    /\ wk' = [v \in Worker |-> CASE v = w -> AfterSend(w)
                                [] v # w /\ wk[v].c = c /\ wk[v].pc = "turn" -> [wk[v] EXCEPT !.pc = "turnWoken"]
                                [] OTHER -> wk[v]]

---------------------------------------------------------------------------
(* PollMgr and SelectAIO *)

\* SelectAIO::watch_fd wakes the loop through the pipe; unwatch_fd does so
\* only when both flags go.
watch_fd(f, flags) ==
    /\ rfds' = IF "r" \in flags THEN rfds \cup {f} ELSE rfds
    /\ wfds' = IF "w" \in flags THEN wfds \cup {f} ELSE wfds
    /\ pipe' = TRUE

unwatch_fd(f, flags) ==
    /\ rfds' = IF "r" \in flags THEN rfds \ {f} ELSE rfds
    /\ wfds' = IF "w" \in flags THEN wfds \ {f} ELSE wfds
    /\ pipe' = (pipe \/ flags = {"r", "w"})

\* Another connection's callback on the descriptor fails the assert.
add_callback(f, flags, c) ==
    /\ watch_fd(f, flags)
    /\ callbacks' = [callbacks EXCEPT ![f] = c]
    /\ aborted' = (aborted \/ callbacks[f] \notin {NULL, c})
    /\ UNCHANGED pending

del_callback(f, flags) ==
    /\ unwatch_fd(f, flags)
    /\ callbacks' = [callbacks EXCEPT ![f] = IF f \in rfds' \cup wfds' THEN @ ELSE NULL]
    /\ UNCHANGED pending

\* mutant: block_remove_fd does not wait for the loop
block_remove_fd_nowait(w) ==
    /\ wk[w].pc = "remove"
    /\ unwatch_fd(conn[wk[w].c].fd, {"r", "w"})
    /\ wk' = [wk EXCEPT ![w].pc = "removed"]
    /\ UNCHANGED <<conn, callbacks, loop, ownerVars, sock, aborted, pending>>

\* The first half of block_remove_fd, up to the wait for changedone_c_.
block_remove_fd(w) ==
    /\ wk[w].pc = "remove"
    /\ unwatch_fd(conn[wk[w].c].fd, {"r", "w"})
    /\ pending' = TRUE
    /\ wk' = [wk EXCEPT ![w].pc = "removing"]
    /\ UNCHANGED <<conn, callbacks, loop, ownerVars, sock, aborted>>

\* The second half, when changedone_c_ has been broadcast.  The thread then
\* goes back to send, or drops its reference if it is closing.
FinishRemove(w) ==
    LET c == wk[w].c IN
    /\ wk[w].pc = "removed"
    /\ callbacks' = [callbacks EXCEPT ![conn[c].fd] = NULL]
    /\ \/ /\ wk[w].op = "close"
          /\ wk' = [wk EXCEPT ![w].pc = "decref"]
          /\ UNCHANGED conn
       \/ /\ wk[w].op # "close"
          /\ FinishSend(w, conn)
    /\ UNCHANGED <<rfds, wfds, pending, pipe, loop, ownerVars, sock, aborted>>

\* wait_loop's first block: waiting removers are told that every callback
\* of the last round has returned.
LoopTop ==
    /\ loop.pc = "top"
    /\ loop' = [loop EXCEPT !.pc = "copy"]
    /\ pending' = FALSE
    /\ wk' = [w \in Worker |-> IF pending /\ wk[w].pc = "removing"
                              THEN [wk[w] EXCEPT !.pc = "removed"] ELSE wk[w]]
    /\ UNCHANGED <<conn, callbacks, rfds, wfds, pipe, ownerVars, sock, aborted>>

\* wait_ready copies the sets under SelectAIO::m_ and then selects on the
\* copies.  owner remembers whose descriptors they were.
LoopCopy ==
    /\ loop.pc = "copy"
    /\ loop' = [loop EXCEPT !.pc = "select", !.r = rfds, !.w = wfds, !.owner = callbacks]
    /\ UNCHANGED <<conn, pollVars, wk, ownerVars, sock, aborted>>

Readable(f) == sock[f].in > 0 \/ sock[f].shut # "no"

\* Where the loop goes when r and w are still to be served.
LoopNext(r, w) == CASE r # {} -> "read" [] r = {} /\ w # {} -> "write" [] OTHER -> "top"

Serve(r, w, eagain) ==
    loop' = [pc |-> LoopNext(r, w), r |-> r, w |-> w, eagain |-> eagain,
             owner |-> [f \in Fd |-> IF f \in r THEN loop.owner[f] ELSE NULL]]

\* select returns when something is ready; one byte of the pipe is read,
\* which may be its last.  How far the peer has read, and so which sockets
\* take more, is not kept.  A closed descriptor in the sets is EBADF and
\* fails the assert.
LoopSelect ==
    LET r == {f \in loop.r : Readable(f)} IN
    /\ loop.pc = "select"
    /\ \E w \in SUBSET loop.w :
        /\ \A f \in loop.w : sock[f].shut # "no" => f \in w
        /\ r \cup w # {} \/ pipe \/ \E f \in loop.r \cup loop.w : ~sock[f].open
        /\ Serve(r, w, loop.eagain)
    /\ aborted' = \E f \in loop.r \cup loop.w : ~sock[f].open
    /\ pipe' \in {FALSE, pipe}
    /\ UNCHANGED <<conn, callbacks, rfds, wfds, pending, wk, ownerVars, sock>>

---------------------------------------------------------------------------
(* Callbacks: the loop calls the connection that is registered now for the *)
(* next ready descriptor.                                                  *)

\* pthread_cond_signal(&send_complete_)
SignalComplete(c) ==
    wk' = [w \in Worker |-> IF wk[w].c = c /\ wk[w].pc = "complete"
                           THEN [wk[w] EXCEPT !.pc = "completeWoken"] ELSE wk[w]]

\* The part of readpdu behind the size: what is there of a pdu of which rd
\* units are known.  At the end of the stream errno is not set, so an
\* EAGAIN of an earlier call makes readpdu report success for ever.
ReadBody(s, rd) ==
    LET n == Min({s.in, PduLen - rd}) IN
    CASE s.in > 0 -> [ok |-> TRUE, rdone |-> rd + n, in |-> s.in - n, eagain |-> loop.eagain]
      [] s.in = 0 /\ s.shut = "no" -> [ok |-> TRUE, rdone |-> rd, in |-> 0, eagain |-> TRUE]
      [] s.in = 0 /\ s.shut = "eof" ->
           [ok |-> loop.eagain, rdone |-> IF loop.eagain THEN rd ELSE 0, in |-> 0, eagain |-> loop.eagain]
      [] OTHER -> [ok |-> FALSE, rdone |-> 0, in |-> 0, eagain |-> FALSE]

\* readpdu: the outcomes of a call.  The size may come in two segments, which
\* is taken for a failure.
readpdu(c) ==
    LET s == sock[conn[c].fd] IN
    CASE conn[c].rdone > 0 -> {ReadBody(s, conn[c].rdone)}
      [] conn[c].rdone = 0 /\ s.in > 0 ->
           {ReadBody([s EXCEPT !.in = @ - 1], 1),
            [ok |-> FALSE, rdone |-> 0, in |-> s.in - 1, eagain |-> loop.eagain]}
      [] OTHER -> {[ok |-> FALSE, rdone |-> 0, in |-> 0, eagain |-> loop.eagain /\ s.shut = "eof"]}

\* mutant: the job does without a reference
got_pdu_unref(c, cs) ==
    \/ /\ ~conn[c].srv
       /\ conn' = [cs EXCEPT ![c].rdone = 0]
       /\ UNCHANGED jobq
    \/ /\ conn[c].srv /\ Len(jobq) < MaxJobs
       /\ conn' = [cs EXCEPT ![c].rdone = 0]
       /\ jobq' = Append(jobq, c)
    \/ /\ conn[c].srv /\ Len(jobq) >= MaxJobs
       /\ conn' = cs
       /\ UNCHANGED jobq

\* mutant: addJob ignores a full queue
got_pdu_overfull(c, cs) ==
    \/ /\ ~conn[c].srv
       /\ conn' = [cs EXCEPT ![c].rdone = 0]
       /\ UNCHANGED jobq
    \/ /\ conn[c].srv
       /\ conn' = incref([cs EXCEPT ![c].rdone = 0], c)
       /\ jobq' = Append(jobq, c)

\* got_pdu of rpcs: a job with a reference of its own, refused when the
\* queue is full; got_pdu of rpcc always consumes.
got_pdu(c, cs) ==
    \/ /\ ~conn[c].srv
       /\ conn' = [cs EXCEPT ![c].rdone = 0]
       /\ UNCHANGED jobq
    \/ /\ conn[c].srv /\ Len(jobq) < MaxJobs
       /\ conn' = incref([cs EXCEPT ![c].rdone = 0], c)
       /\ jobq' = Append(jobq, c)
    \/ /\ conn[c].srv /\ Len(jobq) >= MaxJobs
       /\ conn' = cs
       /\ UNCHANGED jobq

\* mutant: a sender that waits is not told that the connection is dead
ReadFails_silent(c, x) ==
    /\ ~x.ok
    /\ del_callback(conn[c].fd, {"r", "w"})
    /\ conn' = [conn EXCEPT ![c].dead = TRUE, ![c].rdone = x.rdone]
    /\ UNCHANGED <<wk, jobq>>

\* A failed read: the connection leaves the loop and a waiting sender is told.
ReadFails(c, x) ==
    /\ ~x.ok
    /\ del_callback(conn[c].fd, {"r", "w"})
    /\ conn' = [conn EXCEPT ![c].dead = TRUE, ![c].rdone = x.rdone]
    /\ SignalComplete(c)
    /\ UNCHANGED jobq

\* read_cb on a live connection.
read_cb(c) ==
    \E x \in IF conn[c].rdone = PduLen
             THEN {[ok |-> TRUE, rdone |-> PduLen, in |-> sock[conn[c].fd].in, eagain |-> loop.eagain]}
             ELSE readpdu(c) :
        /\ \/ ReadFails(c, x)
           \/ /\ x.ok /\ x.rdone < PduLen
              /\ conn' = [conn EXCEPT ![c].rdone = x.rdone]
              /\ UNCHANGED <<pollVars, wk, jobq>>
           \/ /\ x.ok /\ x.rdone = PduLen
              /\ got_pdu(c, [conn EXCEPT ![c].rdone = PduLen])
              /\ UNCHANGED <<pollVars, wk>>
        /\ sock' = [sock EXCEPT ![conn[c].fd].in = x.in]
        /\ Serve(loop.r \ {conn[c].fd}, loop.w, x.eagain)

Live(c) == c # NULL /\ ~conn[c].dead

LoopRead ==
    LET f == Min(loop.r)
        c == callbacks[f] IN
    /\ loop.pc = "read"
    /\ \/ /\ ~Live(c)
          /\ Serve(loop.r \ {f}, loop.w, loop.eagain)
          /\ UNCHANGED <<conn, pollVars, wk, jobq, sock, aborted>>
       \/ /\ Live(c)
          /\ read_cb(c)
          \* assert(errno != EAGAIN) of readpdu
          /\ aborted' = (conn[c].rdone = 0 /\ ~Readable(f))
    /\ UNCHANGED <<conns, saved, chan, calls>>

\* writepdu behind the first test: the value of solong after one write, -1
\* for a failure.  A socket takes what it has room for, nothing being EAGAIN;
\* one whose peer has closed takes bytes until the reset comes back.
writepdu(f, done) ==
    CASE sock[f].shut = "no" -> done .. PduLen [] sock[f].shut = "eof" -> {-1} \cup (done .. PduLen)
      [] OTHER -> {-1}

\* write_cb on a live connection.
write_cb(c) ==
    LET f == conn[c].fd IN
    \/ /\ conn[c].wsz = 0
       /\ del_callback(f, {"w"})
       /\ UNCHANGED <<conn, wk>>
    \/ /\ conn[c].wsz > 0 /\ conn[c].wdone = PduLen
       /\ SignalComplete(c)
       /\ UNCHANGED <<conn, pollVars>>
    \/ /\ conn[c].wsz > 0 /\ conn[c].wdone < PduLen
       /\ \E n \in writepdu(f, conn[c].wdone) :
           \/ /\ n = -1
              /\ conn' = [conn EXCEPT ![c].wdone = n, ![c].wsz = 0, ![c].dead = TRUE]
              /\ del_callback(f, {"r", "w"})
              /\ SignalComplete(c)
           \/ /\ n >= 0
              /\ conn' = [conn EXCEPT ![c].wdone = n]
              /\ IF n = PduLen THEN SignalComplete(c) ELSE UNCHANGED wk
              /\ UNCHANGED pollVars

\* Whether errno is EAGAIN behind a write callback for c.
ErrnoAfter(c) ==
    IF conn[c].wsz > 0 /\ conn'[c].wdone \in {-1, conn[c].wdone} /\ conn[c].wdone < PduLen
    THEN ~conn'[c].dead ELSE loop.eagain

LoopWrite ==
    LET f == Min(loop.w)
        c == callbacks[f] IN
    /\ loop.pc = "write"
    /\ \/ /\ c = NULL
          /\ UNCHANGED <<conn, pollVars, wk, aborted>>
       \* assert(!dead_)
       \/ /\ c # NULL /\ ~Live(c)
          /\ aborted' = TRUE
          /\ UNCHANGED <<conn, pollVars, wk>>
       \/ /\ Live(c)
          /\ write_cb(c)
          /\ UNCHANGED aborted
    /\ Serve({}, loop.w \ {f}, IF c = NULL THEN loop.eagain ELSE ErrnoAfter(c))
    /\ UNCHANGED <<ownerVars, sock>>

---------------------------------------------------------------------------
(* Threads *)

\* do_worker: takeJob hands the worker the oldest job.
TakeJob(w) ==
    /\ wk[w].pc = "idle" /\ jobq # <<>>
    /\ wk' = [wk EXCEPT ![w] = [pc |-> "dispatch", c |-> Head(jobq), op |-> "reply"]]
    /\ jobq' = Tail(jobq)
    /\ UNCHANGED <<conn, pollVars, loop, conns, saved, chan, calls, sock, aborted>>

\* dispatch up to the handler: a request for an old server instance, or one
\* that is remembered as the client's latest connection and then is in
\* progress (no answer), done (answered again) or new.
Dispatch(w) ==
    LET c == wk[w].c
        cs == IF saved \in {c, NULL} THEN conn ELSE decref(conn, saved) IN
    /\ wk[w].pc = "dispatch"
    /\ \/ /\ wk' = [wk EXCEPT ![w].pc = "send", ![w].op = "stale"]
          /\ UNCHANGED <<conn, saved, sock>>
       \/ /\ \E pc \in {"decref", "send", "latest"} : wk' = [wk EXCEPT ![w].pc = pc]
          /\ conn' = IF saved = c THEN conn ELSE incref(cs, c)
          /\ saved' = c
          /\ CloseSockets(cs)
    /\ UNCHANGED <<pollVars, loop, jobq, conns, chan, calls, aborted>>

\* After the handler of a new request: the reply goes to the client's latest
\* connection if the request's own has died.
Latest(w) ==
    LET c == wk[w].c
        cs == decref(conn, c) IN
    /\ wk[w].pc = "latest"
    /\ \/ /\ conn[c].dead /\ c # saved
          /\ conn' = incref(cs, saved)
          /\ CloseSockets(cs)
          /\ wk' = [wk EXCEPT ![w].pc = "send", ![w].c = saved]
       \/ /\ ~(conn[c].dead /\ c # saved)
          /\ wk' = [wk EXCEPT ![w].pc = "send"]
          /\ UNCHANGED <<conn, sock>>
    /\ UNCHANGED <<pollVars, loop, ownerVars, aborted>>

\* send up to its first wait.
SendDead(w) ==
    /\ wk[w].pc \in {"send", "turnWoken"}
    /\ conn[wk[w].c].dead
    /\ wk' = [wk EXCEPT ![w] = AfterSend(w)]
    /\ UNCHANGED <<conn, pollVars, loop, ownerVars, sock, aborted>>

SendWaitsTurn(w) ==
    /\ wk[w].pc \in {"send", "turnWoken"}
    /\ ~conn[wk[w].c].dead /\ conn[wk[w].c].buf
    /\ wk' = [wk EXCEPT ![w].pc = "turn"]
    /\ UNCHANGED <<conn, pollVars, loop, ownerVars, sock, aborted>>

\* mutant: send does not wait for the buffer
CanWrite_busy(w) == ~conn[wk[w].c].dead

CanWrite(w) == ~conn[wk[w].c].dead /\ ~conn[wk[w].c].buf

\* The first write of a pdu: it fails, takes the whole pdu, or leaves a rest
\* to write_cb.
SendWrites(w) ==
    LET c == wk[w].c
        f == conn[c].fd IN
    /\ wk[w].pc \in {"send", "turnWoken"}
    /\ CanWrite(w)
    /\ \E n \in writepdu(f, 0) :
        \/ /\ n = -1
           /\ conn' = [conn EXCEPT ![c].dead = TRUE, ![c].buf = TRUE, ![c].wsz = 0, ![c].wdone = n]
           /\ wk' = [wk EXCEPT ![w].pc = "remove"]
           /\ UNCHANGED <<pollVars, aborted>>
        \/ /\ n = PduLen
           /\ FinishSend(w, conn)
           /\ UNCHANGED <<pollVars, aborted>>
        \/ /\ n \in 0 .. PduLen - 1
           /\ conn' = [conn EXCEPT ![c].buf = TRUE, ![c].wsz = PduLen, ![c].wdone = n]
           /\ wk' = [wk EXCEPT ![w].pc = "complete"]
           /\ add_callback(f, {"w"}, c)
    /\ UNCHANGED <<loop, ownerVars, sock>>

\* send behind the wait for send_complete_.
SendCompletes(w) ==
    LET c == wk[w].c IN
    /\ wk[w].pc = "completeWoken"
    /\ \/ /\ conn[c].dead \/ conn[c].wdone \in {-1, PduLen}
          /\ FinishSend(w, conn)
       \/ /\ ~(conn[c].dead \/ conn[c].wdone \in {-1, PduLen})
          /\ wk' = [wk EXCEPT ![w].pc = "complete"]
          /\ UNCHANGED conn
    /\ UNCHANGED <<pollVars, loop, ownerVars, sock, aborted>>

DropRef(w) ==
    LET cs == decref(conn, wk[w].c) IN
    /\ wk[w].pc = "decref"
    /\ conn' = cs
    /\ CloseSockets(cs)
    /\ wk' = [wk EXCEPT ![w] = IdleWorker]
    /\ UNCHANGED <<pollVars, loop, ownerVars, aborted>>

isdead(c) == conn[c].dead
ref(c) == conn[c].refno

\* connect_to_dst, when the peer answers: a connection on a new descriptor f.
connect_to_dst(cs, c, f) ==
    /\ conn' = incref(NewConnection(cs, c, f, FALSE), c)
    /\ add_callback(f, {"r"}, c)
    /\ sock' = [g \in Fd |-> CASE g = f -> [ClosedSocket EXCEPT !.open = TRUE]
                              [] g # f /\ g \in Closed(cs) -> ClosedSocket
                              [] OTHER -> sock[g]]

\* get_refconn for a call: a live channel, or a new one in place of a dead
\* one; connect_to_dst may fail.
Call(w) ==
    LET stale == chan # NULL /\ isdead(chan)
        cs == IF stale THEN decref(conn, chan) ELSE conn IN
    /\ wk[w].pc = "idle" /\ calls < MaxCalls
    /\ calls' = calls + 1
    /\ \/ /\ chan # NULL /\ ~stale
          /\ conn' = incref(conn, chan)
          /\ wk' = [wk EXCEPT ![w] = [pc |-> "send", c |-> chan, op |-> "call"]]
          /\ UNCHANGED <<chan, sock, pollVars, aborted>>
       \/ /\ chan = NULL \/ stale
          /\ Unused # {} /\ FreeFds(cs) # {}
          /\ LET c == Min(Unused)
                 f == Min(FreeFds(cs)) IN
             /\ connect_to_dst(cs, c, f)
             /\ chan' = c
             /\ wk' = [wk EXCEPT ![w] = [pc |-> "send", c |-> c, op |-> "call"]]
       \/ /\ chan = NULL \/ stale
          /\ conn' = cs
          /\ chan' = NULL
          /\ CloseSockets(cs)
          /\ UNCHANGED <<wk, pollVars, aborted>>
    /\ UNCHANGED <<loop, jobq, conns, saved>>

\* closeconn does nothing on a connection that is dead; else it shuts the
\* socket down and takes it out of the loop.
closeconn(w, c) ==
    \/ /\ conn[c].dead
       /\ wk' = [wk EXCEPT ![w] = [pc |-> "decref", c |-> c, op |-> "close"]]
       /\ UNCHANGED <<conn, sock>>
    \/ /\ ~conn[c].dead
       /\ conn' = [conn EXCEPT ![c].dead = TRUE]
       /\ sock' = [sock EXCEPT ![conn[c].fd].shut = "eof"]
       /\ wk' = [wk EXCEPT ![w] = [pc |-> "remove", c |-> c, op |-> "close"]]

\* ~rpcc: no call is under way, so the channel's reference is the last one.
Destroy(w) ==
    /\ wk[w].pc = "idle" /\ chan # NULL /\ conn[chan].refno = 1
    /\ closeconn(w, chan)
    /\ chan' = NULL
    /\ UNCHANGED <<pollVars, loop, jobq, conns, saved, calls, aborted>>

\* process_accept: the new connection, then the loop that drops dead ones
\* that nobody else holds.  The loop goes on from an erased iterator, which
\* is undefined: behind the first one collected it may miss any.
process_accept ==
    LET garbage == {c \in conns : isdead(c) /\ ref(c) = 1} IN
    /\ \E S \in SUBSET garbage :
        LET c == Min(Unused)
            f == Min(FreeFds(conn))
            cs == [d \in Conn |-> IF d \in S THEN decref(conn, d)[d] ELSE conn[d]] IN
        /\ garbage # {} => \E d \in S : \A e \in garbage : conn[d].fd <= conn[e].fd
        /\ conn' = NewConnection(cs, c, f, TRUE)
        /\ conns' = (conns \ S) \cup {c}
        /\ add_callback(f, {"r"}, c)
        /\ sock' = [g \in Fd |-> CASE g = f -> [ClosedSocket EXCEPT !.open = TRUE]
                                  [] g # f /\ g \in Closed(cs) -> ClosedSocket
                                  [] OTHER -> sock[g]]
    /\ UNCHANGED <<loop, wk, jobq, saved, chan, calls>>

\* The accepting thread: select says that a client is waiting.  The other
\* way out of its loop is the end of the server.
accept_conn == Unused # {} /\ FreeFds(conn) # {} /\ process_accept

---------------------------------------------------------------------------
(* The network *)

Arrive(f) ==
    /\ sock[f].open /\ sock[f].shut = "no" /\ sock[f].sent < MaxUnits
    /\ sock' = [sock EXCEPT ![f].in = @ + 1, ![f].sent = @ + 1]
    /\ UNCHANGED <<conn, pollVars, loop, wk, ownerVars, aborted>>

\* The peer closes, or the connection is reset and what was under way lost.
Break(f) ==
    /\ sock[f].open /\ sock[f].shut = "no"
    /\ \/ sock' = [sock EXCEPT ![f].shut = "eof"]
       \/ sock' = [sock EXCEPT ![f].shut = "rst", ![f].in = 0]
    /\ UNCHANGED <<conn, pollVars, loop, wk, ownerVars, aborted>>

Loop == LoopTop \/ LoopCopy \/ LoopSelect \/ LoopRead \/ LoopWrite

SendStep(w) ==
    \/ SendDead(w) \/ SendWaitsTurn(w) \/ SendWrites(w) \/ SendCompletes(w)
    \/ block_remove_fd(w) \/ FinishRemove(w) \/ DropRef(w)

JobStep(w) == TakeJob(w) \/ Dispatch(w) \/ Latest(w) \/ SendStep(w)

Next ==
    /\ ~aborted
    /\ \/ Loop
       \/ \E w \in Worker : JobStep(w) \/ Call(w) \/ Destroy(w)
       \/ accept_conn
       \/ \E f \in Fd : Arrive(f) \/ Break(f)

Spec == Init /\ [][Next]_vars

---------------------------------------------------------------------------
(* Properties *)

Holders(c) ==
    Cardinality({w \in Worker : wk[w].c = c}) + Cardinality({i \in DOMAIN jobq : jobq[i] = c})
    + Cardinality({x \in {1} : c \in conns}) + Cardinality({x \in {1} : saved = c})
    + Cardinality({x \in {1} : chan = c})

\* decref deletes a connection only when nobody can use it: everyone who
\* keeps a pointer (the accept thread, rpcs, rpcc, queued jobs, workers)
\* is counted, and a connection that is registered with PollMgr is alive.
NoUseAfterFree ==
    /\ \A c \in Conn : Holders(c) <= conn[c].refno
    /\ \A c \in Conn : conn[c].st = "freed" => Holders(c) = 0 /\ \A f \in Fd : callbacks[f] # c

\* block_remove_fd's promise: "the return guarantees that callbacks related to
\* fd will never be called again".  A read_cb the loop is about to make on a
\* descriptor is for the connection select was asked about, although the
\* descriptor may have been closed and used again meanwhile.
FreshRead ==
    loop.pc = "read" =>
        LET f == Min(loop.r) IN callbacks[f] # NULL => callbacks[f] = loop.owner[f]

\* One pdu at a time is written to a connection: a second sender would put
\* its bytes between those of the first.
OneWriter ==
    \A c \in Conn :
        LET W == {w \in Worker : wk[w].c = c /\ wk[w].op # "close"
                    /\ wk[w].pc \in {"complete", "completeWoken", "remove", "removing", "removed"}} IN
        Cardinality(W) <= 1 /\ (conn[c].buf <=> W # {})

\* Nobody waits for a wake-up that will not come: a sender that waits for
\* the rest of its pdu is on a live connection whose write callback is
\* armed, one that waits for the buffer has someone before it, and a remover
\* is seen by the loop, which is awake or will be woken by the pipe.
NoLostWakeup ==
    \A w \in Worker :
        LET c == wk[w].c IN
        /\ wk[w].pc = "complete" =>
             ~conn[c].dead /\ conn[c].fd \in wfds /\ callbacks[conn[c].fd] = c
        /\ wk[w].pc = "turn" => conn[c].buf
        /\ wk[w].pc = "removing" => pending /\ (loop.pc = "select" => pipe)
=============================================================================
