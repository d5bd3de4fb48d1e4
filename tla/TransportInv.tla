---------------------------- MODULE TransportInv ----------------------------
(***************************************************************************)
(* The inductive invariant behind the properties of Transport.             *)
(***************************************************************************)
EXTENDS Transport

Open(c) == conn[c].st = "open"

\* The thread is in block_remove_fd, or about to call it.
Removes(w) == wk[w].pc \in {"remove", "removing", "removed"}

\* What a connection object holds before its constructor and behind its
\* destructor; while it lives it has its descriptor to itself.
ObjectsInv ==
    /\ \A c \in Conn :
         /\ ~Open(c) => conn[c].refno = 0 /\ ~conn[c].buf /\ ~conn[c].dead
         /\ Open(c) => conn[c].fd \in Fd /\ sock[conn[c].fd].open
    /\ \A c, d \in Conn : Open(c) /\ Open(d) /\ conn[c].fd = conn[d].fd => c = d

\* Whoever keeps a pointer is counted.
CountInv == \A c \in Conn : Holders(c) <= conn[c].refno

\* PollMgr knows the connection of every descriptor it watches, by its own
\* descriptor, and one that is dead only while somebody takes it out.
PollInv ==
    /\ \A f \in Fd : callbacks[f] # NULL => Open(callbacks[f]) /\ conn[callbacks[f]].fd = f
    /\ \A f \in rfds \cup wfds : callbacks[f] # NULL
    /\ \A f \in Fd : callbacks[f] # NULL /\ conn[callbacks[f]].dead =>
         \E w \in Worker : Removes(w) /\ wk[w].c = callbacks[f]

\* Where a thread is says what it has.  One that waits in block_remove_fd, or
\* comes back from it, has its descriptor out of the sets of SelectAIO, and
\* behind the wait out of the loop's copy as well.
WorkersInv ==
    \A w \in Worker :
        /\ wk[w].pc = "idle" <=> wk[w].c = NULL
        /\ wk[w].pc = "latest" => saved # NULL
        /\ wk[w].op = "close" => Removes(w) \/ wk[w].pc = "decref"
        /\ Removes(w) => conn[wk[w].c].dead
        /\ wk[w].pc \in {"removing", "removed"} => conn[wk[w].c].fd \notin rfds \cup wfds
        /\ wk[w].pc = "removed" /\ loop.pc \in {"select", "read"} => conn[wk[w].c].fd \notin loop.r
        /\ wk[w].pc = "removing" /\ loop.pc = "copy" => pipe
        /\ wk[w].pc = "complete" => conn[wk[w].c].wsz = PduLen
        /\ wk[w].pc = "completeWoken" => conn[wk[w].c].dead \/ conn[wk[w].c].wdone = PduLen

\* What select was asked about is registered as it was then.
LoopInv ==
    /\ loop.pc = "read" => loop.r # {}
    /\ loop.pc = "write" => loop.r = {} /\ loop.w # {}
    /\ loop.pc \in {"select", "read"} =>
         \A f \in loop.r : callbacks[f] # NULL /\ callbacks[f] = loop.owner[f]

SocketsInv == \A f \in Fd : sock[f].in <= sock[f].sent

TransportIInv ==
    /\ TypeOK /\ ObjectsInv /\ CountInv /\ PollInv /\ WorkersInv /\ LoopInv /\ SocketsInv
    /\ OneWriter /\ NoLostWakeup
=============================================================================
