-------------------------------- MODULE Wire --------------------------------
(***************************************************************************)
(* What travels between two RPC endpoints: marshalling into a growing      *)
(* buffer, the request and reply headers, unmarshalling by the type the    *)
(* receiver expects, and the templates that put them together (rpcc::call, *)
(* rpcc::call_m, rpcs::reg).  Caller and handler agree on the types of a   *)
(* procedure by convention only: nothing on the wire names them.           *)
(*                                                                         *)
(* Several threads call through one rpcc; requests are dispatched, and     *)
(* replies come back, in any order, and it is the xid in the reply header  *)
(* that finds the caller.  Loss, duplicates, retransmission and the reply  *)
(* window are in Rpc.  A char has Base values (256 in C), so that integers *)
(* of the real widths (1, 2, 4 and 8 chars) stay small; DEFAULT_RPC_SZ is  *)
(* the size of a new buffer (1024).                                        *)
(***************************************************************************)
EXTENDS Integers, FiniteSetsExt, SequencesExt, TLC

CONSTANTS
    Base,            \* values of a char
    DEFAULT_RPC_SZ,  \* bytes of a new marshall buffer
    Thread,          \* threads calling through the rpcc
    Call,            \* the calls they make
    MaxXid           \* calls made in a behaviour

ASSUME WireBounds ==
    /\ Base \in Nat /\ Base > 1 /\ Base % 2 = 0
    /\ MaxXid \in 1 .. Base^4 \div 2 - 1

VARIABLES
    xid_,   \* rpcc: the next xid
    th,     \* what each thread is doing in call_m
    net,    \* buffers sent and not yet taken by got_pdu
    ran     \* per xid: the handler that ran, and what it was passed

vars == <<xid_, th, net, ran>>

\* class rpc_const.
unmarshal_args_failure == -2
unmarshal_reply_failure == -3

(***************************************************************************)
(* class marshall: buf, capa bytes long, and the write position ind.       *)
(***************************************************************************)

\* max(sizeof(req_header), sizeof(reply_header)) + sizeof(rpc_sz_t), with
\* RPC_CHECKSUMMING off, as it is in every makefile.
RPC_HEADER_SZ == 24

\* A byte of fresh memory, which nobody has written.
Junk == Base

marshall ==
    [buf  |-> [i \in 1 .. DEFAULT_RPC_SZ |-> Junk],
     capa |-> DEFAULT_RPC_SZ,
     ind  |-> RPC_HEADER_SZ]

realloc(m, n) ==
    [m EXCEPT !.buf = @ \o [i \in 1 .. n - m.capa |-> Junk], !.capa = n]

\* memcpy(_buf + _ind, p, n); _ind += n.  Written past the end of the
\* allocation, buf becomes and stays longer than capa: the heap is overrun.
memcpy(m, p) ==
    LET n == Len(p)
    IN  [m EXCEPT
           !.buf = SubSeq(@, 1, m.ind) \o p \o SubSeq(@, m.ind + n + 1, Len(@)),
           !.ind = @ + n]

\* A bug: the buffer is only ever doubled.
rawbytes_double(m, p) ==
    memcpy(IF m.ind + Len(p) > m.capa THEN realloc(m, 2 * m.capa) ELSE m, p)

rawbytes(m, p) ==
    LET n == Len(p)
    IN  memcpy(IF m.ind + n <= m.capa THEN m
               ELSE realloc(m, IF m.capa > n THEN 2 * m.capa ELSE m.capa + n),
               p)

\* The w chars of x, most significant first, by w calls of rawbyte: the one
\* that finds the buffer full doubles it.
rawbyte(m, w, x) ==
    memcpy(IF m.ind + w > m.capa THEN realloc(m, 2 * m.capa) ELSE m,
           [k \in 1 .. w |-> (x \div Base^(w - k)) % Base])

\* The types integers travel as; each operator<< first casts to unsigned.
Width == [uchar |-> 1, char |-> 1, ushort |-> 2, short |-> 2,
          uint |-> 4, int |-> 4, ull |-> 8]

put_integer(m, t, x) == rawbyte(m, Width[t], x % Base^Width[t])

put_ull(m, x) == rawbyte(rawbyte(m, 4, x \div Base^4), 4, x % Base^4)

put_string(m, s) == rawbytes(rawbyte(m, 4, Len(s)), s)

pack(m, x) == rawbyte(m, 4, x % Base^4)

put_vector(m, v) == FoldLeft(put_string, rawbyte(m, 4, Len(v)), v)

\* The channel fills in the first 4 bytes (connection::send).
pack_header(m, fields) ==
    [FoldLeft(pack, [m EXCEPT !.ind = 4], fields) EXCEPT !.ind = m.ind]

pack_req_header(m, h) ==
    pack_header(m, <<h.xid, h.proc, h.clt_nonce, h.srv_nonce, h.xid_rep>>)

pack_reply_header(m, h) == pack_header(m, <<h.xid, h.ret>>)

\* What is sent of a buffer, and what the receiver is given.
take_buf(m) == SubSeq(m.buf, 1, m.ind)

(***************************************************************************)
(* class unmarshall: buf, the read position ind, and ok, which becomes     *)
(* false at the first read past the end.  A read returns the new           *)
(* unmarshall and the value, x.                                            *)
(***************************************************************************)
unmarshall(b) == [buf |-> b, ind |-> 0, ok |-> TRUE]

sz(u) == Len(u.buf)

get_rawbytes(u, n) ==
    IF (u.ind + n) % Base^4 > sz(u)
    THEN [u |-> [u EXCEPT !.ok = FALSE], x |-> <<>>]
    ELSE [u |-> [u EXCEPT !.ind = @ + n], x |-> SubSeq(u.buf, u.ind + 1, u.ind + n)]

\* w calls of rawbyte, shifted together; past the end each one gives 0.
get(u, w) ==
    LET byte(k) == IF u.ind + k <= sz(u) THEN u.buf[u.ind + k] ELSE 0
    IN  [u |-> [u EXCEPT !.ind = Min({@ + w, sz(u)}), !.ok = @ /\ u.ind + w <= sz(u)],
         x |-> FoldLeft(LAMBDA x, b : x * Base + b, 0, [k \in 1 .. w |-> byte(k)])]

\* The value an object of type t has when the bits of x are stored in it.
as(t, x) ==
    LET n == Base^Width[t]
        y == x % n
    IN  IF t \in {"char", "short", "int"} /\ y >= n \div 2 THEN y - n ELSE y

get_integer(u, t) == [get(u, Width[t]) EXCEPT !.x = as(t, @)]

low_word(h) == [get(h.u, 4) EXCEPT !.x = @ + h.x * Base^4]

get_ull(u) == low_word(get(u, 4))

\* The chars of a string whose length n has been read.
chars(n) == IF n.u.ok THEN get_rawbytes(n.u, n.x) ELSE [u |-> n.u, x |-> <<>>]

get_string(u) == chars(get(u, 4))

\* The value just read, g, appended to those read before it.
append(s, g) == [u |-> g.u, x |-> Append(s.x, g.x)]

strings(n) ==
    FoldLeft(LAMBDA s, k : append(s, get_string(s.u)),
             [u |-> n.u, x |-> <<>>], [k \in 1 .. n.x |-> k])

get_vector(u) == strings(get(u, 4))

\* A bug: what is left in the buffer does not matter.
okdone_early(u) == u.ok

okdone(u) == u.ok /\ u.ind = sz(u)

take_in(another) ==
    [buf |-> another.buf, ind |-> RPC_HEADER_SZ, ok |-> sz(another) >= RPC_HEADER_SZ]

\* n ints from byte 4 on; the arguments start after the header.
unpack_header(u, n) ==
    [FoldLeft(LAMBDA s, k : append(s, get_integer(s.u, "int")),
              [u |-> [u EXCEPT !.ind = 4], x |-> <<>>], [k \in 1 .. n |-> k])
       EXCEPT !.u.ind = RPC_HEADER_SZ]

req_header(r) ==
    [u |-> r.u,
     h |-> [xid |-> r.x[1], proc |-> r.x[2], clt_nonce |-> as("uint", r.x[3]),
            srv_nonce |-> as("uint", r.x[4]), xid_rep |-> r.x[5]]]

unpack_req_header(u) == req_header(unpack_header(u, 5))

reply_header(r) == [u |-> r.u, h |-> [xid |-> r.x[1], ret |-> r.x[2]]]

unpack_reply_header(u) == reply_header(unpack_header(u, 2))

(***************************************************************************)
(* Structures: operator<< and operator>> of each, as the fields written    *)
(* and the fields read, in order.                                          *)
(***************************************************************************)
prop_t_out == << <<"n", "uint">>, <<"m", "string">> >>
prop_t_in == << <<"n", "uint">>, <<"m", "string">> >>

preparearg_out == << <<"instance", "uint">> >> \o prop_t_out \o << <<"v", "string">> >>
preparearg_in == << <<"instance", "uint">> >> \o prop_t_in \o << <<"v", "string">> >>

prepareres_out == << <<"oldinstance", "int">>, <<"accept", "int">> >>
                     \o prop_t_out \o << <<"v_a", "string">> >>
prepareres_in == << <<"oldinstance", "int">>, <<"accept", "int">> >>
                     \o prop_t_in \o << <<"v_a", "string">> >>

acceptarg_out == << <<"instance", "uint">> >> \o prop_t_out \o << <<"v", "string">> >>
acceptarg_in == << <<"instance", "uint">> >> \o prop_t_in \o << <<"v", "string">> >>

decidearg_out == << <<"instance", "uint">>, <<"v", "string">> >>
decidearg_in == << <<"instance", "uint">>, <<"v", "string">> >>

attr_out == << <<"atime", "uint">>, <<"mtime", "uint">>, <<"ctime", "uint">>, <<"size", "uint">> >>
attr_in == << <<"atime", "uint">>, <<"mtime", "uint">>, <<"ctime", "uint">>, <<"size", "uint">> >>

viewstamp_out == << <<"vid", "uint">>, <<"seqno", "uint">> >>
viewstamp_in == << <<"vid", "uint">>, <<"seqno", "uint">> >>

joinres_out == << <<"log", "string">> >>
joinres_in == << <<"log", "string">> >>

Out == [preparearg |-> preparearg_out, prepareres |-> prepareres_out,
        acceptarg |-> acceptarg_out, decidearg |-> decidearg_out,
        attr |-> attr_out, viewstamp |-> viewstamp_out, joinres |-> joinres_out]

In == [preparearg |-> preparearg_in, prepareres |-> prepareres_in,
       acceptarg |-> acceptarg_in, decidearg |-> decidearg_in,
       attr |-> attr_in, viewstamp |-> viewstamp_in, joinres |-> joinres_in]

put_basic(m, t, v) ==
    CASE t = "ull" -> put_ull(m, v)
      [] t = "string" -> put_string(m, v)
      [] OTHER -> put_integer(m, t, v)

get_basic(u, t) ==
    CASE t = "ull" -> get_ull(u)
      [] t = "string" -> get_string(u)
      [] OTHER -> get_integer(u, t)

\* m << v and u >> v, for a v of type t.
insert(m, t, v) ==
    CASE t \in DOMAIN Out -> FoldLeft(LAMBDA mm, f : put_basic(mm, f[2], v[f[1]]), m, Out[t])
      [] t = "vector" -> put_vector(m, v)
      [] OTHER -> put_basic(m, t, v)

field(s, name, g) == [u |-> g.u, x |-> (name :> g.x) @@ s.x]

extract(u, t) ==
    CASE t \in DOMAIN In ->
            FoldLeft(LAMBDA s, f : field(s, f[1], get_basic(s.u, f[2])),
                     [u |-> u, x |-> <<>>], In[t])
      [] t = "vector" -> get_vector(u)
      [] OTHER -> get_basic(u, t)

(***************************************************************************)
(* The procedures the servers of this repository register, by a number     *)
(* that stands for the protocol's: argument types and result type.  A      *)
(* caller's types are those of its own call.                               *)
(***************************************************************************)
sig(args, ret) == [args |-> args, ret |-> ret]

rpctest_procs ==
    22 :> sig(<<"string", "string">>, "string") @@ 23 :> sig(<<"int">>, "int") @@
    24 :> sig(<<"int">>, "int") @@ 25 :> sig(<<"int">>, "string")

extent_procs ==
    30 :> sig(<<"ull">>, "string") @@ 31 :> sig(<<"ull">>, "attr") @@
    32 :> sig(<<"ull", "string">>, "int") @@ 33 :> sig(<<"ull">>, "int")

lock_procs ==
    40 :> sig(<<"int", "ull", "uint">>, "int") @@ 41 :> sig(<<"int", "ull", "uint">>, "int") @@
    42 :> sig(<<"int", "int">>, "int") @@ 43 :> sig(<<"int">>, "int")

rlock_procs ==
    44 :> sig(<<"ull", "uint">>, "int") @@ 45 :> sig(<<"ull">>, "int")

paxos_procs ==
    50 :> sig(<<"string", "preparearg">>, "prepareres") @@
    51 :> sig(<<"string", "acceptarg">>, "int") @@
    52 :> sig(<<"string", "decidearg">>, "int")

heartbeat_proc == 53 :> sig(<<"string", "uint">>, "int")

rsm_procs ==
    60 :> sig(<<"int">>, "vector") @@ 61 :> sig(<<"string", "viewstamp">>, "joinres")

procs_ == rpctest_procs @@ extent_procs @@ lock_procs @@ rlock_procs
            @@ paxos_procs @@ heartbeat_proc @@ rsm_procs

\* class srv of rpctest.
handle_22(a) == a[1] \o a[2]
handle_fast(a) == a[1] + 1
handle_slow(a) == a[1] + 2
handle_bigrep(a) == [i \in 1 .. a[1] |-> 1]

\* Some result of the type, for the handlers that are modelled elsewhere.
Result == [int |-> -1, string |-> <<1, 0, 3>>, vector |-> <<<<1>>, <<>>, <<2, 3>>>>,
           attr |-> [atime |-> 1, mtime |-> 2, ctime |-> 3, size |-> Base^4 - 1],
           prepareres |-> [oldinstance |-> 0, accept |-> 1, n |-> 2, m |-> <<3>>, v_a |-> <<1, 2>>],
           joinres |-> [log |-> <<3, 3>>]]

meth(proc, a) ==
    CASE proc = 22 -> handle_22(a)
      [] proc = 23 -> handle_fast(a)
      [] proc = 24 -> handle_slow(a)
      [] proc = 25 -> handle_bigrep(a)
      [] OTHER -> Result[procs_[proc].ret]

\* args >> a1; args >> a2; ...
args_of(u, types) ==
    FoldLeft(LAMBDA s, t : append(s, extract(s.u, t)), [u |-> u, x |-> <<>>], types)

run(proc, a, b, r) ==
    [ret |-> b, rep |-> insert(marshall, procs_[proc].ret, r),
     ran |-> <<[proc |-> proc, args |-> a, ret |-> b, r |-> r]>>]

run_if_okdone(proc, a, b) ==
    IF okdone(a.u) THEN run(proc, a.x, b, meth(proc, a.x))
    ELSE [ret |-> unmarshal_args_failure, rep |-> marshall, ran |-> <<>>]

\* h1::fn, with b the status the method returns.
fn(proc, args, b) == run_if_okdone(proc, args_of(args, procs_[proc].args), b)

\* Some nonces: random() of 31 bits, read back as unsigned.
clt_nonce_ == Base^4 \div 2 - 2
nonce_ == Base^4 \div 3

(***************************************************************************)
(* The calls made, with the types the caller gives its arguments and       *)
(* result: rpctest's (its strings shortened), and every call between the   *)
(* programs of this repository.                                            *)
(***************************************************************************)
mk(proc, args, rt) == [proc |-> proc, args |-> args, rt |-> rt]

int(v) == <<"int", v>>
uint(v) == <<"uint", v>>
ull(v) == <<"ull", v>>
str(n) == <<"string", [i \in 1 .. n |-> (i + n) % Base]>>

\* Among them too few arguments, too many, and the wrong ones.
simple_tests ==
    {mk(22, <<str(2), str(3)>>, "string"), mk(25, <<int(2 * DEFAULT_RPC_SZ)>>, "string"),
     mk(22, <<str(4)>>, "string"), mk(23, <<int(100), int(101)>>, "string"),
     mk(23, <<str(2), str(3)>>, "int"), mk(23, <<int(77)>>, "int"),
     mk(22, <<str(3 * DEFAULT_RPC_SZ), str(1)>>, "string")}

client1 == {mk(25, <<int(n)>>, "string") : n \in {0, 2}}
             \cup {mk(p, <<int(-1)>>, "int") : p \in {23, 24}}

extent_calls ==
    {mk(30, <<ull(Base^5 + 1)>>, "string"), mk(31, <<ull(Base^4 - 1)>>, "attr"),
     mk(32, <<ull(1), str(5)>>, "int"), mk(33, <<ull(1)>>, "int")}

\* cl->id() is unsigned at the client and an int at the server.
lock_calls ==
    {mk(40, <<uint(clt_nonce_), ull(Base^7 + 2), uint(1)>>, "int"),
     mk(41, <<uint(clt_nonce_), ull(Base^7 + 2), uint(Base^4 - 1)>>, "int"),
     mk(42, <<uint(clt_nonce_), int(99)>>, "int"), mk(43, <<uint(clt_nonce_)>>, "int")}

\* ~lock_client_cache releases without a sequence number.
destructor_calls == {mk(41, <<uint(clt_nonce_), ull(Base^7 + 2)>>, "int")}

rlock_calls == {mk(44, <<ull(3), uint(2)>>, "int"), mk(45, <<ull(3)>>, "int")}

paxos_calls ==
    LET arg == [instance |-> 2, n |-> 1, m |-> <<2>>, v |-> <<1, 2, 3>>]
    IN  {mk(50, <<str(1), <<"preparearg", arg>>>>, "prepareres"),
         mk(51, <<str(1), <<"acceptarg", arg>>>>, "int"),
         mk(52, <<str(1), <<"decidearg", [instance |-> 2, v |-> <<>>]>>>>, "int")}

heartbeat_calls == {mk(53, <<str(1), uint(4)>>, "int")}

join_calls == {mk(61, <<str(1), <<"viewstamp", [vid |-> 1, seqno |-> 0]>>>>, "joinres")}

members_calls == {mk(60, <<int(0)>>, "vector")}

\* rpctest's check of the library by itself.
testmarshall ==
    LET rh == [xid |-> 1, proc |-> 2, clt_nonce |-> 3, srv_nonce |-> 4, xid_rep |-> 5]
        m == put_string(put_ull(put_integer(pack_req_header(marshall, rh), "int", 123),
                                Base^6 + 55), <<1, 2, 3, 0, 1>>)
        un == unpack_req_header(unmarshall(take_buf(m)))
        i1 == get_integer(un.u, "int")
        l1 == get_ull(i1.u)
        s1 == get_string(l1.u)
    IN  /\ m.ind = RPC_HEADER_SZ + 4 + 8 + 4 + 5
        /\ un.h = rh
        /\ okdone(s1.u)
        /\ i1.x = 123 /\ l1.x = Base^6 + 55 /\ s1.x = <<1, 2, 3, 0, 1>>

(***************************************************************************)
(* The calls under way.                                                    *)
(***************************************************************************)

Init ==
    /\ xid_ = 1
    /\ th = [t \in Thread |-> [pc |-> "idle"]]
    /\ net = {}
    /\ ran = [x \in 1 .. MaxXid |-> <<>>]

\* rpcc::call marshalls the arguments one after the other.
marshall_args(args) == FoldLeft(LAMBDA m, a : insert(m, a[1], a[2]), marshall, args)

\* rpcc::call and call1 up to the send.  rep is xid_rep_window_.front().
call(t, c, rep) ==
    /\ th[t].pc \in {"idle", "done"}
    /\ xid_ <= MaxXid
    /\ \E req \in {pack_req_header(marshall_args(c.args),
                      [xid |-> xid_, proc |-> c.proc, clt_nonce |-> clt_nonce_,
                       srv_nonce |-> nonce_, xid_rep |-> rep])} :
           /\ th' = [th EXCEPT ![t] = [pc |-> "wait", call |-> c, xid |-> xid_, req |-> req]]
           /\ net' = net \cup {[to |-> "rpcs", pdu |-> take_buf(req)]}
    /\ xid_' = xid_ + 1
    /\ UNCHANGED ran

\* rpctest's handlers return 0, the others a status of their protocol.
Status(proc) == IF proc \in DOMAIN rpctest_procs THEN {0} ELSE {0, 1}

\* rpcs::dispatch of a request from a client that is known; a request for
\* another instance of the server, or for no procedure, gets no handler.
dispatch(p) ==
    /\ p.to = "rpcs"
    /\ \E req \in {unpack_req_header(unmarshall(p.pdu))} :
         IF req.u.ok /\ req.h.srv_nonce = nonce_ /\ req.h.proc \in DOMAIN procs_
         THEN \E b \in Status(req.h.proc) : \E f \in {fn(req.h.proc, req.u, b)} :
                /\ ran' = [ran EXCEPT ![req.h.xid] = @ \o f.ran]
                /\ net' = (net \ {p}) \cup
                     {[to |-> "rpcc",
                       pdu |-> take_buf(pack_reply_header(f.rep,
                                          [xid |-> req.h.xid, ret |-> f.ret]))]}
         ELSE net' = net \ {p} /\ UNCHANGED ran
    /\ UNCHANGED <<xid_, th>>

\* rpcc::got_pdu hands the reply to the caller waiting for its xid.
got_pdu(p) ==
    /\ p.to = "rpcc"
    /\ net' = net \ {p}
    /\ \E rep \in {unpack_reply_header(unmarshall(p.pdu))} :
         th' = [t \in Thread |->
                  IF rep.u.ok /\ th[t].pc = "wait" /\ th[t].xid = rep.h.xid
                  THEN [pc |-> "back", call |-> th[t].call, xid |-> th[t].xid,
                        ret |-> rep.h.ret, un |-> take_in(rep.u)]
                  ELSE th[t]]
    /\ UNCHANGED <<xid_, ran>>

\* The rest of rpcc::call_m.
call_m(t) ==
    /\ th[t].pc = "back"
    /\ \E g \in {extract(th[t].un, th[t].call.rt)} :
       LET done(ret, r) == [pc |-> "done", call |-> th[t].call, xid |-> th[t].xid,
                            ret |-> ret, r |-> r]
       IN  th' = [th EXCEPT ![t] =
                    IF @.ret < 0 THEN done(@.ret, <<>>)
                    ELSE IF ~ okdone(g.u) THEN done(unmarshal_reply_failure, g.x)
                    ELSE done(@.ret, g.x)]
    /\ UNCHANGED <<xid_, net, ran>>

\* All calls are made and answered.
Finished ==
    /\ xid_ > MaxXid
    /\ \A t \in Thread : th[t].pc \in {"idle", "done"}
    /\ UNCHANGED vars

Next ==
    \/ \E t \in Thread, c \in Call : \E rep \in 0 .. xid_ - 1 : call(t, c, rep)
    \/ \E p \in net : dispatch(p)
    \/ \E p \in net : got_pdu(p)
    \/ \E t \in Thread : call_m(t)
    \/ Finished

Spec == Init /\ [][Next]_vars

(***************************************************************************)
(* Properties.                                                             *)
(***************************************************************************)

\* The bytes of a pdu that its receiver reads; the channel writes the first 4.
Read(p) == (5 .. IF p.to = "rpcs" THEN 24 ELSE 12) \cup (RPC_HEADER_SZ + 1 .. Len(p.pdu))

\* A request never outgrows its allocation, whatever mix of rawbyte and
\* rawbytes built it, and no receiver reads a byte that nobody wrote (of a
\* reply's header, 12 bytes are sent uninitialised).
BuffersOK ==
    /\ xid_ \in 1 .. MaxXid + 1
    /\ \A t \in Thread : th[t].pc = "wait" =>
         Len(th[t].req.buf) = th[t].req.capa /\ th[t].req.ind <= th[t].req.capa
    /\ \A p \in net : \A i \in Read(p) : p.pdu[i] \in 0 .. Base - 1

Fits(ct, st) == ct = st \/ {ct, st} = {"int", "uint"}

\* The argument types of the call are the handler's.
Agree(c) ==
    LET s == procs_[c.proc]
    IN  /\ Len(c.args) = Len(s.args)
        /\ \A i \in DOMAIN c.args : Fits(c.args[i][1], s.args[i])

\* The bytes that values of these types travel as.
Bytes(types, values) ==
    LET m == marshall_args([i \in DOMAIN types |-> <<types[i], values[i]>>])
    IN  SubSeq(take_buf(m), RPC_HEADER_SZ + 1, m.ind)

\* The handler that ran was passed the caller's arguments: the same bytes,
\* and the same values where the types are the same.
ArgsArrive(c, h) ==
    /\ Bytes(procs_[c.proc].args, h.args)
         = Bytes([i \in DOMAIN c.args |-> c.args[i][1]], [i \in DOMAIN c.args |-> c.args[i][2]])
    /\ Agree(c) => \A i \in DOMAIN c.args :
         h.args[i] = IF c.args[i][1] \in DOMAIN Width
                     THEN as(procs_[c.proc].args[i], c.args[i][2])
                     ELSE c.args[i][2]

\* What the caller has of the result r of the handler that ran.
ResultArrives(c, h, r) ==
    /\ Bytes(<<c.rt>>, <<r>>) = Bytes(<<procs_[c.proc].ret>>, <<h.r>>)
    /\ c.rt = procs_[c.proc].ret => r = h.r

\* Whatever types caller and handler have, a call gets the answer to itself,
\* in whatever order replies arrive.  It runs nothing and fails with
\* unmarshal_args_failure, only if the argument types differ; or it runs its
\* handler once, on the bytes of its arguments and no others, and then fails
\* with unmarshal_reply_failure, only if the result types differ, or returns
\* the handler's status and the bytes of its result.  Types that differ
\* are not always found out: an int 0 is also the empty string (h1::fn,
\* call_m, okdone).
AnswerMatches ==
    \A t \in Thread : th[t].pc = "done" =>
        LET c == th[t].call
            h == ran[th[t].xid]
        IN  \/ h = <<>> /\ th[t].ret = unmarshal_args_failure /\ ~ Agree(c)
            \/ /\ Len(h) = 1 /\ h[1].proc = c.proc
               /\ ArgsArrive(c, h[1])
               /\ \/ th[t].ret = unmarshal_reply_failure /\ c.rt # procs_[c.proc].ret
                  \/ th[t].ret = h[1].ret /\ ResultArrives(c, h[1], th[t].r)
=============================================================================
