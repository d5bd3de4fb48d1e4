------------------------------ MODULE YfsPlain ------------------------------
(***************************************************************************)
(* The first file service (lab22): FUSE operations that go straight to the *)
(* extent server, with neither cache nor locks.  A directory is kept as    *)
(* one string, "name=number;name=number;...", which create, lookup and     *)
(* readdir search and take apart; this module has those strings, character *)
(* by character, where FileCache has sequences of entries.                 *)
(*                                                                         *)
(* Every RPC of a client is a step of its own, and so are the two halves   *)
(* of a handler: the extent server has one iterator `it' for all its       *)
(* threads and no mutex, so what one handler found another may move.       *)
(*                                                                         *)
(* A client may die in the middle of an operation and be started again;    *)
(* what it had sent is then lost or was done before it comes back.         *)
(*                                                                         *)
(* Left out: times and sizes; extent_server::remove, which nothing calls;  *)
(* and repeated numbers from rand().                                       *)
(***************************************************************************)
EXTENDS Integers, Sequences, FiniteSets
LOCAL INSTANCE SequencesExt

CONSTANTS
    Client,    \* yfs_client processes; the kernel sends each one request at a time
    Name,      \* file names: sequences of characters
    Inum,      \* the numbers get_new_inum may return, and Root
    FileBit,   \* numbers from here on are files' (the bit 0x80000000)
    MaxSize,   \* the kernel's buffer for readdir; a dirent takes Len(name) + 1
    MaxOps,    \* bound on the operations of all clients together
    MaxCrashes \* bound on the deaths of clients

ASSUME YfsPlainAssumption ==
    /\ Inum \subseteq 0 .. 99 /\ FileBit \in Nat
    /\ MaxSize \in Nat /\ MaxOps \in Nat /\ MaxCrashes \in Nat
    /\ \A n \in Name : /\ n # <<>> /\ Len(n) < MaxSize
                      /\ \A i \in DOMAIN n : n[i] \notin {"=", ";"}

VARIABLES
    fileContents_,  \* extent server: the extents that exist, and their strings
    it,             \* ... and its iterator
    rpc,            \* per client: its call of the extent server, and the answer
    op,             \* per client: the FUSE operation it is in
    reply,          \* per client: the answer to its last operation
    dir,            \* per client: the entries its kernel has read of the root
    known,          \* inode numbers the kernels have from replies
    made,           \* the files whose creation has been acknowledged
    used,           \* numbers rand() has returned
    ops, crashes    \* operations begun, clients that died

server == <<fileContents_, it>>
kernel == <<reply, dir, known, made>>
bounds == <<used, ops, crashes>>
vars == <<server, rpc, op, kernel, bounds>>

Root == 1           \* FUSE_ROOT_ID
End == -1           \* fileContents_.end()
NoCall == [st |-> "none"]
NoOp == [kind |-> "none"]
NoReply == [kind |-> "none"]

isfile(i) == i >= FileBit
isdir(i) == ~ isfile(i)

(***************************************************************************)
(* The string of a directory.                                              *)
(***************************************************************************)
Digit == <<"0", "1", "2", "3", "4", "5", "6", "7", "8", "9">>
Value(c) == (CHOOSE k \in 1 .. 10 : Digit[k] = c) - 1
IsDigit(c) == \E k \in 1 .. 10 : Digit[k] = c

\* yfs_client::filename: decimal, without leading zeros.
filename(i) == IF i < 10 THEN <<Digit[i + 1]>> ELSE <<Digit[(i \div 10) + 1], Digit[(i % 10) + 1]>>

\* yfs_client::n2i: the digits in front, whatever follows them.
n2i(s) ==
    LET n == CHOOSE k \in 0 .. Len(s) :
                /\ \A j \in 1 .. k : IsDigit(s[j])
                /\ k < Len(s) => ~ IsDigit(s[k + 1])
        sum[k \in 0 .. n] == IF k = 0 THEN 0 ELSE 10 * sum[k - 1] + Value(s[k])
    IN  sum[n]

\* std::string::find: the first place where pat begins in s, 0 for npos.
Places(s, pat) ==
    {p \in 1 .. Len(s) - Len(pat) + 1 : SubSeq(s, p, p + Len(pat) - 1) = pat}
find(s, pat) ==
    IF Places(s, pat) = {} THEN 0
    ELSE CHOOSE p \in Places(s, pat) : \A q \in Places(s, pat) : p <= q

\* Where fuseserver_createhelper and fuseserver_lookup look for a name.
Where(con, name) == find(con, name \o <<"=">>)

\* A bug: the entry is not closed.
Entry_open(name, i) == name \o <<"=">> \o filename(i)

Entry(name, i) == name \o <<"=">> \o filename(i) \o <<";">>

\* fuseserver_lookup: what follows the "=", cut too late, and read by n2i.
Number(con, name) ==
    LET temp == SubSeq(con, Where(con, name), Len(con))
        start == find(temp, <<"=">>)
        end == find(temp, <<";">>)
        last == IF start + end - 2 < Len(temp) THEN start + end - 2 ELSE Len(temp)
    IN  n2i(SubSeq(temp, start + 1, last))

\* fuseserver_readdir: getline up to each ";" (or the end), then split at "=".
Dirent(line) ==
    LET pos == find(line, <<"=">>)
    IN  [name |-> SubSeq(line, 1, pos - 1), ino |-> n2i(SubSeq(line, pos + 1, Len(line)))]
getline(got, ch) ==
    IF ch = ";" THEN [list |-> Append(got.list, Dirent(got.line)), line |-> <<>>]
                ELSE [got EXCEPT !.line = Append(@, ch)]
Listing(con) ==
    LET got == FoldLeft(getline, [list |-> <<>>, line |-> <<>>], con)
    IN  IF got.line = <<>> THEN got.list ELSE Append(got.list, Dirent(got.line))

(***************************************************************************)
(* The extent server: find, then work on what the iterator points to.      *)
(***************************************************************************)
Sent(proc, id, buf) == [st |-> "sent", proc |-> proc, id |-> id, buf |-> buf]

Answer(c, ok, buf) ==
    /\ rpc' = [rpc EXCEPT ![c] = [st |-> "back", ok |-> ok, buf |-> buf]]
    /\ UNCHANGED <<op, kernel, bounds>>

Find(c) ==
    /\ rpc[c].st = "sent"
    /\ it' = IF rpc[c].id \in DOMAIN fileContents_ THEN rpc[c].id ELSE End
    /\ rpc' = [rpc EXCEPT ![c].st = "found"]
    /\ UNCHANGED <<fileContents_, op, kernel, bounds>>

put(c) ==
    LET i == IF it # End THEN it ELSE rpc[c].id
        \* map::insert leaves an element that is there by now
        buf == IF it = End /\ i \in DOMAIN fileContents_ THEN fileContents_[i] ELSE rpc[c].buf
    IN  /\ rpc[c].st = "found" /\ rpc[c].proc = "put"
        /\ fileContents_' = [j \in DOMAIN fileContents_ \cup {i} |->
                               IF j = i THEN buf ELSE fileContents_[j]]
        /\ Answer(c, TRUE, <<>>)
        /\ UNCHANGED it

get(c) ==
    /\ rpc[c].st = "found" /\ rpc[c].proc = "get"
    /\ IF it # End THEN Answer(c, TRUE, fileContents_[it]) ELSE Answer(c, FALSE, <<>>)
    /\ UNCHANGED server

getattr(c) ==
    /\ rpc[c].st = "found" /\ rpc[c].proc = "getattr"
    /\ Answer(c, it # End, <<>>)
    /\ UNCHANGED server

(***************************************************************************)
(* yfs_client.  What fails is told apart only in getattr.                  *)
(***************************************************************************)
get_fileDir_content(i) == Sent("get", i, <<>>)
put_content(i, con) == Sent("put", i, con)
getfile(i) == Sent("getattr", i, <<>>)
getdir(i) == Sent("getattr", i, <<>>)
stat(i) == IF isfile(i) THEN getfile(i) ELSE getdir(i)

(***************************************************************************)
(* The FUSE operations.  Start begins one with its first call of the       *)
(* extent server, Step goes from one call to the next, Reply ends it.      *)
(***************************************************************************)
Ready(c) == op[c] = NoOp /\ ops < MaxOps

Start(c, o, call) ==
    /\ Ready(c)
    /\ op' = [op EXCEPT ![c] = o]
    /\ rpc' = [rpc EXCEPT ![c] = call]
    /\ ops' = ops + 1
    /\ UNCHANGED <<server, kernel, used, crashes>>

At(c, kind, at) == op[c].kind = kind /\ op[c].at = at /\ rpc[c].st = "back"

Step(c, o, call) ==
    /\ op' = [op EXCEPT ![c] = o]
    /\ rpc' = [rpc EXCEPT ![c] = call]
    /\ UNCHANGED <<server, kernel, ops, crashes>>

Reply(c, r) ==
    /\ reply' = [reply EXCEPT ![c] = r]
    /\ op' = [op EXCEPT ![c] = NoOp]
    /\ rpc' = [rpc EXCEPT ![c] = NoCall]
    /\ UNCHANGED <<server, used, crashes>>

\* An operation that ends without having called the extent server.
ReplyAtOnce(c, r) ==
    /\ Ready(c)
    /\ Reply(c, r)
    /\ ops' = ops + 1
    /\ UNCHANGED <<dir, known, made>>

Err(what) == [kind |-> "err", err |-> what]

fuseserver_getattr(c) ==
    \/ \E i \in known : Start(c, [kind |-> "getattr", at |-> "attr", ino |-> i],
                                 stat(i))
    \/ /\ At(c, "getattr", "attr")
       /\ Reply(c, IF rpc[c].ok THEN [kind |-> "attr", file |-> isfile(op[c].ino)]
                                ELSE Err("ENOENT"))
       /\ UNCHANGED <<dir, known, made, ops>>

\* setattr, read and write are not written yet in this lab ...
Unwritten(c) == ReplyAtOnce(c, Err("ENOSYS"))

\* ... and neither are mkdir and unlink.
UnwrittenDir(c) == ReplyAtOnce(c, Err("ENOSYS"))

fuseserver_statfs(c) == ReplyAtOnce(c, [kind |-> "statfs"])

fuseserver_open(c) ==
    \E i \in known :
       ReplyAtOnce(c, IF isfile(i) THEN [kind |-> "open"] ELSE Err("ENOSYS"))

\* A bug: the directory is put before the file.
FirstPut_dir(o) == put_content(o.ino, o.con)

\* The file is put first, so that no directory names a file that is not there.
FirstPut(o) == put_content(o.child, <<>>)
SecondPut(o) == put_content(o.ino, o.con)

\* rand() with the bit of files; mkdir, which would ask for none, is unwritten.
get_new_inum == {i \in Inum \ used : isfile(i)}

createhelper(c) ==
    \/ /\ At(c, "create", "get")
       /\ LET con == rpc[c].buf
              name == op[c].name
          IN  \/ /\ Where(con, name) # 0        \* EXIST, which becomes ENOENT
                 /\ Reply(c, Err("ENOENT"))
                 /\ UNCHANGED <<dir, known, made, ops>>
              \/ /\ Where(con, name) = 0
                 /\ \E i \in get_new_inum :
                      LET o == [kind |-> "create", at |-> "file", ino |-> op[c].ino, name |-> name,
                                child |-> i, con |-> con \o Entry(name, i)]
                      IN  used' = used \cup {i} /\ Step(c, o, FirstPut(o))
    \/ /\ At(c, "create", "file")
       /\ Step(c, [op[c] EXCEPT !.at = "dir"], SecondPut(op[c]))
       /\ UNCHANGED used
    \/ /\ At(c, "create", "dir")
       /\ Step(c, [op[c] EXCEPT !.at = "attr"], stat(op[c].child))
       /\ UNCHANGED used
    \/ /\ At(c, "create", "attr")               \* whatever getattr said
       /\ Reply(c, [kind |-> "create", name |-> op[c].name, ino |-> op[c].child])
       /\ made' = made \cup {[name |-> op[c].name, ino |-> op[c].child]}
       /\ known' = known \cup {op[c].child}
       /\ UNCHANGED <<dir, ops>>

\* fuseserver_create and fuseserver_mknod: they differ in the reply's layout.
fuseserver_create(c) ==
    \E p \in known, name \in Name :
       IF isdir(p)
       THEN Start(c, [kind |-> "create", at |-> "get", ino |-> p, name |-> name],
                     get_fileDir_content(p))
       ELSE ReplyAtOnce(c, Err("ENOENT"))

fuseserver_lookup(c) ==
    \/ \E p \in known, name \in Name :
         Start(c, [kind |-> "lookup", at |-> "get", ino |-> p, name |-> name],
                  get_fileDir_content(p))
    \/ /\ At(c, "lookup", "get")
       /\ LET con == rpc[c].buf
              name == op[c].name
          IN  \/ /\ Where(con, name) = 0
                 /\ Reply(c, [kind |-> "lookup", of |-> op[c].ino, name |-> name, err |-> "ENOENT"])
                 /\ UNCHANGED <<dir, known, made, ops>>
              \/ /\ Where(con, name) # 0
                 /\ Step(c, [kind |-> "lookup", at |-> "attr", ino |-> op[c].ino, name |-> name,
                             child |-> Number(con, name)],
                            stat(Number(con, name)))
                 /\ UNCHANGED used
    \/ /\ At(c, "lookup", "attr")
       /\ IF rpc[c].ok
          THEN /\ Reply(c, [kind |-> "lookup", of |-> op[c].ino, name |-> op[c].name,
                            ino |-> op[c].child])
               /\ known' = known \cup {op[c].child}
          ELSE /\ Reply(c, [kind |-> "lookup", of |-> op[c].ino, name |-> op[c].name,
                            err |-> "ENOENT"])
               /\ UNCHANGED known
       /\ UNCHANGED <<dir, made, ops>>

(***************************************************************************)
(* readdir makes the listing anew for each call of the kernel, which reads *)
(* on from the offset of the last entry it got and stops at an empty       *)
(* reply.  dir[c] is what it has so far.                                   *)
(***************************************************************************)
\* dirbuf_add: each entry adds to the size; the place where entry k ends.
Size(list, k) ==
    LET size[j \in 0 .. k] == IF j = 0 THEN 0 ELSE size[j - 1] + Len(list[j].name) + 1
    IN  size[k]

\* reply_buf_limited: the bytes from off on, as many as fit; of these the
\* kernel takes the entries that are whole.
Limited(list, off) ==
    {k \in DOMAIN list : Size(list, k - 1) >= off /\ Size(list, k) <= off + MaxSize}

fuseserver_readdir(c) ==
    \/ \E i \in known :
         IF isdir(i)
         THEN Start(c, [kind |-> "readdir", at |-> "get", ino |-> i], get_fileDir_content(i))
         ELSE ReplyAtOnce(c, Err("ENOTDIR"))
    \/ /\ At(c, "readdir", "get")
       /\ LET list == Listing(rpc[c].buf)
              ks == Limited(list, Size(dir[c], Len(dir[c])))
              first == CHOOSE k \in ks : \A j \in ks : k <= j
              more == [k \in 1 .. Cardinality(ks) |-> list[first + k - 1]]
          IN  IF ks # {}
              THEN /\ Reply(c, [kind |-> "readdir"])
                   /\ dir' = [dir EXCEPT ![c] = @ \o more]
              ELSE /\ Reply(c, [kind |-> "readdir", list |-> dir[c]])
                   /\ dir' = [dir EXCEPT ![c] = <<>>]
       /\ UNCHANGED <<known, made, ops>>

\* The process dies; its call is lost unless the server has begun to serve it.
Crash(c) ==
    /\ crashes < MaxCrashes
    /\ op[c] # NoOp /\ rpc[c].st \in {"sent", "back"}
    /\ op' = [op EXCEPT ![c] = NoOp]
    /\ rpc' = [rpc EXCEPT ![c] = NoCall]
    /\ reply' = [reply EXCEPT ![c] = NoReply]
    /\ dir' = [dir EXCEPT ![c] = <<>>]
    /\ crashes' = crashes + 1
    /\ UNCHANGED <<server, known, made, used, ops>>

\* The constructor puts nothing: the root comes with the first create.
Init ==
    /\ fileContents_ = << >>
    /\ it = End
    /\ rpc = [c \in Client |-> NoCall]
    /\ op = [c \in Client |-> NoOp]
    /\ reply = [c \in Client |-> NoReply]
    /\ dir = [c \in Client |-> <<>>]
    /\ known = {Root}
    /\ made = {}
    /\ used = {Root}
    /\ ops = 0 /\ crashes = 0

Next ==
    \E c \in Client :
       \/ Find(c) \/ put(c) \/ get(c) \/ getattr(c)
       \/ fuseserver_getattr(c) \/ fuseserver_lookup(c) \/ fuseserver_create(c) \/ createhelper(c)
       \/ fuseserver_readdir(c) \/ fuseserver_open(c) \/ fuseserver_statfs(c)
       \/ Unwritten(c) \/ UnwrittenDir(c)
       \/ Crash(c)

Spec == Init /\ [][Next]_vars
-----------------------------------------------------------------------------
(* What is promised.  Both hold for one client; two lose each other's      *)
(* updates, as nothing locks a directory from its get to its put.          *)

Con == IF Root \in DOMAIN fileContents_ THEN fileContents_[Root] ELSE <<>>
Entries == LET list == Listing(Con) IN {list[k] : k \in DOMAIN list}

\* What the kernel is told agrees with the directory: a file whose creation was
\* acknowledged is listed, found under its name with its own number, and has
\* an extent; lookup never says ENOENT for it and never gives a number that the
\* directory does not give that name; and the listing that the kernel has read in
\* pieces, with creations between them, is the whole directory.
AnswersRight ==
    /\ \A m \in made : /\ m \in Entries
                       /\ Number(Con, m.name) = m.ino
                       /\ m.ino \in DOMAIN fileContents_
    /\ \A c \in {d \in Client : op[d] = NoOp} :
         LET r == reply[c] IN
         /\ r.kind = "lookup" /\ r.of = Root =>
              IF "err" \in DOMAIN r THEN \A m \in made : m.name # r.name
                                    ELSE [name |-> r.name, ino |-> r.ino] \in Entries
         /\ r.kind = "readdir" /\ "list" \in DOMAIN r => r.list = Listing(Con)

\* The directory that the string spells changes only by a creation, in one step:
\* one entry more, of a name it did not hold, for a file that no entry had and
\* that has its extent, empty, by then, whatever death came between the two puts.
EntersOne ==
    [][Con' # Con =>
         LET new == Listing(Con')
             e == new[Len(new)]
         IN  /\ new = Append(Listing(Con), e)
             /\ \A d \in Entries : d.name # e.name /\ d.ino # e.ino
             /\ e.ino \in DOMAIN fileContents_ /\ fileContents_[e.ino] = <<>>]_vars
=============================================================================
