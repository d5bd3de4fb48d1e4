----------------------------- MODULE FileCache -----------------------------
(***************************************************************************)
(* The file service: the FUSE operations of fuse.cc over yfs_client, the   *)
(* write-back cache of extent_client, and the extent server.               *)
(*                                                                         *)
(* fuse_session_loop is single-threaded, so a client does one operation at *)
(* a time; the operations of different clients interleave wherever one     *)
(* waits for a lock.  The lock service is the one LockCache implements     *)
(* (LockService): a client keeps a lock after it has released it, and      *)
(* gives it up, after dorelease has flushed the extent, when another       *)
(* client wants it.  extent_client does one thing at a time                *)
(* (fileCacheLock), the extent server too (fileMutex).                     *)
(*                                                                         *)
(* Abstracted: the bytes of a file (FileStore), times, modes, and how a    *)
(* directory is written as a string; no name ends with another name, and   *)
(* get_new_inum never repeats a number.                                    *)
(***************************************************************************)
EXTENDS Integers, Sequences

CONSTANTS
    Client, File, Dir, Name,
    Root,      \* FUSE_ROOT_ID
    NoOne,     \* the owner of a lock that no client has; no name
    MaxOps     \* bound on the operations of all clients together

ASSUME RootAssumption == Root \in Dir
ASSUME NoOneAssumption == NoOne \notin Client
ASSUME MaxOpsAssumption == MaxOps \in Nat

VARIABLES
    ext,       \* extent_server: fileContents_
    cache,     \* extent_client: fileCache
    owner,     \* lock service: the client that has the lock
    releasing, \* locks whose owner has flushed the extent and calls release
    held,      \* ... and the locks its operation holds now
    at,        \* where a client's operation is
    op,        \* the operation: its kind, its first inode, its name, its second
    seen,      \* the inodes a client's kernel knows from replies
    used,      \* inode numbers handed out
    ops        \* operations begun

vars == <<ext, cache, owner, releasing, held, at, op, seen, used, ops>>

\* What unlink has struck from a directory and not yet removed.
Unlinked == {op[c].child : c \in {d \in Client : /\ op[d].kind = "unlink"
                                                 /\ at[d] \in {"second", "do"}}}

Store == INSTANCE FileStore WITH store <- ext, unlinked <- Unlinked

Inum == File \cup Dir
Content == [writes : 0..MaxOps, entries : Seq([name : Name, ino : Inum])]
fileDetails == [cached : BOOLEAN, isDirty : BOOLEAN, removed : BOOLEAN,
                exist_in_server : BOOLEAN, content : Content]
NotCached == [cached |-> FALSE, isDirty |-> FALSE, removed |-> FALSE,
              exist_in_server |-> FALSE, content |-> Store!Empty]

FileOps == {"get", "write", "setattr"}              \* get: getattr and read
DirOps == {"get", "create", "lookup", "mkdir", "unlink"}     \* and readdir
TwoLocks == {"create", "lookup", "mkdir", "unlink"}
Operation == [kind : FileOps \cup DirOps, ino : Inum, name : Name \cup {NoOne}, child : Inum]
NoOperation == [kind |-> "get", ino |-> Root, name |-> NoOne, child |-> Root]

TypeOK ==
    /\ ext \in [Inum -> [there : BOOLEAN, content : Content]]
    /\ cache \in [Client -> [Inum -> fileDetails]]
    /\ owner \in [Inum -> Client \cup {NoOne}] /\ releasing \subseteq Inum
    /\ held \in [Client -> SUBSET Inum]
    /\ at \in [Client -> {"idle", "first", "look", "second", "do"}]
    /\ op \in [Client -> Operation]
    /\ seen \in [Client -> SUBSET Inum]
    /\ used \subseteq Inum
    /\ \A c \in Client, i \in Inum : ~cache[c][i].cached => cache[c][i] = NotCached
    /\ ops \in 0..MaxOps
-----------------------------------------------------------------------------
(* extent_client, as functions of one client's cache m                     *)

\* fileGetter: a cached extent is marked dirty because its atime changes, and
\* one that is not cached is fetched, or noted as missing.
Fetched(m, i) ==
    [m EXCEPT ![i] =
        IF @.cached
        THEN [m[i] EXCEPT !.isDirty = m[i].isDirty \/ (m[i].exist_in_server /\ ~m[i].removed)]
        ELSE [NotCached EXCEPT !.cached = TRUE, !.exist_in_server = ext[i].there,
                               !.content = ext[i].content]]

\* The status fileGetter returns: the second ret hides the first, so a missing
\* extent is reported only once it is cached.
StatusOK(m, i) == ~m[i].cached \/ (m[i].exist_in_server /\ ~m[i].removed)

\* What the caller finds in buf; every caller ignores an error.
Got(m, i) ==
    LET e == Fetched(m, i)[i] IN
    IF e.exist_in_server /\ ~e.removed THEN e.content ELSE Store!Empty

Put(m, i, v) ==
    [m EXCEPT ![i] = [cached |-> TRUE, isDirty |-> TRUE, removed |-> FALSE,
                      exist_in_server |-> TRUE, content |-> v]]

Removed(m, i) ==
    [m EXCEPT ![i] = [NotCached EXCEPT !.cached = TRUE, !.isDirty = TRUE,
                                       !.removed = TRUE]]

\* flush: what the extent server holds afterwards (put, remove).
Flushed(e, i) ==
    IF ~e.isDirty THEN ext[i]
    ELSE IF e.removed THEN Store!Absent ELSE Store!Extent(e.content)
-----------------------------------------------------------------------------
Init ==
    /\ ext = [i \in Inum |-> Store!Absent]
    /\ cache = [c \in Client |-> [i \in Inum |-> NotCached]]
    /\ owner = [i \in Inum |-> NoOne] /\ releasing = {}
    /\ held = [c \in Client |-> {}]
    /\ at = [c \in Client |-> "idle"]
    /\ op = [c \in Client |-> NoOperation]
    /\ seen = [c \in Client |-> {Root}]
    /\ used = {Root}
    /\ ops = 0

\* The kernel passes an operation on an inode it has seen, which may be gone.
Request(c) ==
    /\ at[c] = "idle" /\ ops < MaxOps
    /\ \E i \in seen[c] :
        \/ \E k \in (IF i \in File THEN FileOps ELSE DirOps) \ TwoLocks :
             op' = [op EXCEPT ![c].kind = k, ![c].ino = i]
        \/ \E k \in TwoLocks, n \in Name :
             i \in Dir /\ op' = [op EXCEPT ![c].kind = k, ![c].ino = i, ![c].name = n]
    /\ at' = [at EXCEPT ![c] = "first"]
    /\ ops' = ops + 1
    /\ UNCHANGED <<ext, cache, owner, releasing, held, seen, used>>

\* mutant: a client takes the lock it is giving back
Acquire_releasing(c, i) ==
    /\ owner[i] \in {c, NoOne}
    /\ owner' = [owner EXCEPT ![i] = c]
    /\ held' = [held EXCEPT ![c] = @ \cup {i}]
    /\ UNCHANGED <<ext, cache, releasing, op, seen, used, ops>>

\* yfs_client::acquire returns.  A lock on its way back to the server is for
\* nobody.
Acquire(c, i) ==
    /\ owner[i] \in {c, NoOne} /\ i \notin releasing
    /\ owner' = [owner EXCEPT ![i] = c]
    /\ held' = [held EXCEPT ![c] = @ \cup {i}]
    /\ UNCHANGED <<ext, cache, releasing, op, seen, used, ops>>

AcquireFirst(c) ==
    /\ at[c] = "first"
    /\ Acquire(c, op[c].ino)
    /\ at' = [at EXCEPT ![c] = IF op[c].kind \in TwoLocks THEN "look" ELSE "do"]

AcquireSecond(c) ==
    /\ at[c] = "second"
    /\ Acquire(c, op[c].child)
    /\ at' = [at EXCEPT ![c] = "do"]

\* The client still has both locks, and the operation is over.
Release(c) ==
    /\ held' = [held EXCEPT ![c] = {}]
    /\ at' = [at EXCEPT ![c] = "idle"]
    /\ op' = [op EXCEPT ![c] = NoOperation]
    /\ UNCHANGED <<ext, owner, releasing, used, ops>>

\* An operation goes on to its second inode.
GoOn(c, i) ==
    /\ op' = [op EXCEPT ![c].child = i]
    /\ at' = [at EXCEPT ![c] = "second"]
    /\ UNCHANGED <<ext, owner, releasing, held, seen, ops>>

Wants(c, i) == \/ at[c] = "first" /\ op[c].ino = i
               \/ at[c] = "second" /\ op[c].child = i

\* The releaser means to give the lock back for a client that waits.
GiveBack(c, i) ==
    /\ owner[i] = c /\ i \notin held[c] /\ i \notin releasing
    /\ \E d \in Client \ {c} : Wants(d, i)
    /\ releasing' = releasing \cup {i}
    /\ UNCHANGED <<owner, held, at, op, seen, used, ops>>

\* mutant: the extent is forgotten without a flush
dorelease_unflushed(c, i) ==
    /\ GiveBack(c, i)
    /\ ext' = ext
    /\ cache' = [cache EXCEPT ![c][i] = NotCached]

\* mutant: the entry is not erased but marked, and stays dirty
dorelease_dirty(c, i) ==
    /\ GiveBack(c, i)
    /\ ext' = [ext EXCEPT ![i] = Flushed(cache[c][i], i)]
    /\ cache' = [cache EXCEPT ![c][i].cached = FALSE]

\* dorelease flushes and forgets the extent, before release is called.
dorelease(c, i) ==
    /\ GiveBack(c, i)
    /\ ext' = [ext EXCEPT ![i] = Flushed(cache[c][i], i)]
    /\ cache' = [cache EXCEPT ![c][i] = NotCached]

\* The server has run release.
Released(i) ==
    /\ i \in releasing
    /\ owner' = [owner EXCEPT ![i] = NoOne]
    /\ releasing' = releasing \ {i}
    /\ UNCHANGED <<ext, cache, held, at, op, seen, used, ops>>
-----------------------------------------------------------------------------
(* The operations once their locks are held.                               *)

\* getattr, read, readdir
Get(c) ==
    /\ at[c] = "do" /\ op[c].kind = "get"
    /\ cache' = [cache EXCEPT ![c] = Fetched(@, op[c].ino)]
    /\ UNCHANGED seen
    /\ Release(c)

fuseserver_write(c) ==
    LET i == op[c].ino IN
    /\ at[c] = "do" /\ op[c].kind = "write"
    /\ cache' = [cache EXCEPT ![c] = Put(@, i, Store!Written(Got(@, i)))]
    /\ UNCHANGED seen
    /\ Release(c)

\* fuseserver_setattr to size 0.
fuseserver_setattr(c) ==
    LET i == op[c].ino IN
    /\ at[c] = "do" /\ op[c].kind = "setattr"
    /\ cache' = [cache EXCEPT ![c] = Put(@, i, Store!Empty)]
    /\ UNCHANGED seen
    /\ Release(c)

Entries(c) == Got(cache[c], op[c].ino)

\* rand(), with the bit of files or without it, taken never to repeat.
get_new_inum(S) == S \ used

\* fuseserver_createhelper, mkdir: the new number, which is then locked.
LookCreate(c) ==
    /\ at[c] = "look" /\ op[c].kind = "create"
    /\ op[c].name \notin Store!Names(Entries(c))
    /\ cache' = [cache EXCEPT ![c] = Fetched(@, op[c].ino)]
    /\ \E i \in get_new_inum(File) : GoOn(c, i) /\ used' = used \cup {i}

LookMkdir(c) ==
    /\ at[c] = "look" /\ op[c].kind = "mkdir"
    /\ \E i \in get_new_inum(Dir) : GoOn(c, i) /\ used' = used \cup {i}
    /\ UNCHANGED cache

\* EEXIST of create, ENOENT of lookup and unlink
LookFails(c) ==
    /\ at[c] = "look"
    /\ \/ op[c].kind = "create" /\ op[c].name \in Store!Names(Entries(c))
       \/ op[c].kind \in {"lookup", "unlink"} /\ op[c].name \notin Store!Names(Entries(c))
    /\ cache' = [cache EXCEPT ![c] = Fetched(@, op[c].ino)]
    /\ UNCHANGED seen
    /\ Release(c)

FoundInum(c) == Entries(c).entries[Store!Find(Entries(c), op[c].name)].ino

LookLookup(c) ==
    /\ at[c] = "look" /\ op[c].kind = "lookup"
    /\ op[c].name \in Store!Names(Entries(c))
    /\ cache' = [cache EXCEPT ![c] = Fetched(@, op[c].ino)]
    /\ UNCHANGED used
    /\ GoOn(c, FoundInum(c))

\* mutant: the entry stays until the file is gone
LookUnlinkLater(c) ==
    /\ at[c] = "look" /\ op[c].kind = "unlink"
    /\ op[c].name \in Store!Names(Entries(c))
    /\ cache' = [cache EXCEPT ![c] = Fetched(@, op[c].ino)]
    /\ UNCHANGED used
    /\ GoOn(c, FoundInum(c))

LookUnlink(c) ==
    /\ at[c] = "look" /\ op[c].kind = "unlink"
    /\ op[c].name \in Store!Names(Entries(c))
    /\ cache' = [cache EXCEPT ![c] =
                   Put(@, op[c].ino, Store!Strike(Entries(c), op[c].name))]
    /\ UNCHANGED used
    /\ GoOn(c, FoundInum(c))

\* The new extent, then the directory; the reply names the new inode.
PutNew(c) ==
    LET i == op[c].child IN
    /\ cache' = [cache EXCEPT ![c] =
                   Put(Put(@, i, Store!Empty), op[c].ino,
                       Store!Enter(Entries(c), op[c].name, i))]
    /\ seen' = [seen EXCEPT ![c] = @ \cup {i}]
    /\ Release(c)

\* The rest of createhelper, and the replies of create and mknod.
PutCreate(c) == at[c] = "do" /\ op[c].kind = "create" /\ PutNew(c)

\* The rest of mkdir, which does not look for the name.
PutMkdir(c) == at[c] = "do" /\ op[c].kind = "mkdir" /\ PutNew(c)

\* yfs_client::getfile and getdir, as getattr of fuse.cc calls them.
getattrOK(c, i) == StatusOK(cache[c], i)

GetFound(c) ==
    /\ at[c] = "do" /\ op[c].kind = "lookup"
    /\ cache' = [cache EXCEPT ![c] = Fetched(@, op[c].child)]
    /\ seen' = [seen EXCEPT ![c] = IF getattrOK(c, op[c].child)
                                  THEN @ \cup {op[c].child} ELSE @]
    /\ Release(c)

RemoveFound(c) ==
    /\ at[c] = "do" /\ op[c].kind = "unlink"
    /\ cache' = [cache EXCEPT ![c] = Removed(@, op[c].child)]
    /\ UNCHANGED seen
    /\ Release(c)

\* All operations are done.
Done ==
    /\ ops = MaxOps /\ \A c \in Client : at[c] = "idle"
    /\ UNCHANGED vars

\* The numbers of the instance are used up.
NoNumber(c) ==
    /\ at[c] = "look"
    /\ \/ /\ op[c].kind = "create" /\ File \subseteq used
          /\ op[c].name \notin Store!Names(Entries(c))
       \/ op[c].kind = "mkdir" /\ Dir \subseteq used
    /\ UNCHANGED <<cache, seen>>
    /\ Release(c)

Operate(c) ==
    \/ Request(c) \/ AcquireFirst(c) \/ AcquireSecond(c)
    \/ Get(c) \/ fuseserver_write(c) \/ fuseserver_setattr(c)
    \/ LookCreate(c) \/ LookMkdir(c) \/ LookFails(c) \/ LookLookup(c) \/ LookUnlink(c)
    \/ NoNumber(c)
    \/ PutCreate(c) \/ PutMkdir(c) \/ GetFound(c) \/ RemoveFound(c)

Next ==
    \/ \E c \in Client : Operate(c) \/ \E i \in Inum : dorelease(c, i)
    \/ \E i \in Inum : Released(i)
    \/ Done

Spec == Init /\ [][Next]_vars
-----------------------------------------------------------------------------
\* The extents as the clients see them: what the lock's owner has changed and
\* not yet flushed, else what the server holds.
View ==
    [i \in Inum |-> IF owner[i] = NoOne THEN ext[i]
                    ELSE Flushed(cache[owner[i]][i], i)]

\* Caches keep to the locks: only the owner of an extent's lock has it cached,
\* and unless it is dirty the server has the same (fileGetter, flush,
\* dorelease).
Coherent ==
    \A c \in Client, i \in Inum : cache[c][i].cached =>
        /\ owner[i] = c
        /\ cache[c][i].isDirty \/ /\ cache[c][i].exist_in_server = ext[i].there
                                  /\ cache[c][i].content = ext[i].content

\* No directory names an extent that does not exist, not even between the two
\* changes of create and of unlink (fuseserver_createhelper, unlink).
NoDangling ==
    \A d \in Dir : \A i \in Store!Inums(View[d].content) : View[i].there

\* The service behaves as the single store of FileStore: no client works on
\* stale contents, no update is lost, whichever client made it (all operations
\* of fuse.cc, extent_client, extent_server).
AsOneStore == INSTANCE FileStore WITH store <- View, unlinked <- Unlinked
ImplementsStore == AsOneStore!StoreSpec
=============================================================================
