# A TLA+ development for the yfs lab servers

The repository holds a small distributed file system (yfs): FUSE operations
over an extent server, made consistent by a caching lock service, with the
beginnings of a replicated lock server whose replicas agree on views by Paxos,
all over a home-made RPC library. This directory models the view agreement and
the joining of replicas above it, the lock cache and the plain lock server, the
RPC library from its poll loop to its at-most-once machinery and marshalling,
and the file operations with and without their write-back cache. It checks the
models with TLC and proves with TLAPS the main safety properties of the view
agreement, the lock cache, the file cache, the at-most-once machinery and the
connections below it.

Source paths below are relative to `src/`. `rr/` and `lab22/` hold older copies
of the same files; of these only what the current files no longer have is
modelled, the file service and the lock server of `lab22/`.

## Inventory

| Component | State | Operations | Hard part | What makes it correct |
|---|---|---|---|---|
| Paxos acceptor (`paxos.cc`) | promise `n_h`, vote `n_a`/`v_a`, decided `values`, `instance_h` | `preparereq`, `acceptreq`, `decidereq`, `commit_wo` | races of proposers, late requests, one vote slot for all instances | agreement per instance |
| Paxos proposer (`paxos.cc`) | `stable`, `my_n`, `c_nodes`, `c_v` | `run` = `prepare`, `accept`, `decide` | one-second timeouts, crash between phases, uninitialised number | proposals carry what may be chosen; run returns |
| Paxos log (`log.cc`) | file of `done`, `high`, `prop` records | append, `logread`, `dump`, `restore` | crash between or within records | restart reproduces the acceptor |
| config (`config.cc`) | `myvid`, `mems` | `add`, `remove_wo`, `paxos_commit`, `reconstruct`, `heartbeater` | upcalls without a mutex, values read before an unlock | config follows the acceptor; views change by one node |
| rsm (`rsm.cc`) | `primary`, the recovery thread, `rsm_mutex` | `recovery`, `join`, `joinreq`, `commit_change`, `set_primary` | mutex held across Paxos, log transfer, upcalls under other mutexes | views reach rsm; no sleep through a recovery that is due; one primary per view |
| rsm_client (`rsm_client.cc`) | known members, primary | `init_members`, `invoke` (stub) | primary failure | - |
| handle_mgr (`handle.cc`) | reference-counted RPC clients | `get_handle`, `done_handle`, `delete_handle` | deletion while in use, a mutex across `bind` | no use after delete |
| lock_client_cache | per lock: status, sequence number; `revokeMap`, `retryMap` | `acquire`, `release`, `revoke`, `retry`, releaser thread | answers, revokes and retries overtake each other; shared condition variables | exclusion, every acquire returns |
| lock_server_cache | allocation, `clientLockSeqMap`, `revokeMap`, `retryMap`, `has_release` | `acquire`, `release`, revoker and retryer threads | test outside the mutex, duplicates | what it believes to be out can be had back |
| lock_server / lock_client | lock table, one shared iterator | `acquire`, `release`, `stat` | handlers that block the thread pool, the iterator | exclusion, everyone finishes |
| extent_server | extents with attributes | `get`, `put`, `getattr`, `remove` | - | last put is read |
| extent_client | write-back cache | same and `flush` | flush against revoke, error status shadowed | flushed before the lock leaves |
| yfs_client, `fuse.cc` | directories as strings | create, lookup, mkdir, unlink, setattr, read, write | lock order, partial failure between puts | directory and inode agree |
| rpcc / rpcs (`rpc/rpc.cc`) | calls and xid window; reply window | `call1`, `got_pdu`, `dispatch`, `checkduplicate_and_update` | loss, duplication, restart of the server | at most once |
| connection, tcpsconn | `wpdu_`, `rpdu_`, `dead_`, `refno_`; table of connections | `send`, `write_cb`, `read_cb`, `closeconn`, `incref`/`decref`, accepting thread | a connection that dies under a sender, references dropped by anyone | no use after delete, pdus not mixed, no sender left asleep |
| PollMgr | callbacks, descriptor sets | `add_callback`, `del_callback`, `block_remove_fd`, `wait_loop` | removal against select on the old set, descriptors used again | no callback after removal |
| ThrPool, fifo | bounded queue, workers | `enq`, `deq`, `addJob`, destructor | full queue, one signal for many sleepers, poison pills | every job finds a worker, the pool ends |
| marshalling (`marshall.h`, `rpc.h`) | byte buffers | `rawbytes`, `<<`, `>>`, `okdone`, headers | types agreed by convention, buffer growth | a caller gets its own answer |

Calls between them: `fuse.cc` takes and gives back extent locks through
yfs_client and lock_client_cache and moves data through extent_client; the
releaser thread of the lock client flushes the extent (`dorelease`) before it
gives the lock back; rsm asks config to add a node, config runs the proposer,
the acceptor tells config, and config tells rsm (`commit_change`). Everything
remote goes through rpcc and rpcs.

The hazards that these parts are exposed to are listed, each with its line and
with the properties aimed at it, under `hazards` in `PROJECT.json`.

## Modules

| Module | What it is |
|---|---|
| `Paxos` | acceptor, proposer, config and crashes: the model and its properties |
| `PaxosInv` | the inductive invariant of one instance |
| `PaxosProofs` | type correctness, agreement and what it rests on, proved |
| `MCPaxos` | values for TLC |
| `LockService` | the abstract lock service: ask, get, give back |
| `LockCache` | client and server of the caching lock protocol and its properties |
| `LockInv` | the inductive invariant and the refinement mapping |
| `LockCacheProofs` | type correctness, mutual exclusion, the holder's sequence number, revokes, the assertions and the refinement, proved |
| `MCLockCache` | values for TLC |
| `Rpc` | RPC client, connections and server, and their properties |
| `RpcProofs` | the inductive invariant of `Rpc` and the properties that follow, proved |
| `MCRpc` | the instance for TLC |
| `FileStore` | the abstract file service: one store, no caches |
| `FileCache` | FUSE operations, extent client cache, extent server and their properties |
| `FileInv` | the inductive invariant of `FileCache` |
| `FileProofs` | type correctness, coherence, no dangling names and the refinement, proved |
| `MCFileCache` | values and symmetry for TLC |
| `Transport`, `MCTransport` | poll loop, connections, references and the threads that share them |
| `TransportInv` | the inductive invariant of `Transport` |
| `TransportProofs` | type correctness, references, fresh reads, single writers and wake-ups, proved |
| `RsmView`, `MCRsmView` | joining, heartbeats, log transfer and the primary, over rounds of Paxos |
| `RsmViewProofs` | type correctness and the recovery thread's wake-up, proved |
| `LockPlain`, `MCLockPlain` | the plain lock server on a thread pool, with its tester |
| `LockPlainInv` | the inductive invariant of the lock handlers, and what it asks of the scripts |
| `LockPlainProofs` | type correctness, the pool's wake-ups and the tester's checks, proved |
| `Wire`, `MCWire` | marshalling and the call and handler templates |
| `YfsPlain`, `MCYfsPlain` | the file service without cache, with directories as strings |

How they fit: `LockCache` implements `LockService`, which is the lock service
that `FileCache` uses; `FileCache` implements `FileStore`. `RsmView` takes a
round of `Paxos` as one step. `Rpc` takes from `Transport` that a pdu arrives
whole or not at all on its own connection, and from `Wire` that a header's fields
arrive as sent; what `Rpc` leaves behind (copies that run late) is what
`LockCache` and `Paxos` are given.

An operator whose comment starts with "mutant" is a plausible mistake in the
definition after it. It is not part of the model; `PROJECT.json` pairs it with
the property that must fail when it takes the definition's place.

## Paxos

**State.** The acceptor's variables have the code's names. A view is a set of
nodes: its string form is only compared with the empty string and split into
members. Members are visited in ascending order, which is the order of the
vectors when nodes join in that order. Instance 1 is the last view that all
nodes know when the model starts; a running system gets there by joins.
`seen` records the views config has been in since the process started.
`proposed` and `voted` are history variables that no action reads.

**Actions.** `RunStart` is the call of `proposer::run` by `add` or `remove_wo`: the
value may have been built in any view of `seen`, because `cfg_mutex` is released
before `myvid` and `mems` are read for the call. These two are read together; the
code reads them one after the other, so that an upcall of another thread may come
between. Then each pass of a loop is a step: the callee's handler together with the
caller's handling of the answer (`PreparePromise`, `PrepareReject`, `PrepareOld`,
`AcceptYes`, `AcceptNo`, `Decide`), or a `Timeout`. Joining handler and answer is
sound because the proposer's state after the call does not depend on what happens
between them: nobody but the proposer's thread touches it while `stable` is false.
The exception is the oldinstance answer, which commits at the caller; that is a
separate step, `Learn`. A timed-out request may be lost or may stay in `late`, where
`LateRequest` can run its handler at any time and any number of times; a restarted
server refuses it. `Commit` is `commit_wo` up to the upcall, which is the separate
step `PaxosCommit`, since the mutex is not held. For a commit made by `prepare` the
proposer's own thread makes the upcall, so `run` returns only after it.

`CrashRestart` keeps what the log restores. The log records every change of the
acceptor under the same mutex, so it restores the same values; `logread` leaves
the node part of a number that is reset to 0 as it was, which no comparison
can tell. `my_n.n` is never initialised by the constructor and
becomes any value of `UninitN`. The breakpoints (`exit(1)` between phases) are
crashes.

**Bounds.** Three nodes: a majority is two and one can fail. Two runs of two
proposers make two proposals compete; a timeout or a late request is what
separates a vote from its decide. `LastInstance` is 2 where agreement is
checked: one open instance. Three instances are used where a property
relates two of them.

**Runs.** `PaxosLate` checks agreement and that no proposal competes with a
chosen view. It has no crashes, to stay small; that racing proposers with
crashes are safe is what the proofs show. `PaxosLive` checks that `run`
returns and that every committed view reaches config, by the upcall or by
`reconstruct` after a crash, both unless the node has come into an upcall made by
`prepare` (phase "upcall"), which is the exception explained under Fairness.

**Promises the code does not keep.** `ConfigInStep` and `ViewsFollow` at the end
of the module state what comments say; TLC refutes both with three nodes, two
proposers of one run each and `LastInstance = 3`:

* `commit_wo` releases `pxs_mutex` before it calls `paxos_commit`
  (`paxos.cc:380`), so with a late request the upcalls of instances 2 and 3 can
  change places. `paxos_commit` does not compare (`config.cc:146-147`) and puts
  config back into view 2, with no upcall left to correct it; `config.cc:20-24`
  speaks of a total order of views.
* `remove_wo` and `add` build the new view under `cfg_mutex`, release it, and
  only then read `myvid` and `mems` for the call of `run` (`config.cc:205-206,
  227-228`): a view built from view 1 is proposed as the successor of view 2.
  From the first view {1,2} the trace ends with views {1,2}, {1}, {2}: node 2,
  already removed, makes itself the only member. `config.cc:8-10` says "the next
  view will be the same as previous view, except with the new node added or
  removed".

**Fairness.** The proposer's thread and the threads of upcalls are weakly fair:
threads are scheduled and each call returns within its one-second timeout. The
exception is the upcall of an oldinstance commit, which `prepare` makes with the
proposer's mutex held (`paxos.cc:192`). It may wait for ever, for `rsm_mutex`, held
by a joinreq that waits for this very run, or for `cfg_mutex`, held by a heartbeat
that waits for the proposer's mutex in `isrunning` (`config.cc:307`); in the second
case all other upcalls of the node wait with it. So `PaxosCommit` is fair only while
no such upcall is under way at the node, and the two properties promise nothing of
a node that has come into one; `RsmView` has the mutexes themselves. Nothing is
assumed about late requests, crashes or new runs.

**Proofs.** `TypeCorrect` holds for all constants. `SingleInstanceAgreement`,
`SingleInstanceProposals` and `SingleInstanceCommits` assume `LastInstance = 2`
and nothing else: any finite set of nodes, any first view, any number of runs,
crashes, late requests and any uninitialised numbers. The assumption is needed:
the acceptor's `n_h`, `n_a` and `v_a` are shared by all instances, so the
argument does not carry over to two open instances. Agreement alone is not
inductive. `PaxosInvariant` adds: a proposal goes to a majority that has promised its
number (`ProposedInv`); an acceptor votes only for proposals and remembers its
highest vote until it closes the instance (`VoteInv`); what a proposer has
collected bounds every vote below its number (`PrepareInv`); and the centre,
`SafeInv`: of two proposals with different views, a majority can no longer
accept the lower one. A restarted proposer may choose a number it has used before;
`PrepareInv` says why it can never gather promises under it from a node that
was asked to accept it. The final steps intersect two majorities.

## The lock cache

**State.** Client and server variables have the code's names (the server's
`revokeMap` and `retryMap` are `srevoke` and `sretry`). A missing map entry is
the value the code would create: number 0 (server), status NONE with number 1
(client), the empty set.

**Actions.** Code under a mutex is one step; a remote call is a step of the
callee and, where the caller's state changes, a later step for the answer.
`acquire` is `Acquire`, then the switch (`SwitchNone`, `SwitchFree`,
`SwitchWait`), then for the thread that fetches the lock `PingCheck` (the
server's test, made without its mutex), `PingGrant` or `PingRefuse`, and
`PingOK` or `PingAgain`. The switch reads the status without the mutex, but each
branch reads it again under the mutex and goes round if it changed.
`RetryWake` is a wake-up on `rtr_cv` or its three-second timeout.
`ConditionVar::signal` wakes one sleeper, any one. The releaser thread is
`ReleaserSnapshot`, then `ReleaserCall`, `ReleaserRelease`, `ReleaserDone` or
`ReleaserSkip` per entry, then `ReleaserCleanup`, whose loop erases through an
iterator it goes on using: after the first erased entry any others, or none, may
be found. A snapshot is sent in any order rather than in key order. Threads
nest locks in increasing order, as `fuse.cc` nests parent and child.

An RPC retransmission can leave a second copy of a call behind, which may be run
once its caller has its answer and not before (theorem `RpcOnceWhileWaiting`,
below). `Leave` puts a copy into `late` when the caller has handled its answer and
the `Late` actions run it. Copies of an acquire can stop between the unlocked test
and the mutex (`checked`).

`has_release` is set after the retryer has been started; `UninitRelease` holds
the values the thread may leave in it. The runs with two clients start from 0;
the proofs cover every value.

**Abstract specification.** `LockService` knows only which thread wants and
which thread holds a lock. `LockInv` maps `held` to its holder and the threads
inside `acquire` to its wanters.

**Bounds.** Two threads of one client and one of another are the least that has
both local hand-over and revocation. Three acquires let one client have the lock,
lose it and have it again under a new number. One copy is enough for each hazard
of a copy; copies of acquires and of releases are tried in `LockShared`, copies of
retries in `LockLive`, and copies of revokes are left to the proofs, which
cover copies of every call. The threads of one client are symmetric in
`LockShared`. `LockQueue` has four threads, since with one lock a thread it takes
two holders and two sleepers for a signal to find the wrong one. With one lock the
cleanup loop of the releaser has no other entry to skip: `RevokeKept` was checked
once more with two clients, two locks and four acquires (4.1 million states, not
kept as a run), and its theorem covers any number of locks.

**Runs.** `LockShared`: exclusion and the refinement, with copies of acquires and
releases.
`LockLive` (two clients): what the server believes a client to have is what it
has, the programs' assertions hold, the releaser erases no revoke before its lock
has gone back (`RevokeKept`), every acquire returns, every refused client is sent
its retry.
`LockQueue` (four threads of one client, two locks): every acquire returns although
`signal` may wake a sleeper of the other lock. The thread that was woken for
nothing sleeps again; the sleeper of the freed lock is woken by a later release,
because the lock of the first is still held and will be released.

That a retry which overtakes its refusal is remembered (the flag in `retryMap`,
`lock_client_cache.cc:260`) is in the model and no property rests on it: the wait
is a timed wait, so a lost retry costs three seconds and the client asks again.

**Promises the code does not keep.** With a copy of an acquire `HolderIsCurrent`
is violated (two clients of a thread each, three acquires): `acquire` compares
`seqNo` with `clientLockSeqMap` before it takes the mutex
(`lock_server_cache.cc:242`), so a copy of a request that was refused can pass the
test, wait, and be granted after the same number was granted and given back. The
server then believes the lock to be out under a number its client has left;
revokes are ignored as old (`lock_client_cache.cc:471`), so nobody gets the lock
again. `lock_server_cache.cc:243` says of such a request "Server has already
handled the acquire". For the same reason the assertion of `add_Revoke_Request`
(`lock_server_cache.cc:232`, "Revoke req is not greater than one client is
serving") can fail, the last part of `AssertsHold`: the copy is granted after the
next number was granted, revoked and given back, and sets `clientLockSeqMap` back
while the revoke is still queued (two clients of a thread each, four acquires, a
trace of 57 states). The attempt to prove `AssertsHold` for copies of all calls
brought this out. Exclusion is not in danger in either case.

Among threads of one client, `AcquireReturns` is checked
for threads that hold one lock at a time. All locks of a client share one
condition variable and `release` signals once, so with nested locks it may wake
a thread that waits for another lock, and the waiter of the freed lock sleeps on.
That takes several threads per client; the FUSE loop of this commit is
single-threaded (`fuse.cc:655-656`).

**Fairness.** Application threads, the releaser, the revoker and the retryer are
weakly fair: threads are scheduled, calls return, `timedWait` times out, and
whoever holds a lock releases it (the callers of `acquire` do, on every path).
Copies need never run.

**Proofs.** `LockTypeCorrect`, `LockMutualExclusion` and `LockRefinement` hold
for all clients, threads, locks and bounds, with copies of all calls. The
inductive invariant `LockInvariant` says: a thread that is fetching a lock is
alone in that in its client, whose status is ACQUIRING, and one that has
returned finds it LOCKED (`ThreadInv`); the releaser only works on a lock whose status is
RELEASING (`ReleaserInv`); a client that owns a lock was granted its current
number and has not handed it back, and a number granted and not handed back is
the server's allocation (`OwnerInv`), so two clients cannot both own it;
copies carry numbers the client has used (`LateInv`). Mutual exclusion follows;
the refinement uses it for the step in which `acquire` returns.

`LockHolderIsCurrent` and `LockAssertsHold` assume that no acquire is copied
(`"acquire" \notin LateOps`), which the two violations above show to be needed,
and allow copies of all other calls. `AllocationInv` then ties the server's
allocation to the client's number from the grant until the release has been
served, and bounds every queued revoke by the number granted last.

`LockRevokeKept` needs no assumption. `RevokeKept` is inductive with the types and
the fact that no number is 0, the value for "no revoke": a lock becomes RELEASING
only under a revoke of its current number, the cleanup erases older ones only, and
the number moves on in the step that ends RELEASING.

## RPC

**State.** One rpcc and one rpcs: the server keeps everything per client nonce,
so clients do not meet in it. The client's `xid_rep_window_` is `front` and
`ahead`, the rest of the list as a set. A copy of a request is a pair of call
and connection, since a call is sent at most once on a connection; headers are
made once per call and kept in `hdr`. `reqs` holds the copies that the server
has not looked up, be they in a socket, in the queue of the thread pool or in a
thread before the mutex. `ran` is a history variable.

**Actions.** `call1` makes the header; `Transmit` is the loop that sends it and,
when the connection is dead, sends it again on a new one; `got_pdu` is the poll
thread; `Return` and `Timeout` are the end of `call1`, with what `bind` adds;
`cancel` is the part before its wait. At the server `DispatchOld`,
`DispatchNew`, `DispatchInProgress` and `DispatchSeen` are the branches of
`dispatch` and `HandlerEnds` is what follows the handler, in which other threads
have run. The write of `conns_` and the look-up in the window are one step: the
two are under different mutexes, but nothing reads `conns_` but a later
`HandlerEnds`, for which both orders of two such writes are reached anyway. The
client may or may not be first to see a connection dead, so `HandlerEnds` may send
on the request's connection or on the latest. `Restart` is a new server process.

Binding is done by one thread before the others have the rpcc, as all users of
the library do. Left out: malformed and unregistered requests, `set_reachable`
(a test hook), clients without retransmission and the statistics.

**Bounds.** Four calls (a bind and three), two connections, one restart: a copy
left on the first connection, its call answered over the second, and a third
call to acknowledge it.

**Runs.** `RpcCalls` shows that a call that still waits has been run at most
once, that an OK means that the handler has ended, and that `cancel` leaves
nobody waiting. It is a safety run and needs no fairness; it may stop when the
calls are used up.

**A promise the code does not keep.** `rpc.h:276` promises at most once
(`AtMostOnce`), but `checkduplicate_and_update` reports FORGOTTEN only if a
request's xid is below the `xid_rep` it carries (`rpc.cc:679`), which never
happens. With three calls and two connections TLC shows a call retransmitted on
a second connection, answered, and acknowledged by the next call; its first copy
then runs its handler again. The caller has had its answer by then; the server
has not been told of a second call.

**Proofs.** `RpcTypeCorrect`, `RpcOnceWhileWaiting`, `RpcOkMeansDone` and
`RpcCancelReachesAll` hold for any number of calls, connections and restarts.
The chain is: a waiting call is not acknowledged, that is neither at or below
`front` nor in `ahead`; so every header made so far carries a front below it;
so no request trims its window entry; so the entry, once made, is there and a
second copy finds it. For restarts the invariant adds that headers carry nonces
of the past and that a call made for an old instance is refused by the new one;
a bind carries none, which is why `OnceWhileWaiting` is about calls only.

## File service

**State.** `ext` is the extent server's map, `cache` the extent client's, with
the fields of `fileDetails`. A file's contents are the number of writes they
hold, which tells a lost or a stale write; a directory's are its entries in
order. `seen` holds the inodes a client's kernel knows, on which alone it sends
operations, and which may be gone. The lock service is the abstract one that
`LockCache` implements: `owner` has the lock, `held` are the locks the
operation is in.

**Actions.** An operation is `Request`, then the lock of its first inode, then
for two-inode operations a look at the directory, the second lock and the rest.
Between two acquires a client touches only extents whose locks it holds, so the
code between them is one step. The releaser gives a lock back, when another client
waits for it, in two steps: `dorelease` flushes and forgets the extent, then
`Released` is its call of the server's release; in between the lock is in
`releasing` and no thread of the client can take it. `Fetched` and `StatusOK` are `fileGetter`,
whose shadowed `ret` reports a missing extent only from the second time on.
A client whose kernel still knows an inode that was unlinked can write to it and
bring its extent back, without a name, as in the code; `FileStore` has the same
step, so the refinement does not forbid it. The code and its docs promise nothing
else.

Abstracted: offsets, sizes other than 0 in setattr, times, and the text form of
directories, which is the subject of `YfsPlain`. Two assumptions hide behaviour
of the code: no name ends with another name (`find(name + "=")` takes "xa=..." for
"a"), and `get_new_inum` never repeats a number.

**Abstract specification.** `FileStore` is one store in which every operation
takes effect at once; unlinking is two steps, the name and then the extent, as
`fuse.cc` orders them. The mapping `View` takes the owner's dirty copy, else
the server's.

**Bounds.** Two clients, two files, the root and one more directory, two names
and five operations: enough to create, look up from the other client, write
at both, unlink, and use the inode after. Clients, names and file numbers are
symmetric; the properties are safety properties, for which symmetry is sound.
Deadlock is checked: two clients with nested locks never wait for each other.
When a file or directory number is asked for and none is left, the operation
ends (`NoNumber`), and `Done` marks the end of the operations; neither is code.

**Runs.** `FileOps`: caches keep to the locks (`Coherent`), no name without its
extent even between the two changes (`NoDangling`), and the refinement
(`ImplementsStore`).

**Proofs.** `FilesCoherent`, `FilesNoDangling`, `FilesAsOneStore` and
`FileTypeCorrect` hold for any clients, inodes, names and number of operations;
the only assumptions are those on the constants. TLC checked the invariant first,
on the instance of `FileOps`. Its parts:

* `LocksInv`: an operation that works on an inode has its lock, the client that has
  a lock in use owns it, and a kind of operation goes with files or directories.
* `CacheInv` is `Coherent` with the rules for the flags of `fileDetails`: what is
  removed is dirty, what is dirty is removed or exists. They make `fileGetter` and
  `flush` invisible, that is leave `View` as it is (`FetchChange`,
  `DoreleaseChange`), and make a put or a remove change `View` in one place.
* `ReleasingInv`: a lock that is being released is owned, in nobody's use, and its
  owner caches nothing under it, so that the release itself changes nothing that
  anybody sees (`ReleasedChange`).
* `NamesInv` speaks of `View` only. `Known` are the numbers handed out, except those
  of creates and mkdirs that have not yet made their extent; all else (extents,
  entries, kernels) uses known numbers (`KnownInv`), so a new extent is not there
  and has no name. An inode has one name (`UniqueInv`), so once unlink has struck
  it no name is left (`UnlinkInv`) and removing the extent leaves none dangling.
  That the name is still free when create enters it (`CreateInv`) rests on the
  directory's lock, held from the look to the put.

`NamesShrink` is the lemma behind most steps: a step after which every entry is one
of before, at another position perhaps, keeps all of this. `StrikeEntries` and
`EnterEntries` say what happens to the positions. Each step then maps to one step
of `FileStore` or to none: the reads, locks and flushes to none, a write, an entry
made or struck, and a removal to the step of that name. For the types,
`CountInv` bounds the writes a file holds by the operations begun that are over.

## Joining, views and the primary

`RsmView` is rsm, config's heartbeats and the log transfer of a join, over an
acceptor and proposer whose rounds are one step each; what can happen inside a
round is the subject of `Paxos`.

**State.** Per node: the acceptor's `instance_h`, `values` and vote, what the log
holds of them, config's `myvid`, rsm's `primary`, and where its threads are: the
recovery thread `rec`, the heartbeater `hb`, the handler of joinreq `jr`. `stuck`
says that `cfg_mutex` is held by a thread that waits for ever.

**Actions.** `joinreq` holds `rsm_mutex` from its first step to `AddDone`, over
`add`, which is a run of Paxos; `commit_change` needs the mutex. `run` can be
refused because another run is under way, lost for want of answers, won, or end
in an oldinstance answer, whose commit makes its upcall under the proposer's
mutex. `paxos_commit` and `commit_change` are separate steps of the upcall.
`mems` is config's own copy of the view: only `paxos_commit` and `reconstruct` set
it, so it may differ from what the acceptor has for `myvid`. `restore` replaces the
joiner's log, promises and votes by the primary's. The dump for it and the restore
are one step: the answer of a joinreq is not on its way, in the code both nodes may
move on meanwhile (a log in flight made the state space too large for the run).
`heartbeater` is a round that ends with a node to be removed, be it down, slow
(a fault), in another view, or hung; `heartbeat_aborts` is the assertion of
`config.cc:308`.

**Bounds.** Two nodes, four instances, three rounds of Paxos, one fault (a crash
or a heartbeat lost at a live node): the second node joins, is thrown out and
joins again. A node is started once; a restart was checked without liveness.

**Run.** `RsmView`: the recovery thread does not sleep when the node has been thrown
out, and every committed view reaches rsm (`UpcallsReachRsm`) unless the upcall is
the one that `prepare` makes under the proposer's mutex. That exception is part of
the property because the code has three cycles there: the upcall waits for
`rsm_mutex`, whose holder joinreq waits for the proposer, for its own run, or,
through a heartbeat that holds `cfg_mutex`, for the proposer's mutex. `rsm.cc:78-79`
has the rule that a module releases its locks before it upcalls; `paxos.cc:192`
commits with the proposer's mutex held.

**Proofs.** All but the liveness of the run is proved. `RecoveryIsWoken` states
`RecoveryWillWake` for any nodes and bounds. It does not depend on what the views
are, so the invariant (`Inv`) adds only that every variable has a value for every
node. Every step but `recovery` leaves at each node what its recovery thread waits
for, or wakes it, or leaves a change that `commit_change` is still to be told of.

`RsmViewTypeCorrect` states `TypeOK`. The invariant adds that a joinreq under way has a
caller, since `add` appends it to the view. The proof rests on three lemmas: what the
loop of `remove_wo` keeps of a view is a view (`WithoutIsView`; that the recursive
function exists, and its type, each by a least counterexample), a majority of a view is
somebody (`MajorityIsSomebody`), and of the answers to `prepare` one has the highest
vote (`HighestVote`), so the value that `accept` goes on with is a view. `TypeOK`
gives the length of a view no bound: an acceptor that lags may hold a vote for a
longer, later view, so the bound by the number of instances is not inductive. The
assumption asks for `MaxView` of at least one, because the first node enters view 1
when it starts.

**Fairness.** Handlers, upcalls and calls of the proposer are weakly fair: each
call times out. `commit_change` is strongly fair: between two joinreqs that hold
`rsm_mutex` it is free, and a node that was refused sleeps for 30 seconds
(`rsm.cc`, `recovery`), so a waiting thread gets it. Joins, heartbeats and crashes
need not happen.

**Promises the code does not keep**, stated at the end of the module; TLC
refutes each of them with two nodes, two starts, two faults, five instances and
four rounds:

* `OnePrimary`: two nodes of one view both take themselves for its primary. A
  restarted node's primary is its first node again (`reconstruct` makes no upcall
  to rsm), a joining node never runs `set_primary`, and each node goes by its own
  history of views. `rsm.cc:16` says "there will be always one primary".
* `ViewAgreement`: `restore` forgets promises and votes the joiner had made, so two
  views can be committed for one number.
* `HistoryComplete`: `config.cc:33` promises "a complete history"; a node that
  missed a decide commits the next instance.

Also met: a member can be listed twice in a view (a node that is thrown out only
in its own view asks again), the assertions in `set_primary` fail where the
history has a hole, and `set_primary` takes the first in vector order where its
comment says the lowest number.

## Transport

`Transport` is one process: its PollMgr thread, its accepting thread, workers of
the server's pool and callers of one rpcc, over connection objects, descriptors
that the kernel gives out again, and the job queue.

**State.** `conn` are the connection objects with the fields of the class (a
deleted one is `freed`), `callbacks`, `rfds`, `wfds`, `pending` and `pipe` are
PollMgr's and SelectAIO's, `conns`, `saved` and `chan` the tables that own
references. A pdu is two units, the first its size, so that both reads and writes
can be partial.

**Actions.** The loop is copy, select, then one callback at a time: `LoopRead`
and `LoopWrite` call the connection that is registered at that moment, as the
code does. `send` is one step up to each of its waits (`SendWaitsTurn`,
`SendWrites`, `SendCompletes`, `block_remove_fd`). `got_pdu` takes a reference,
queues the job or gives the reference back. `Dispatch` and `Latest` are the parts
of `dispatch` that exchange and drop references; `Call` is `get_refconn`,
`Destroy` is `~rpcc`.

**Bounds.** Two descriptors, two connections, two workers, a queue of one job,
one pdu per connection, one call that connects. Two calls, so that the second
finds a live channel, were checked once (6.7 million states, too long to keep as
a run), with the same result.

**Run.** `Transport`: references are counted for everyone who can still use a
connection; a read callback reaches the connection select was asked about; two
pdus are never mixed; whoever sleeps in `send` or `block_remove_fd` has someone
who will wake it. A safety run: it stops when the peers have nothing to send.

**Proofs.** All five invariants of the run are theorems, for any connections,
descriptors, pdu length, queue size and bounds and any finite set of threads. They
rest on `TransportIInv`, which TLC checked on the instance of the run first:

* `ObjectsInv`: an open object has a descriptor that is open and nobody else's; one
  that is not open has no references.
* `CountInv`: whoever keeps a pointer is counted. `got_pdu`, `dispatch`,
  `get_refconn`, the accepting thread and `decref` each move a pointer and a count;
  `Recount` and `Recounted` do that bookkeeping once for all of them.
* `PollInv`: PollMgr's callback of a descriptor is an open connection on that very
  descriptor, and if it is dead there is a thread in `block_remove_fd` for it. So
  the last reference never goes while PollMgr knows the connection
  (`DeadUnregistered`), and a descriptor that is given out again has no callback.
* `WorkersInv`: what a thread's place implies; a thread that waits in
  `block_remove_fd` has its descriptor out of SelectAIO's sets, and once the
  wait is over out of the loop's copy.
* `LoopInv`: every descriptor the loop has in hand to read has the callback that
  was registered when the sets were copied. This is what `FreshRead` needs and
  cannot say itself, since it speaks of the next descriptor only.

Steps are proved in three groups: those that exchange references and objects
(`ExchangeKeeps`, `TurnKeeps`), the callbacks of the loop on one live connection
(`CallbackKeeps`), and the waits of `send` (`WriterStarts`, `FinishKeeps`).
Nothing like `FreshRead` is claimed of `write_cb`: a `read_cb` earlier in the same
round may have taken the connection out without waiting for the loop, and its
descriptor may be in use again when the loop comes to write.

**Met in the code.** These are in the model as they are:

* `write_cb` asserts that the connection is alive (`connection.cc:155`), but
  `read_cb` in the same round of the loop, or a `send` that failed, may have
  set `dead_`: the assertion fails and the process ends (`aborted`).
* `readpdu` looks at `errno` after a read that returned 0 (`connection.cc:267`);
  with an `EAGAIN` left from before, the end of the stream is taken for no data
  and the loop reads for ever.
* The answer to a request of another server instance returns without dropping
  the job's reference (`rpc.cc:495-503`): the connection is never deleted.
* The accepting thread erases the iterator it goes on using
  (`connection.cc:360`).

## The plain lock server

`LockPlain` is the lock server of `lab22/`, whose `acquire` waits in its handler,
on a thread pool over a bounded queue, and lock_tester as its clients.

**Actions.** Every use of the iterator `it`, which all handlers share, is a step
of its own: `acquire` sets it under `mutex_` and uses it after `mutex_` is free.
`enq` blocks or refuses when the queue is full; `deq` and `enq` signal one sleeper.
`Shutdown`, `PushPill` and `Join` are the destructor of the pool. The tester's
threads run their scripts: its first thread runs `test1` alone, then all run the
same round; `check_grant` and `check_release` are its checks; `lock_demo` asks for
`stat` meanwhile.

**Bounds.** Three threads, three workers, two locks, a queue of one: the queue is
full and all but one worker may be blocked in acquires. The tester's scripts are
shortened: a nested pair of locks in `test1`, then one or two rounds where
`lock_tester.cc` has ten; the theorems allow any number. Workers and handlers do not
wake up without a signal.

**Run.** `LockPlain`: no check fails; while a worker sleeps, every queued job has a
worker that is on its way to the queue (`JobsWakeWorkers`); and all threads and
workers finish. `JobsWakeWorkers` is about a queue that holds several jobs while several
workers sleep; the run's queue holds one, the theorem any number.

**Proofs.** `PlainTypeCorrect`, which bounds the queue by `max_` and the pills by the
number of workers, and `PlainJobsWakeWorkers` hold for any threads, scripts, locks,
queue size and finite pool. `JobsWakeWorkers` counts: a worker sleeps only on an
empty queue, one that leaves the queue takes a job with it, and an enq that adds one
wakes a sleeper if there is any. That all workers are not asleep would not be
inductive: a worker may take the last job just before the next goes to sleep. What
has to be added to types and count is only what a worker's place says of its job and
of the mutex it locks.

`ChecksPass` is false for scripts in general (below): `TesterChecksPass` states it
for the scripts of lock_tester and lock_demo, on any set of locks and for any number
of threads, workers and places of the queue. It rests on two lemmas. `TesterProper`:
those scripts are `Proper`, that is, they take locks in turn, only the leader's
prologue, alone, uses two locks, the operations after it are on one lock, and a
thread takes its count back before it releases (TLC evaluates this on the scripts of
the run, `MCTester`). `ProperChecksPass`: with such scripts no check fails. Neither
says anything of the case in which the shared iterator matters, two locks in use at
a time: the server allows it, and there `ChecksPass` fails. The inductive invariant
is `ServiceInv`, checked by TLC on the run's instance first:

* `CallsInv`: a thread that waits has one job at most, in the queue or with a
  worker, and it is the call it began last.
* `HoldInv`: a call has its effect when `granted` is set, before it is answered;
  `Effective` counts the script up to there. A lock held in that sense is
  granted, and to one thread. Then the tester's count of holders follows from the
  scripts alone (`CountsInv`).
* `HandlersInv`: a handler that is going to use `it` finds its own lock there.
  This is where one lock at a time is needed: release moves `it` without
  `mutex_`, and every acquire under way moves it too, but to the same lock
  (`AloneInv`: while the prologue uses two locks, nobody else has begun).

**Fairness.** Workers, the tester's threads and the destructor are weakly fair.

**Met in the code.** With as many waiting acquires as workers, the release they
wait for finds no worker, and all wait for each other: two workers and three
threads deadlock. `lock_tester.cc:16` knows: with "a thread pool of 10 threads, we
cannot test more than 10 blocking rpc". With two
locks in use at the same time, the shared iterator lets one handler grant or
release the other's lock and `ChecksPass` fails; the tests use one lock at a time
in their concurrent part.

## Marshalling

`Wire` has buffers byte by byte, because the properties are about bytes: growth,
headers, the operators for integers, strings, vectors and structures, `okdone`, and
the templates of `rpcc::call` and `rpcs::reg`. A byte has four values and a new
buffer 26 bytes, so integers of the real widths stay small and every call makes
the buffer grow. The calls are those of the programs and of rpctest; `testmarshall`
of rpctest is evaluated as an assumption of `MCWire`.

Besides, there are calls whose caller and handler disagree on the types.

**Run.** `Wire`: two threads call, requests are run and replies come back in any
order. No byte lies beyond a buffer's capacity (`BuffersOK`). `AnswerMatches`: a
handler that runs has the bytes its caller sent for its arguments, the caller gets
the bytes of the answer to its own call, and a failure is reported only where the
types differ. It does not say that a difference is always reported, because it is
not: the types are agreed on by convention and not sent, so an int 0 that the
caller reads as a string is the empty string, without a failure.

**Met in the code.** `~lock_client_cache` calls release with two arguments
(`lock_client_cache.cc:69-70`) where the handler takes three, so every answer is
`unmarshal_args_failure` and the destructor's loop never ends. A request for a
procedure that is not registered is not answered.

## The file service without cache

`YfsPlain` is the file service of `lab22/`: directories as strings
`name=number;...`, character by character, one step per call of the extent server
and per half of a handler, since the extent server too has one iterator for all its
threads. A client may die at any point and be started again.

**Bounds.** One client, two names of which one begins with the other and looks like
a number, four numbers of one and two digits, five operations, one death, and a
kernel buffer that holds one entry and not two, so that readdir goes in pieces.

**Run.** `YfsPlain`: lookup and readdir tell what was entered (`AnswersRight`), and
an entry is made in one step and never without its extent (`EntersOne`). A safety
run; it ends with the last operation.

**Met in the code.** Two clients lose each other's entries, since nothing locks a
directory from its get to its put, and the shared iterator can put one's data into
the other's extent. Names are found with `find(name + "=")` (`lab22/fuse.cc:156`,
the same in `fuse.cc:217-219`), so "b" is found at the end of "ab": create says
EXIST and lookup gives the wrong file, and `fuse.cc`'s unlink would damage the
entry. The instance has no such names.

## Only model-checked

Liveness and what depends on ENABLED is outside the prover: `RunReturns`,
`ConfigLearns`, `AcquireReturns`, `RetrySent`, `UpcallsReachRsm`, `AllFinish`.
`Wire` and `YfsPlain` have no proofs: they compute on sequences byte by byte, mostly
with folds over an operator, and what such a loop computes for every input is
induction over data. (The one loop of `RsmView`, `without`, is a recursive function
whose type alone is needed.) Sequence numbers and instance numbers are unbounded in
the models; that they wrap at 2^32 is not reached.

## Not modelled, and the plan

In this order:

1. Agreement for any number of instances under an assumption that no acceptor lags.
2. handle_mgr's table: its mutex is held across `bind`, up to a second; a `bind`
   that fails leaks the client; a handle that is deleted in use is only marked.
3. Offsets of read, write and setattr in `FileCache`; subscription of lock
   clients, during which the server's mutex is held across a call to the client;
   torn log records (`log.cc` says "XXX should be an atomic operation").

Left out for good: rsm_client and the other stubs of the replicated state
machine, which do nothing at this commit; EPollAIO, which is not used; clocks and
logging; the mains; the older copies in `rr/` and `lab22/` of files modelled here.
