----------------------------- MODULE FileStore -----------------------------
(***************************************************************************)
(* What the file service promises: one store of extents, which every       *)
(* client reads and writes as if there were no caches.  An operation works *)
(* on the latest contents, makes its changes at once, and an extent goes   *)
(* only when no directory names it any more.                               *)
(***************************************************************************)
EXTENDS Integers, Sequences

CONSTANTS
    File, Dir, \* inode numbers with and without the bit of yfs_client::isfile
    Name       \* file names

VARIABLES
    store,     \* per inode number: whether the extent exists, and its contents
    unlinked   \* extents struck from their directory and to be removed

Inum == File \cup Dir

\* Contents: a file's stand for the number of writes it holds, a directory's
\* are its entries in order.  An extent that does not exist reads as empty.
Empty == [writes |-> 0, entries |-> <<>>]
Absent == [there |-> FALSE, content |-> Empty]
Extent(v) == [there |-> TRUE, content |-> v]

Written(v) == [v EXCEPT !.writes = @ + 1]

Names(v) == {v.entries[k].name : k \in DOMAIN v.entries}
Inums(v) == {v.entries[k].ino : k \in DOMAIN v.entries}

\* The position of the first entry of that name (std::string::find).
Find(v, n) == CHOOSE k \in DOMAIN v.entries :
                 /\ v.entries[k].name = n
                 /\ \A j \in DOMAIN v.entries : v.entries[j].name = n => k <= j

Enter(v, n, i) == [v EXCEPT !.entries = Append(@, [name |-> n, ino |-> i])]

Strike(v, n) ==
    LET k == Find(v, n) IN
    [v EXCEPT !.entries = SubSeq(@, 1, k - 1) \o SubSeq(@, k + 1, Len(@))]

StoreInit == store = [i \in Inum |-> Absent] /\ unlinked = {}

Write(i) ==
    /\ store' = [store EXCEPT ![i] = Extent(Written(@.content))]
    /\ UNCHANGED unlinked

Truncate(i) ==
    /\ store' = [store EXCEPT ![i] = Extent(Empty)]
    /\ UNCHANGED unlinked

Create(p, n, i) ==
    /\ ~store[i].there
    /\ n \notin Names(store[p].content)
    /\ store' = [store EXCEPT ![i] = Extent(Empty),
                              ![p] = Extent(Enter(@.content, n, i))]
    /\ UNCHANGED unlinked

MakeDir(p, n, i) ==
    /\ ~store[i].there
    /\ store' = [store EXCEPT ![i] = Extent(Empty),
                              ![p] = Extent(Enter(@.content, n, i))]
    /\ UNCHANGED unlinked

Unname(p, n) ==
    /\ n \in Names(store[p].content)
    /\ store' = [store EXCEPT ![p] = Extent(Strike(@.content, n))]
    /\ unlinked' = unlinked \cup
          {store[p].content.entries[Find(store[p].content, n)].ino}

Remove(i) ==
    /\ i \in unlinked
    /\ \A d \in Dir : i \notin Inums(store[d].content)
    /\ store' = [store EXCEPT ![i] = Absent]
    /\ unlinked' = unlinked \ {i}

StoreNext ==
    \/ \E i \in File : Write(i) \/ Truncate(i)
    \/ \E i \in Inum : Remove(i)
    \/ \E p \in Dir, n \in Name :
         \/ \E i \in File : Create(p, n, i)
         \/ \E i \in Dir \ {p} : MakeDir(p, n, i)
         \/ Unname(p, n)

StoreSpec == StoreInit /\ [][StoreNext]_<<store, unlinked>>
=============================================================================
