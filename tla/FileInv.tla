------------------------------ MODULE FileInv ------------------------------
(***************************************************************************)
(* The inductive invariant of FileCache.  Its parts speak of the caches    *)
(* and locks on the one hand and, on the other, of the extents as the      *)
(* clients see them (View): which exist, which are named, and what the     *)
(* operations that hold two locks have found or chosen.                    *)
(***************************************************************************)
EXTENDS FileCache, FiniteSets

Entry == [name : Name, ino : Inum]
AnyContent == [writes : Nat, entries : Seq(Entry)]
AnyExtent == [there : BOOLEAN, content : AnyContent]
AnyDetails == [cached : BOOLEAN, isDirty : BOOLEAN, removed : BOOLEAN,
               exist_in_server : BOOLEAN, content : AnyContent]

\* The types of the variables, with any number of writes.
Shape ==
    /\ ext \in [Inum -> AnyExtent]
    /\ cache \in [Client -> [Inum -> AnyDetails]]
    /\ owner \in [Inum -> Client \cup {NoOne}]
    /\ held \in [Client -> SUBSET Inum]
    /\ at \in [Client -> {"idle", "first", "look", "second", "do"}]
    /\ op \in [Client -> Operation]
    /\ seen \in [Client -> SUBSET Inum]
    /\ used \subseteq Inum
    /\ ops \in 0..MaxOps

\* An operation owns the locks it is in, and is in those of the inodes it is
\* about to read or change; the kind goes with the inode.
LocksInv ==
    /\ \A c \in Client : \A i \in held[c] : owner[i] = c
    /\ \A c \in Client :
         /\ at[c] \in {"look", "second", "do"} => op[c].ino \in held[c]
         /\ at[c] \in {"look", "second"} => op[c].kind \in TwoLocks
         /\ at[c] = "do" /\ op[c].kind \in TwoLocks => op[c].child \in held[c]
         /\ at[c] = "idle" => op[c] = NoOperation
         /\ op[c].kind \in {"write", "setattr"} => op[c].ino \in File
         /\ op[c].kind \in TwoLocks => op[c].ino \in Dir /\ op[c].name \in Name

\* The flags of a cached extent go together, and an extent that does not exist
\* is empty.
FlagsInv ==
    /\ \A i \in Inum : ext[i].there \/ ext[i].content = Store!Empty
    /\ \A c \in Client, i \in Inum :
         /\ cache[c][i].cached \/ cache[c][i] = NotCached
         /\ cache[c][i].removed => cache[c][i].isDirty
         /\ cache[c][i].isDirty => cache[c][i].removed \/ cache[c][i].exist_in_server

CacheInv == Coherent /\ FlagsInv

\* A lock on its way back still belongs to a client, no operation holds it, and
\* nobody has the extent cached any more.
ReleasingInv ==
    /\ releasing \subseteq Inum
    /\ \A i \in releasing :
         /\ owner[i] # NoOne
         /\ \A c \in Client : i \notin held[c] /\ cache[c][i] = NotCached

-----------------------------------------------------------------------------
(* Names and numbers, in terms of View                                     *)

Creating(c) == op[c].kind \in {"create", "mkdir"} /\ at[c] \in {"second", "do"}
Unlinking(c) == op[c].kind = "unlink" /\ at[c] \in {"second", "do"}

\* Numbers handed out to an operation that has not yet made its extent.
New == {op[c].child : c \in {d \in Client : Creating(d)}}
Known == used \ New

\* Only known numbers belong to an extent, to a directory entry or to a kernel.
KnownInv ==
    /\ Root \in Known
    /\ \A i \in Inum : View[i].there => i \in Known
    /\ \A d \in Dir : Store!Inums(View[d].content) \subseteq Known
    /\ \A c \in Client :
         /\ seen[c] \subseteq Known
         /\ op[c].ino \in Known
         /\ op[c].child \in used
         /\ ~ Creating(c) => op[c].child \in Known
    /\ \A c, d \in Client :
         Creating(c) /\ Creating(d) /\ op[c].child = op[d].child => c = d

\* No inode has two names.
UniqueInv ==
    \A d, e \in Dir :
      \A j \in DOMAIN View[d].content.entries, k \in DOMAIN View[e].content.entries :
        View[d].content.entries[j].ino = View[e].content.entries[k].ino
          => d = e /\ j = k

\* What create found, that the name is free, stays true; mkdir does not look.
CreateInv ==
    \A c \in Client :
      /\ Creating(c) /\ op[c].kind = "create" =>
           /\ op[c].child \in File
           /\ op[c].name \notin Store!Names(View[op[c].ino].content)
      /\ Creating(c) /\ op[c].kind = "mkdir" => op[c].child \in Dir

\* What unlink has struck has no name any more, and one unlink has struck it.
UnlinkInv ==
    /\ \A c \in Client, d \in Dir :
         Unlinking(c) => op[c].child \notin Store!Inums(View[d].content)
    /\ \A c, d \in Client :
         Unlinking(c) /\ Unlinking(d) /\ op[c].child = op[d].child => c = d

NamesInv == NoDangling /\ KnownInv /\ UniqueInv /\ CreateInv /\ UnlinkInv

FileInvariant == Shape /\ LocksInv /\ CacheInv /\ NamesInv

-----------------------------------------------------------------------------
\* A file has not been written more often than writes were begun, not counting
\* those under way.
Busy == {c \in Client : at[c] # "idle"}

CountInv ==
    /\ IsFiniteSet(Busy)
    /\ \A i \in Inum : ext[i].content.writes + Cardinality(Busy) <= ops
    /\ \A c \in Client, i \in Inum :
         cache[c][i].content.writes + Cardinality(Busy) <= ops
=============================================================================
