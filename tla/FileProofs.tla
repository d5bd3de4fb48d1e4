----------------------------- MODULE FileProofs -----------------------------
(***************************************************************************)
(* Proofs about FileCache for any clients, inodes, names and bounds: the   *)
(* caches are coherent, no directory names an extent that does not exist,  *)
(* and the service behaves as the one store of FileStore.                  *)
(***************************************************************************)
EXTENDS FileInv, TLAPS, FiniteSetTheorems, SequenceTheorems, WellFoundedInduction

-----------------------------------------------------------------------------
(* Contents                                                                *)

LEMMA EmptyContent ==
  /\ Store!Empty \in AnyContent
  /\ DOMAIN Store!Empty.entries = {}
  /\ Store!Inums(Store!Empty) = {} /\ Store!Names(Store!Empty) = {}
  /\ Store!Empty.writes = 0
BY DEF Store!Empty, AnyContent, Store!Inums, Store!Names

LEMMA EmptyTypes ==
  /\ Store!Absent \in AnyExtent
  /\ NotCached \in AnyDetails
  /\ Store!Absent = [there |-> FALSE, content |-> Store!Empty]
BY EmptyContent DEF Store!Absent, AnyExtent, NotCached, AnyDetails

LEMMA ExtentType ==
  ASSUME NEW v \in AnyContent
  PROVE  /\ Store!Extent(v) \in AnyExtent
         /\ Store!Extent(v).there
         /\ Store!Extent(v).content = v
BY DEF Store!Extent, AnyExtent

LEMMA WrittenContent ==
  ASSUME NEW v \in AnyContent
  PROVE  /\ Store!Written(v) \in AnyContent
         /\ Store!Written(v).writes = v.writes + 1
         /\ Store!Written(v).entries = v.entries
BY DEF Store!Written, AnyContent

\* Every set of natural numbers that is not empty has a least one.
LEMMA LeastNumber ==
  ASSUME NEW T, T \subseteq Nat, T # {}
  PROVE  \E x \in T : \A y \in T : x <= y
<1> DEFINE R == OpToRel(<, Nat)
<1>1. IsWellFoundedOn(R, Nat)
  BY NatLessThanWellFounded
<1>2. PICK x \in T : \A y \in T : ~ (<<y, x>> \in R)
  BY <1>1, WFMin
<1>3. ASSUME NEW y \in T PROVE x <= y
  <2>1. x \in Nat /\ y \in Nat
    OBVIOUS
  <2>2. ~ (y < x)
    BY <1>2, <2>1 DEF OpToRel
  <2>3. QED BY <2>1, <2>2
<1>4. QED BY <1>3

\* Find returns the position of an entry of that name.
LEMMA FindFirst ==
  ASSUME NEW v \in AnyContent, NEW n \in Store!Names(v)
  PROVE  /\ Store!Find(v, n) \in DOMAIN v.entries
         /\ v.entries[Store!Find(v, n)].name = n
         /\ v.entries[Store!Find(v, n)].ino \in Store!Inums(v)
         /\ v.entries[Store!Find(v, n)].ino \in Inum
<1> DEFINE T == {k \in DOMAIN v.entries : v.entries[k].name = n}
<1>1. v.entries \in Seq(Entry) /\ DOMAIN v.entries = 1 .. Len(v.entries)
  BY DEF AnyContent
<1>2. T \subseteq Nat /\ T # {}
  BY <1>1 DEF Store!Names
<1>3. \E k \in T : \A j \in T : k <= j
  BY <1>2, LeastNumber
<1>4. \E k \in DOMAIN v.entries :
        /\ v.entries[k].name = n
        /\ \A j \in DOMAIN v.entries : v.entries[j].name = n => k <= j
  BY <1>3
<1>5. Store!Find(v, n) \in DOMAIN v.entries /\ v.entries[Store!Find(v, n)].name = n
  BY <1>4 DEF Store!Find
<1>6. v.entries[Store!Find(v, n)] \in Entry
  BY <1>1, <1>5
<1>7. QED BY <1>5, <1>6 DEF Store!Inums, Entry

\* Strike takes one entry out and moves those after it.
LEMMA StrikeEntries ==
  ASSUME NEW v \in AnyContent, NEW n \in Store!Names(v)
  PROVE  LET f == Store!Find(v, n)
             s == Store!Strike(v, n)
             from(k) == IF k < f THEN k ELSE k + 1
         IN  /\ s \in AnyContent
             /\ s.writes = v.writes
             /\ DOMAIN s.entries \subseteq Nat
             /\ \A k \in DOMAIN s.entries : /\ from(k) \in DOMAIN v.entries
                                            /\ from(k) # f
                                            /\ s.entries[k] = v.entries[from(k)]
<1> DEFINE f == Store!Find(v, n)
           s == Store!Strike(v, n)
           from(k) == IF k < f THEN k ELSE k + 1
           a == SubSeq(v.entries, 1, f - 1)
           b == SubSeq(v.entries, f + 1, Len(v.entries))
<1>1. v.entries \in Seq(Entry) /\ DOMAIN v.entries = 1 .. Len(v.entries)
      /\ Len(v.entries) \in Nat /\ v.writes \in Nat
  BY DEF AnyContent
<1>2. f \in 1 .. Len(v.entries)
  BY <1>1, FindFirst
<1>3. \A k \in 1 .. Len(v.entries) : v.entries[k] \in Entry
  BY <1>1
<1>4. a \in Seq(Entry) /\ Len(a) = f - 1 /\ \A k \in 1 .. f - 1 : a[k] = v.entries[k]
  BY <1>1, <1>2, <1>3
<1>5. /\ b \in Seq(Entry) /\ Len(b) = Len(v.entries) - f
      /\ \A k \in 1 .. Len(v.entries) - f : b[k] = v.entries[f + k]
  BY <1>1, <1>2, <1>3
<1>6. s = [v EXCEPT !.entries = a \o b]
  BY DEF Store!Strike
<1> HIDE DEF a, b, s, f
<1>7. /\ a \o b \in Seq(Entry) /\ Len(a \o b) = Len(a) + Len(b)
      /\ \A k \in 1 .. Len(a) + Len(b) :
           (a \o b)[k] = IF k <= Len(a) THEN a[k] ELSE b[k - Len(a)]
  BY <1>4, <1>5, ConcatProperties
<1>8. s \in AnyContent /\ s.entries = a \o b /\ s.writes = v.writes
  BY <1>1, <1>6, <1>7 DEF AnyContent
<1>9. Len(a) + Len(b) = Len(v.entries) - 1
  BY <1>1, <1>2, <1>4, <1>5
<1>10. DOMAIN s.entries = 1 .. Len(v.entries) - 1
  BY <1>7, <1>8, <1>9
<1>11. ASSUME NEW k \in 1 .. Len(v.entries) - 1
       PROVE  from(k) \in DOMAIN v.entries /\ from(k) # f /\ s.entries[k] = v.entries[from(k)]
  <2>1. from(k) \in 1 .. Len(v.entries) /\ from(k) # f
    BY <1>1, <1>2
  <2>2. s.entries[k] = IF k <= Len(a) THEN a[k] ELSE b[k - Len(a)]
    BY <1>7, <1>8, <1>9
  <2>3. CASE k < f
    BY <1>1, <1>2, <1>4, <2>1, <2>2, <2>3
  <2>4. CASE ~ (k < f)
    <3> DEFINE r == k - Len(a)
    <3>1. r \in 1 .. Len(v.entries) - f /\ f + r = k + 1 /\ ~ (k <= Len(a))
      BY <1>1, <1>2, <1>4, <2>4
    <3> HIDE DEF r
    <3>2. b[r] = v.entries[k + 1]
      BY <1>5, <3>1
    <3>3. s.entries[k] = b[r]
      BY <2>2, <3>1 DEF r
    <3>4. QED BY <1>1, <2>1, <2>4, <3>2, <3>3
  <2>5. QED BY <2>3, <2>4
<1>12. DOMAIN s.entries \subseteq Nat
  BY <1>10
<1> HIDE DEF from
<1>13. QED
  BY <1>8, <1>10, <1>11, <1>12 DEF f, s, from

\* Enter adds one entry at the end.
LEMMA EnterEntries ==
  ASSUME NEW v \in AnyContent, NEW n \in Name, NEW i \in Inum
  PROVE  LET s == Store!Enter(v, n, i)
             e == Len(v.entries) + 1
         IN  /\ s \in AnyContent
             /\ s.writes = v.writes
             /\ e \notin DOMAIN v.entries
             /\ DOMAIN s.entries = DOMAIN v.entries \cup {e}
             /\ s.entries[e] = [name |-> n, ino |-> i]
             /\ \A k \in DOMAIN v.entries : s.entries[k] = v.entries[k]
<1> DEFINE s == Store!Enter(v, n, i)
           x == [name |-> n, ino |-> i]
           e == Len(v.entries) + 1
<1>1. v.entries \in Seq(Entry) /\ Len(v.entries) \in Nat /\ v.writes \in Nat
      /\ DOMAIN v.entries = 1 .. Len(v.entries)
  BY DEF AnyContent
<1>2. x \in Entry
  BY DEF Entry
<1>3. s = [v EXCEPT !.entries = Append(@, x)]
  BY DEF Store!Enter
<1>4. Append(v.entries, x) \in Seq(Entry) /\ Len(Append(v.entries, x)) = e
      /\ Append(v.entries, x)[e] = x
      /\ \A k \in 1 .. Len(v.entries) : Append(v.entries, x)[k] = v.entries[k]
  BY <1>1, <1>2
<1>5. s \in AnyContent /\ s.writes = v.writes /\ s.entries = Append(v.entries, x)
  BY <1>1, <1>3, <1>4 DEF AnyContent
<1>6. DOMAIN s.entries = 1 .. e
  BY <1>4, <1>5
<1>7. 1 .. e = (1 .. Len(v.entries)) \cup {e} /\ e \notin 1 .. Len(v.entries)
  BY <1>1
<1> HIDE DEF s, x, e
<1>8. QED
  BY <1>1, <1>4, <1>5, <1>6, <1>7 DEF s, x, e
-----------------------------------------------------------------------------
(* The extents as clients see them                                         *)

USE RootAssumption, NoOneAssumption, MaxOpsAssumption

LEMMA FlushedType ==
  ASSUME Shape, NEW e \in AnyDetails, NEW i \in Inum
  PROVE  Flushed(e, i) \in AnyExtent
BY EmptyTypes, ExtentType DEF Shape, Flushed, AnyDetails

LEMMA ViewType ==
  ASSUME Shape
  PROVE  /\ View \in [Inum -> AnyExtent]
         /\ \A i \in Inum : View[i].content \in AnyContent /\ View[i].there \in BOOLEAN
<1>1. ASSUME NEW i \in Inum
      PROVE  (IF owner[i] = NoOne THEN ext[i] ELSE Flushed(cache[owner[i]][i], i)) \in AnyExtent
  BY FlushedType DEF Shape
<1>2. View \in [Inum -> AnyExtent]
  BY <1>1 DEF View
<1>3. QED BY <1>2 DEF AnyExtent

LEMMA ViewOwned ==
  ASSUME Shape, NEW c \in Client, NEW i \in Inum, owner[i] = c
  PROVE  View[i] = Flushed(cache[c][i], i)
BY DEF View

\* What an entry of the owner's cache is, unless it is not cached.
GoodEntry(i, e) ==
    /\ e \in AnyDetails
    /\ e.cached
    /\ e.removed => e.isDirty
    /\ e.isDirty => e.removed \/ e.exist_in_server
    /\ e.isDirty \/ /\ e.exist_in_server = ext[i].there
                    /\ e.content = ext[i].content

LEMMA OwnedEntry ==
  ASSUME Shape, CacheInv, NEW c \in Client, NEW i \in Inum, cache[c][i].cached
  PROVE  GoodEntry(i, cache[c][i]) /\ owner[i] = c
<1>1. cache[c][i] \in AnyDetails
  BY DEF Shape
<1>2. QED BY <1>1 DEF CacheInv, Coherent, FlagsInv, GoodEntry

\* fileGetter changes nothing that a client can see, and returns what it sees.
LEMMA FetchedEntry ==
  ASSUME Shape, CacheInv, NEW c \in Client, NEW i \in Inum, owner[i] = c
  PROVE  /\ Fetched(cache[c], i) \in [Inum -> AnyDetails]
         /\ \A j \in Inum \ {i} : Fetched(cache[c], i)[j] = cache[c][j]
         /\ GoodEntry(i, Fetched(cache[c], i)[i])
         /\ Flushed(Fetched(cache[c], i)[i], i) = View[i]
         /\ Got(cache[c], i) = View[i].content
<1> DEFINE m == cache[c]
           e == Fetched(m, i)[i]
<1>1. m \in [Inum -> AnyDetails] /\ m[i] \in AnyDetails /\ ext[i] \in AnyExtent
  BY DEF Shape
<1>2. View[i] = Flushed(m[i], i)
  BY ViewOwned
<1>3. \A j \in Inum \ {i} : Fetched(m, i)[j] = m[j]
  BY <1>1 DEF Fetched
<1>4. e = IF m[i].cached
          THEN [m[i] EXCEPT !.isDirty = @ \/ (m[i].exist_in_server /\ ~m[i].removed)]
          ELSE [NotCached EXCEPT !.cached = TRUE, !.exist_in_server = ext[i].there,
                                 !.content = ext[i].content]
  <2> DEFINE d == IF m[i].cached
                  THEN [m[i] EXCEPT !.isDirty = @ \/ (m[i].exist_in_server /\ ~m[i].removed)]
                  ELSE [NotCached EXCEPT !.cached = TRUE, !.exist_in_server = ext[i].there,
                                         !.content = ext[i].content]
  <2>1. Fetched(m, i) = [m EXCEPT ![i] = d]
    BY <1>1 DEF Fetched
  <2> HIDE DEF d, m
  <2>2. e = d
    BY <1>1, <2>1
  <2>3. QED BY <2>2 DEF d
<1>5. ext[i] = [there |-> ext[i].there, content |-> ext[i].content]
      /\ (ext[i].there \/ ext[i].content = Store!Empty)
  BY <1>1 DEF AnyExtent, CacheInv, FlagsInv
<1>6. e \in AnyDetails
  BY <1>1, <1>4, EmptyTypes DEF AnyDetails, AnyExtent, NotCached
<1>7. Fetched(m, i) \in [Inum -> AnyDetails]
  <2>1. Fetched(m, i) = [m EXCEPT ![i] = e]
    BY <1>1 DEF Fetched
  <2>2. QED BY <1>1, <1>6, <2>1
<1>8. CASE m[i].cached
  <2>1. GoodEntry(i, m[i])
    BY <1>8, OwnedEntry
  <2>2. /\ e.cached /\ e.removed = m[i].removed
        /\ e.exist_in_server = m[i].exist_in_server /\ e.content = m[i].content
        /\ e.isDirty = (m[i].isDirty \/ (m[i].exist_in_server /\ ~m[i].removed))
    BY <1>1, <1>4, <1>8 DEF AnyDetails
  <2>3. GoodEntry(i, e)
    BY <1>6, <2>1, <2>2 DEF GoodEntry
  <2>4. Flushed(e, i) = Flushed(m[i], i)
    BY <1>5, <2>1, <2>2 DEF GoodEntry, Flushed, Store!Extent
  <2>5. Got(m, i) = View[i].content
    BY <1>2, <1>5, <2>1, <2>2, EmptyTypes DEF GoodEntry, Flushed, Store!Extent, Got
  <2>6. QED BY <1>2, <1>3, <1>7, <2>3, <2>4, <2>5
<1>9. CASE ~ m[i].cached
  <2>1. m[i] = NotCached
    BY <1>9 DEF CacheInv, FlagsInv
  <2>2. e.cached /\ ~e.isDirty /\ ~e.removed
        /\ e.exist_in_server = ext[i].there /\ e.content = ext[i].content
    BY <1>4, <1>9 DEF NotCached
  <2>3. GoodEntry(i, e)
    BY <1>6, <2>2 DEF GoodEntry
  <2>4. Flushed(e, i) = ext[i] /\ View[i] = ext[i]
    BY <1>2, <2>1, <2>2 DEF Flushed, NotCached
  <2>5. Got(m, i) = View[i].content
    BY <1>5, <2>2, <2>4 DEF Got
  <2>6. QED BY <1>3, <1>7, <2>3, <2>4, <2>5
<1>10. QED BY <1>8, <1>9

\* put and remove of extent_client.
LEMMA PutEntry ==
  ASSUME NEW m \in [Inum -> AnyDetails], NEW i \in Inum, NEW v \in AnyContent
  PROVE  /\ Put(m, i, v) \in [Inum -> AnyDetails]
         /\ \A j \in Inum \ {i} : Put(m, i, v)[j] = m[j]
         /\ GoodEntry(i, Put(m, i, v)[i])
         /\ Flushed(Put(m, i, v)[i], i) = Store!Extent(v)
<1> DEFINE e == [cached |-> TRUE, isDirty |-> TRUE, removed |-> FALSE,
                 exist_in_server |-> TRUE, content |-> v]
<1>1. e \in AnyDetails /\ Put(m, i, v) = [m EXCEPT ![i] = e]
  BY DEF AnyDetails, Put
<1>2. /\ e.cached /\ e.isDirty /\ ~ e.removed
      /\ e.exist_in_server /\ e.content = v
  OBVIOUS
<1> HIDE DEF e
<1>3. Put(m, i, v)[i] = e
  BY <1>1
<1>4. GoodEntry(i, e) /\ Flushed(e, i) = Store!Extent(v)
  BY <1>1, <1>2 DEF GoodEntry, Flushed
<1>5. QED BY <1>1, <1>3, <1>4

LEMMA RemovedEntry ==
  ASSUME NEW m \in [Inum -> AnyDetails], NEW i \in Inum
  PROVE  /\ Removed(m, i) \in [Inum -> AnyDetails]
         /\ \A j \in Inum \ {i} : Removed(m, i)[j] = m[j]
         /\ GoodEntry(i, Removed(m, i)[i])
         /\ Flushed(Removed(m, i)[i], i) = Store!Absent
<1> DEFINE e == [NotCached EXCEPT !.cached = TRUE, !.isDirty = TRUE, !.removed = TRUE]
<1>1. e \in AnyDetails /\ Removed(m, i) = [m EXCEPT ![i] = e]
  BY EmptyContent DEF AnyDetails, Removed, NotCached
<1>2. e.cached /\ e.isDirty /\ e.removed
  BY DEF NotCached
<1> HIDE DEF e
<1>3. Removed(m, i)[i] = e
  BY <1>1
<1>4. GoodEntry(i, e) /\ Flushed(e, i) = Store!Absent
  BY <1>1, <1>2 DEF GoodEntry, Flushed
<1>5. QED BY <1>1, <1>3, <1>4

\* An operation changes entries of its client's cache, of extents it owns.
LEMMA CacheChange ==
  ASSUME Shape, CacheInv, NEW c \in Client, NEW m \in [Inum -> AnyDetails],
         UNCHANGED <<ext, owner>>, cache' = [cache EXCEPT ![c] = m],
         \A i \in Inum : m[i] = cache[c][i] \/ (owner[i] = c /\ GoodEntry(i, m[i]))
  PROVE  /\ cache' \in [Client -> [Inum -> AnyDetails]]
         /\ CacheInv'
         /\ View' = [i \in Inum |-> IF owner[i] = c THEN Flushed(m[i], i) ELSE View[i]]
<1>1. cache \in [Client -> [Inum -> AnyDetails]] /\ owner \in [Inum -> Client \cup {NoOne}]
  BY DEF Shape
<1>2. cache' \in [Client -> [Inum -> AnyDetails]]
  BY <1>1
<1>3. \A d \in Client, i \in Inum :
        cache'[d][i] = cache[d][i] \/ (d = c /\ owner[i] = c /\ GoodEntry(i, cache'[d][i]))
  BY <1>1
<1>4. Coherent'
  <2> SUFFICES ASSUME NEW d \in Client, NEW i \in Inum, cache'[d][i].cached
               PROVE  /\ owner[i] = d
                      /\ cache'[d][i].isDirty \/
                           /\ cache'[d][i].exist_in_server = ext[i].there
                           /\ cache'[d][i].content = ext[i].content
    BY DEF Coherent
  <2>1. CASE cache'[d][i] = cache[d][i]
    BY <2>1 DEF CacheInv, Coherent
  <2>2. CASE d = c /\ owner[i] = c /\ GoodEntry(i, cache'[d][i])
    BY <2>2 DEF GoodEntry
  <2>3. QED BY <1>3, <2>1, <2>2
<1>5. FlagsInv'
  <2>1. ASSUME NEW d \in Client, NEW i \in Inum
        PROVE  /\ cache'[d][i].cached \/ cache'[d][i] = NotCached
               /\ cache'[d][i].removed => cache'[d][i].isDirty
               /\ cache'[d][i].isDirty => cache'[d][i].removed \/ cache'[d][i].exist_in_server
    <3>1. CASE cache'[d][i] = cache[d][i]
      BY <3>1 DEF CacheInv, FlagsInv
    <3>2. CASE GoodEntry(i, cache'[d][i])
      BY <3>2 DEF GoodEntry
    <3>3. QED BY <1>3, <3>1, <3>2
  <2>2. \A i \in Inum : ext'[i].there \/ ext'[i].content = Store!Empty
    BY DEF CacheInv, FlagsInv
  <2>3. NotCached' = NotCached /\ Store!Empty' = Store!Empty
    BY DEF NotCached
  <2>4. QED BY <2>1, <2>2 DEF FlagsInv, NotCached
<1>6. ASSUME NEW i \in Inum
      PROVE  View'[i] = IF owner[i] = c THEN Flushed(m[i], i) ELSE View[i]
  <2>1. \A e : Flushed(e, i)' = Flushed(e, i)
    BY DEF Flushed
  <2>2. View'[i] = IF owner[i] = NoOne THEN ext[i] ELSE Flushed(cache'[owner[i]][i], i)
    BY DEF View, Flushed
  <2>3. View[i] = IF owner[i] = NoOne THEN ext[i] ELSE Flushed(cache[owner[i]][i], i)
    BY DEF View
  <2>4. CASE owner[i] = c
    BY <1>1, <2>2, <2>4
  <2>5. CASE owner[i] # c
    BY <1>1, <2>2, <2>3, <2>5
  <2>6. QED BY <2>4, <2>5
<1>7. View' = [i \in Inum |-> View'[i]]
  BY DEF View
<1>8. QED
  BY <1>2, <1>4, <1>5, <1>6, <1>7 DEF CacheInv
-----------------------------------------------------------------------------
(* What the changes of a cache, of the owners and of the server come to    *)

LEMMA FetchChange ==
  ASSUME Shape, CacheInv, NEW c \in Client, NEW i \in Inum, owner[i] = c,
         UNCHANGED <<ext, owner>>, cache' = [cache EXCEPT ![c] = Fetched(cache[c], i)]
  PROVE  /\ cache' \in [Client -> [Inum -> AnyDetails]]
         /\ CacheInv'
         /\ View' = View
<1> DEFINE m == Fetched(cache[c], i)
<1>1. /\ m \in [Inum -> AnyDetails]
      /\ \A j \in Inum \ {i} : m[j] = cache[c][j]
      /\ GoodEntry(i, m[i]) /\ Flushed(m[i], i) = View[i]
  BY FetchedEntry
<1> HIDE DEF m
<1>2. /\ cache' = [cache EXCEPT ![c] = m]
      /\ \A j \in Inum : m[j] = cache[c][j] \/ (owner[j] = c /\ GoodEntry(j, m[j]))
  BY <1>1 DEF m
<1>3. /\ cache' \in [Client -> [Inum -> AnyDetails]]
      /\ CacheInv'
      /\ View' = [j \in Inum |-> IF owner[j] = c THEN Flushed(m[j], j) ELSE View[j]]
  BY <1>1, <1>2, CacheChange, ZenonT(30)
<1>4. \A j \in Inum : owner[j] = c => Flushed(m[j], j) = View[j]
  BY <1>1, ViewOwned
<1>5. View = [j \in Inum |-> View[j]]
  BY DEF View
<1>6. QED BY <1>3, <1>4, <1>5

\* Client c puts contents into the cache, and what the clients see then.
Puts(c, i, v) ==
    /\ UNCHANGED <<ext, owner>> /\ owner[i] = c
    /\ cache' = [cache EXCEPT ![c] = Put(cache[c], i, v)]
Becomes(i, v) ==
    /\ cache' \in [Client -> [Inum -> AnyDetails]]
    /\ CacheInv'
    /\ View' = [View EXCEPT ![i] = Store!Extent(v)]

LEMMA PutChange ==
  ASSUME Shape, CacheInv, NEW c \in Client, NEW i \in Inum, NEW v \in AnyContent, Puts(c, i, v)
  PROVE  Becomes(i, v)
<1> DEFINE m == Put(cache[c], i, v)
<1>1. /\ m \in [Inum -> AnyDetails]
      /\ \A j \in Inum \ {i} : m[j] = cache[c][j]
      /\ GoodEntry(i, m[i]) /\ Flushed(m[i], i) = Store!Extent(v)
  BY PutEntry DEF Shape
<1> HIDE DEF m
<1>2. /\ UNCHANGED <<ext, owner>> /\ owner[i] = c
      /\ cache' = [cache EXCEPT ![c] = m]
      /\ \A j \in Inum : m[j] = cache[c][j] \/ (owner[j] = c /\ GoodEntry(j, m[j]))
  BY <1>1 DEF m, Puts
<1>3. /\ cache' \in [Client -> [Inum -> AnyDetails]]
      /\ CacheInv'
      /\ View' = [j \in Inum |-> IF owner[j] = c THEN Flushed(m[j], j) ELSE View[j]]
  BY <1>1, <1>2, CacheChange, ZenonT(30)
<1>4. \A j \in Inum \ {i} : owner[j] = c => Flushed(m[j], j) = View[j]
  BY <1>1, ViewOwned
<1>5. View \in [Inum -> AnyExtent]
  BY ViewType
<1>6. QED BY <1>1, <1>2, <1>3, <1>4, <1>5 DEF Becomes

PutsTwo(c, i, v, k, w) ==
    /\ UNCHANGED <<ext, owner>> /\ owner[i] = c /\ owner[k] = c /\ i # k
    /\ cache' = [cache EXCEPT ![c] = Put(Put(cache[c], i, v), k, w)]
BecomeTwo(i, v, k, w) ==
    /\ cache' \in [Client -> [Inum -> AnyDetails]]
    /\ CacheInv'
    /\ View' = [View EXCEPT ![i] = Store!Extent(v), ![k] = Store!Extent(w)]

LEMMA PutTwoChange ==
  ASSUME Shape, CacheInv, NEW c \in Client, NEW i \in Inum, NEW k \in Inum,
         NEW v \in AnyContent, NEW w \in AnyContent, PutsTwo(c, i, v, k, w)
  PROVE  BecomeTwo(i, v, k, w)
<1> USE DEF PutsTwo
<1> DEFINE m == Put(cache[c], i, v)
           n == Put(m, k, w)
<1>1. /\ m \in [Inum -> AnyDetails]
      /\ \A j \in Inum \ {i} : m[j] = cache[c][j]
      /\ GoodEntry(i, m[i]) /\ Flushed(m[i], i) = Store!Extent(v)
  BY PutEntry DEF Shape
<1> HIDE DEF m
<1>2. /\ n \in [Inum -> AnyDetails]
      /\ \A j \in Inum \ {k} : n[j] = m[j]
      /\ GoodEntry(k, n[k]) /\ Flushed(n[k], k) = Store!Extent(w)
  BY <1>1, PutEntry
<1>3. cache' = [cache EXCEPT ![c] = n]
  BY DEF m
<1> HIDE DEF n
<1>4. \A j \in Inum : n[j] = cache[c][j] \/ (owner[j] = c /\ GoodEntry(j, n[j]))
  BY <1>1, <1>2
<1>5. /\ cache' \in [Client -> [Inum -> AnyDetails]]
      /\ CacheInv'
      /\ View' = [j \in Inum |-> IF owner[j] = c THEN Flushed(n[j], j) ELSE View[j]]
  BY <1>2, <1>3, <1>4, CacheChange
<1>6. \A j \in Inum \ {i, k} : owner[j] = c => Flushed(n[j], j) = View[j]
  BY <1>1, <1>2, ViewOwned
<1>7. n[i] = m[i]
  BY <1>2
<1>8. View \in [Inum -> AnyExtent]
  BY ViewType
<1>9. \A j \in Inum : (IF owner[j] = c THEN Flushed(n[j], j) ELSE View[j])
         = [View EXCEPT ![i] = Store!Extent(v), ![k] = Store!Extent(w)][j]
  <2>1. Flushed(n[i], i) = Store!Extent(v) /\ Flushed(n[k], k) = Store!Extent(w)
    BY <1>1, <1>2, <1>7
  <2>2. \A j \in Inum \ {i, k} : (IF owner[j] = c THEN Flushed(n[j], j) ELSE View[j]) = View[j]
    BY <1>6
  <2>3. QED BY <1>8, <2>1, <2>2
<1>10. QED BY <1>5, <1>8, <1>9 DEF BecomeTwo

Removes(c, i) ==
    /\ UNCHANGED <<ext, owner>> /\ owner[i] = c
    /\ cache' = [cache EXCEPT ![c] = Removed(cache[c], i)]
Vanishes(i) ==
    /\ cache' \in [Client -> [Inum -> AnyDetails]]
    /\ CacheInv'
    /\ View' = [View EXCEPT ![i] = Store!Absent]

LEMMA RemoveChange ==
  ASSUME Shape, CacheInv, NEW c \in Client, NEW i \in Inum, Removes(c, i)
  PROVE  Vanishes(i)
<1> DEFINE m == Removed(cache[c], i)
<1>1. /\ m \in [Inum -> AnyDetails]
      /\ \A j \in Inum \ {i} : m[j] = cache[c][j]
      /\ GoodEntry(i, m[i]) /\ Flushed(m[i], i) = Store!Absent
  BY RemovedEntry DEF Shape
<1> HIDE DEF m
<1>2. /\ UNCHANGED <<ext, owner>> /\ owner[i] = c
      /\ cache' = [cache EXCEPT ![c] = m]
      /\ \A j \in Inum : m[j] = cache[c][j] \/ (owner[j] = c /\ GoodEntry(j, m[j]))
  BY <1>1 DEF m, Removes
<1>3. /\ cache' \in [Client -> [Inum -> AnyDetails]]
      /\ CacheInv'
      /\ View' = [j \in Inum |-> IF owner[j] = c THEN Flushed(m[j], j) ELSE View[j]]
  BY <1>1, <1>2, CacheChange
<1>4. \A j \in Inum \ {i} : owner[j] = c => Flushed(m[j], j) = View[j]
  BY <1>1, ViewOwned
<1>5. View \in [Inum -> AnyExtent]
  BY ViewType
<1>6. QED BY <1>1, <1>2, <1>3, <1>4, <1>5 DEF Vanishes

LEMMA NoChange ==
  ASSUME Shape, CacheInv, UNCHANGED <<ext, cache, owner>>
  PROVE  CacheInv' /\ View' = View
<1>1. Coherent'
  BY DEF CacheInv, Coherent
<1>2. FlagsInv'
  BY DEF CacheInv, FlagsInv, NotCached
<1>3. View' = View
  BY DEF View, Flushed
<1>4. QED BY <1>1, <1>2, <1>3 DEF CacheInv

\* A lock comes to a client that has nothing of the extent in its cache.
LEMMA OwnerChange ==
  ASSUME Shape, CacheInv, NEW c \in Client, NEW i \in Inum, owner[i] \in {c, NoOne},
         UNCHANGED <<ext, cache>>, owner' = [owner EXCEPT ![i] = c]
  PROVE  CacheInv' /\ View' = View
<1>1. owner \in [Inum -> Client \cup {NoOne}]
  BY DEF Shape
<1>2. Coherent'
  BY <1>1 DEF CacheInv, Coherent
<1>3. FlagsInv'
  BY DEF CacheInv, FlagsInv, NotCached
<1>4. ASSUME NEW j \in Inum PROVE View'[j] = View[j]
  <2>1. \A e : Flushed(e, j)' = Flushed(e, j)
    BY DEF Flushed
  <2>2. View[j] = IF owner[j] = NoOne THEN ext[j] ELSE Flushed(cache[owner[j]][j], j)
    BY DEF View
  <2>3. View'[j] = IF owner'[j] = NoOne THEN ext[j] ELSE Flushed(cache[owner'[j]][j], j)
    BY DEF View, Flushed
  <2>4. CASE owner'[j] = owner[j]
    BY <2>2, <2>3, <2>4
  <2>5. CASE owner'[j] # owner[j]
    <3>1. j = i /\ owner[j] = NoOne /\ owner'[j] = c
      BY <1>1, <2>5
    <3>2. ~ cache[c][j].cached
      BY <3>1 DEF CacheInv, Coherent
    <3>3. cache[c][j] = NotCached
      BY <3>2 DEF CacheInv, FlagsInv
    <3>4. Flushed(cache[c][j], j) = ext[j]
      BY <3>3 DEF Flushed, NotCached
    <3>5. QED BY <2>2, <2>3, <3>1, <3>4
  <2>6. QED BY <2>4, <2>5
<1>5. View = [j \in Inum |-> View[j]] /\ View' = [j \in Inum |-> View'[j]]
  BY DEF View
<1>6. QED BY <1>2, <1>3, <1>4, <1>5 DEF CacheInv

\* dorelease: the server has what the client had.
LEMMA DoreleaseChange ==
  ASSUME Shape, CacheInv, NEW c \in Client, NEW i \in Inum, dorelease(c, i)
  PROVE  /\ ext' \in [Inum -> AnyExtent]
         /\ cache' \in [Client -> [Inum -> AnyDetails]]
         /\ CacheInv'
         /\ View' = View
<1>1. /\ owner[i] = c /\ owner' = owner
      /\ ext' = [ext EXCEPT ![i] = Flushed(cache[c][i], i)]
      /\ cache' = [cache EXCEPT ![c][i] = NotCached]
  BY DEF dorelease, GiveBack
<1>2. /\ ext \in [Inum -> AnyExtent]
      /\ cache \in [Client -> [Inum -> AnyDetails]]
      /\ owner \in [Inum -> Client \cup {NoOne}]
  BY DEF Shape
<1>3. Flushed(cache[c][i], i) \in AnyExtent
  BY <1>2, FlushedType
<1>4. /\ ext' \in [Inum -> AnyExtent]
      /\ cache' \in [Client -> [Inum -> AnyDetails]]
  BY <1>1, <1>2, <1>3, EmptyTypes
<1>5. /\ \A j \in Inum \ {i} : ext'[j] = ext[j]
      /\ \A d \in Client, j \in Inum : d # c \/ j # i => cache'[d][j] = cache[d][j]
      /\ cache'[c][i] = NotCached
      /\ ext'[i] = Flushed(cache[c][i], i)
  BY <1>1, <1>2
<1>6. \A d \in Client : ~ cache'[d][i].cached
  <2>1. \A d \in Client \ {c} : ~ cache[d][i].cached
    BY <1>1 DEF CacheInv, Coherent
  <2>2. QED BY <1>5, <2>1 DEF NotCached
<1>7. Coherent'
  BY <1>1, <1>5, <1>6 DEF CacheInv, Coherent
<1>8. FlagsInv'
  <2>1. ASSUME NEW j \in Inum PROVE ext'[j].there \/ ext'[j].content = Store!Empty
    <3>1. ext[j].there \/ ext[j].content = Store!Empty
      BY DEF CacheInv, FlagsInv
    <3>2. Flushed(cache[c][i], i) \in {ext[i], Store!Absent, Store!Extent(cache[c][i].content)}
      BY DEF Flushed
    <3>3. cache[c][i].content \in AnyContent
      BY <1>2 DEF AnyDetails
    <3>4. QED BY <1>5, <3>1, <3>2, <3>3, EmptyTypes, ExtentType
  <2>2. ASSUME NEW d \in Client, NEW j \in Inum
        PROVE  /\ cache'[d][j].cached \/ cache'[d][j] = NotCached
               /\ cache'[d][j].removed => cache'[d][j].isDirty
               /\ cache'[d][j].isDirty => cache'[d][j].removed \/ cache'[d][j].exist_in_server
    <3>1. CASE cache'[d][j] = cache[d][j]
      BY <3>1 DEF CacheInv, FlagsInv
    <3>2. CASE cache'[d][j] = NotCached
      BY <3>2 DEF NotCached
    <3>3. QED BY <1>5, <3>1, <3>2
  <2>3. QED BY <2>1, <2>2 DEF FlagsInv, NotCached
<1>9. ASSUME NEW j \in Inum PROVE View'[j] = View[j]
  <2>1. View[j] = IF owner[j] = NoOne THEN ext[j] ELSE Flushed(cache[owner[j]][j], j)
    BY DEF View
  <2>2. View'[j] = IF owner'[j] = NoOne THEN ext'[j] ELSE Flushed(cache[owner[j]][j], j)'
    BY DEF View
  <2>3. CASE j = i
    <3>1. owner[i] # NoOne
      BY <1>1, NoOneAssumption
    <3>2. View'[i] = ext'[i]
      BY <1>1, <1>5, <2>2, <2>3, <3>1 DEF Flushed, NotCached
    <3>3. QED BY <1>1, <1>5, <2>1, <2>3, <3>1, <3>2
  <2>4. CASE j # i
    <3>1. \A e : Flushed(e, j)' = Flushed(e, j)
      BY <1>5, <2>4 DEF Flushed
    <3>2. owner[j] # NoOne => cache'[owner[j]][j] = cache[owner[j]][j]
      BY <1>2, <1>5, <2>4
    <3>3. CASE owner[j] = NoOne
      BY <1>1, <1>5, <2>1, <2>2, <2>4, <3>3
    <3>4. CASE owner[j] # NoOne
      <4>1. View'[j] = IF owner[j] = NoOne THEN ext[j]
                       ELSE Flushed(cache'[owner[j]][j], j)
        BY <1>1, <1>5, <2>4 DEF View, Flushed
      <4>2. QED BY <2>1, <3>2, <3>4, <4>1
    <3>5. QED BY <3>3, <3>4
  <2>5. QED BY <2>3, <2>4
<1>10. View = [j \in Inum |-> View[j]] /\ View' = [j \in Inum |-> View'[j]]
  BY DEF View
<1>11. QED BY <1>4, <1>7, <1>8, <1>9, <1>10 DEF CacheInv

\* release: nothing is cached of what goes back.
LEMMA ReleasedChange ==
  ASSUME Shape, CacheInv, ReleasingInv, NEW i \in Inum, Released(i)
  PROVE  /\ owner' \in [Inum -> Client \cup {NoOne}]
         /\ CacheInv'
         /\ View' = View
<1>1. /\ owner' = [owner EXCEPT ![i] = NoOne] /\ ext' = ext /\ cache' = cache
      /\ \A d \in Client : cache[d][i] = NotCached
      /\ owner \in [Inum -> Client \cup {NoOne}] /\ owner[i] \in Client
  BY DEF Released, ReleasingInv, Shape
<1>2. Coherent'
  BY <1>1 DEF CacheInv, Coherent, NotCached
<1>3. FlagsInv'
  BY <1>1 DEF CacheInv, FlagsInv, NotCached
<1>4. ASSUME NEW j \in Inum PROVE View'[j] = View[j]
  <2>1. View[j] = IF owner[j] = NoOne THEN ext[j] ELSE Flushed(cache[owner[j]][j], j)
    BY DEF View
  <2>2. View'[j] = IF owner'[j] = NoOne THEN ext[j] ELSE Flushed(cache[owner'[j]][j], j)
    BY <1>1 DEF View, Flushed
  <2>3. CASE j = i
    <3>1. Flushed(cache[owner[j]][j], j) = ext[j]
      BY <1>1, <2>3 DEF Flushed, NotCached
    <3>2. QED BY <1>1, <2>1, <2>2, <2>3, <3>1
  <2>4. CASE j # i
    BY <1>1, <2>1, <2>2, <2>4
  <2>5. QED BY <2>3, <2>4
<1>5. View = [j \in Inum |-> View[j]] /\ View' = [j \in Inum |-> View'[j]]
  BY DEF View
<1>6. QED BY <1>1, <1>2, <1>3, <1>4, <1>5 DEF CacheInv
-----------------------------------------------------------------------------
(* Names and numbers                                                       *)

LEMMA KnownSame ==
  ASSUME used' = used,
         \A d \in Client : Creating(d)' <=> Creating(d),
         \A d \in Client : Creating(d) => op'[d].child = op[d].child
  PROVE  Known' = Known
BY DEF Known, New

LEMMA FewerNames ==
  ASSUME NEW v, NEW w, NEW f,
         \A k \in DOMAIN w.entries : /\ f[k] \in DOMAIN v.entries
                                     /\ w.entries[k] = v.entries[f[k]]
  PROVE  Store!Inums(w) \subseteq Store!Inums(v) /\ Store!Names(w) \subseteq Store!Names(v)
BY DEF Store!Inums, Store!Names

\* Every directory entry after the step was at position from[d][k] before it.
Moved(from) ==
    \A d \in Dir : \A k \in DOMAIN View'[d].content.entries :
      /\ k \in Nat
      /\ from[d][k] \in DOMAIN View[d].content.entries
      /\ View'[d].content.entries[k] = View[d].content.entries[from[d][k]]

LEMMA NamesKept ==
  ASSUME NEW from,
         Moved(from)
  PROVE  \A d \in Dir : /\ Store!Inums(View'[d].content) \subseteq Store!Inums(View[d].content)
                        /\ Store!Names(View'[d].content) \subseteq Store!Names(View[d].content)
<1> TAKE d \in Dir
<1> DEFINE v == View[d].content
           w == View'[d].content
<1>1. \A k \in DOMAIN w.entries : /\ from[d][k] \in DOMAIN v.entries
                                  /\ w.entries[k] = v.entries[from[d][k]]
  BY DEF Moved
<1> HIDE DEF v, w
<1>2. Store!Inums(w) \subseteq Store!Inums(v) /\ Store!Names(w) \subseteq Store!Names(v)
  BY <1>1, FewerNames
<1>3. QED BY <1>2 DEF v, w

\* A step of client c after which every directory entry is one of before, at
\* another position perhaps, and which creates nothing.
LEMMA NamesShrink ==
  ASSUME Shape, LocksInv, NamesInv, used' = used, NEW c \in Client,
         NEW from \in [Dir -> [Nat -> Nat]],
         Moved(from),
         \A d \in Dir : \A j, k \in Nat : from[d][j] = from[d][k] => j = k,
         \A i \in Inum : View[i].there =>
           View'[i].there \/ \A d \in Dir : i \notin Store!Inums(View'[d].content),
         \A i \in Inum : View'[i].there => View[i].there \/ i \in Known,
         \A d \in Client \ {c} : /\ seen'[d] = seen[d] /\ at'[d] = at[d]
                                 /\ op'[d] = op[d],
         seen'[c] \subseteq Known,
         op'[c].ino \in Known,
         Creating(c)' <=> Creating(c),
         Creating(c) => op'[c] = op[c],
         ~ Creating(c) => op'[c].child \in Known,
         Unlinking(c)' =>
           \/ Unlinking(c) /\ op'[c] = op[c]
           \/ /\ \E d \in Dir : op'[c].child \in Store!Inums(View[d].content)
              /\ \A d \in Dir : op'[c].child \notin Store!Inums(View'[d].content)
  PROVE  NamesInv' /\ Known' = Known
<1>1. /\ \A d \in Client : Creating(d)' <=> Creating(d)
      /\ \A d \in Client : Creating(d) => op'[d] = op[d]
      /\ \A d \in Client \ {c} : Unlinking(d)' <=> Unlinking(d)
  BY DEF Creating, Unlinking
<1>2. Known' = Known
  BY <1>1, KnownSame
<1>3. Known \subseteq used
  BY DEF Known
<1>4. \A d \in Dir : /\ Store!Inums(View'[d].content) \subseteq Store!Inums(View[d].content)
                     /\ Store!Names(View'[d].content) \subseteq Store!Names(View[d].content)
  BY NamesKept
<1>5. KnownInv'
  <2>1. \A i \in Inum : View'[i].there => i \in Known'
    BY <1>2 DEF NamesInv, KnownInv
  <2>2. \A d \in Dir : Store!Inums(View'[d].content) \subseteq Known'
    BY <1>2, <1>4 DEF NamesInv, KnownInv
  <2>3. ASSUME NEW d \in Client
        PROVE  /\ seen'[d] \subseteq Known'
               /\ op'[d].ino \in Known'
               /\ op'[d].child \in used'
               /\ ~ Creating(d)' => op'[d].child \in Known'
    <3>1. CASE d = c
      BY <1>1, <1>2, <1>3, <3>1 DEF NamesInv, KnownInv
    <3>2. CASE d # c
      BY <1>1, <1>2, <3>2 DEF NamesInv, KnownInv
    <3>3. QED BY <3>1, <3>2
  <2>4. \A d, e \in Client :
          Creating(d)' /\ Creating(e)' /\ op'[d].child = op'[e].child => d = e
    BY <1>1 DEF NamesInv, KnownInv
  <2>5. Root \in Known'
    BY <1>2 DEF NamesInv, KnownInv
  <2>6. QED BY <2>1, <2>2, <2>3, <2>4, <2>5 DEF KnownInv
<1>6. NoDangling'
  <2> SUFFICES ASSUME NEW d \in Dir, NEW i \in Store!Inums(View'[d].content)
               PROVE  View'[i].there
    BY DEF NoDangling
  <2>1. i \in Store!Inums(View[d].content)
    BY <1>4
  <2>2. View[i].there
    BY <2>1 DEF NamesInv, NoDangling
  <2>3. i \in Inum
    BY <2>1 DEF NamesInv, KnownInv, Known, Shape
  <2>4. QED BY <2>2, <2>3
<1>7. UniqueInv'
  <2> SUFFICES ASSUME NEW d \in Dir, NEW e \in Dir,
                      NEW j \in DOMAIN View'[d].content.entries,
                      NEW k \in DOMAIN View'[e].content.entries,
                      View'[d].content.entries[j].ino = View'[e].content.entries[k].ino
               PROVE  d = e /\ j = k
    BY DEF UniqueInv
  <2>1. /\ View[d].content.entries[from[d][j]].ino = View[e].content.entries[from[e][k]].ino
        /\ from[d][j] \in DOMAIN View[d].content.entries
        /\ from[e][k] \in DOMAIN View[e].content.entries
        /\ j \in Nat /\ k \in Nat
    BY DEF Moved
  <2>2. d = e /\ from[d][j] = from[e][k]
    <3>1. UniqueInv
      BY DEF NamesInv
    <3>2. \A x \in DOMAIN View[d].content.entries, y \in DOMAIN View[e].content.entries :
            View[d].content.entries[x].ino = View[e].content.entries[y].ino => d = e /\ x = y
      BY <3>1 DEF UniqueInv
    <3>3. QED BY <2>1, <3>2, ZenonT(30)
  <2>3. QED BY <2>1, <2>2
<1>8. CreateInv'
  <2>1. \A d \in Client : Creating(d) => op[d].ino \in Dir
    BY DEF LocksInv, Creating, TwoLocks
  <2>2. \A d \in Client : Creating(d)' => Creating(d) /\ op'[d] = op[d]
    BY <1>1
  <2>3. QED BY <1>4, <2>1, <2>2 DEF NamesInv, CreateInv
<1>9. UnlinkInv'
  <2>1. ASSUME NEW d \in Client, NEW e \in Dir, Unlinking(d)'
        PROVE  op'[d].child \notin Store!Inums(View'[e].content)
    <3>1. CASE Unlinking(d) /\ op'[d] = op[d]
      BY <1>4, <3>1 DEF NamesInv, UnlinkInv
    <3>2. CASE d = c
      BY <1>4, <2>1, <3>1, <3>2
    <3>3. QED BY <1>1, <2>1, <3>1, <3>2
  <2>2. ASSUME NEW d \in Client, NEW e \in Client, d # e,
               Unlinking(d)', Unlinking(e)', op'[d].child = op'[e].child
        PROVE  FALSE
    <3>1. CASE Unlinking(d) /\ op'[d] = op[d] /\ Unlinking(e) /\ op'[e] = op[e]
      BY <2>2, <3>1 DEF NamesInv, UnlinkInv
    <3>2. \A f \in Client \ {c} : Unlinking(f)' => Unlinking(f) /\ op'[f] = op[f]
      BY <1>1
    <3>3. ASSUME NEW f \in Client, f # c, Unlinking(f)', op'[f].child = op'[c].child,
                 NEW p \in Dir, op'[c].child \in Store!Inums(View[p].content)
          PROVE  FALSE
      <4>1. Unlinking(f) /\ op'[f] = op[f]
        BY <3>2, <3>3
      <4>2. op[f].child \notin Store!Inums(View[p].content)
        BY <4>1 DEF NamesInv, UnlinkInv
      <4>3. QED BY <3>3, <4>1, <4>2
    <3>4. QED BY <2>2, <3>1, <3>2, <3>3
  <2>3. QED BY <2>1, <2>2 DEF UnlinkInv
<1>10. QED
  BY <1>2, <1>5, <1>6, <1>7, <1>8, <1>9 DEF NamesInv

\* The same, where an entry does not even move.
LEMMA NamesStay ==
  ASSUME Shape, LocksInv, NamesInv, used' = used, NEW c \in Client,
         \A d \in Dir : View'[d].content.entries \in {View[d].content.entries, << >>},
         \A i \in Inum : View[i].there =>
           View'[i].there \/ \A d \in Dir : i \notin Store!Inums(View'[d].content),
         \A i \in Inum : View'[i].there => View[i].there \/ i \in Known,
         \A d \in Client \ {c} : /\ seen'[d] = seen[d] /\ at'[d] = at[d]
                                 /\ op'[d] = op[d],
         seen'[c] \subseteq Known,
         op'[c].ino \in Known,
         Creating(c)' <=> Creating(c),
         Creating(c) => op'[c] = op[c],
         ~ Creating(c) => op'[c].child \in Known,
         Unlinking(c)' => Unlinking(c) /\ op'[c] = op[c]
  PROVE  NamesInv' /\ Known' = Known
<1> DEFINE from == [d \in Dir |-> [k \in Nat |-> k]]
<1>1. from \in [Dir -> [Nat -> Nat]]
  OBVIOUS
<1>2. \A d \in Dir : \A j, k \in Nat : from[d][j] = from[d][k] => j = k
  OBVIOUS
<1>3. \A d \in Dir : \A k \in DOMAIN View[d].content.entries : k \in Nat
  <2>1. ASSUME NEW d \in Dir PROVE View[d].content.entries \in Seq(Entry)
    BY ViewType DEF Inum, AnyContent
  <2>2. QED BY <2>1
<1>4. Moved(from)
  <2> SUFFICES ASSUME NEW d \in Dir, NEW k \in DOMAIN View'[d].content.entries
               PROVE  /\ k \in Nat
                      /\ from[d][k] \in DOMAIN View[d].content.entries
                      /\ View'[d].content.entries[k] = View[d].content.entries[from[d][k]]
    BY DEF Moved
  <2>1. View'[d].content.entries = View[d].content.entries
    OBVIOUS
  <2>2. k \in DOMAIN View[d].content.entries
    BY <2>1
  <2>3. k \in Nat
    BY <1>3, <2>2
  <2>4. from[d][k] = k
    BY <2>3
  <2>5. QED BY <2>1, <2>2, <2>3, <2>4
<1> HIDE DEF from
<1>5. QED BY <1>1, <1>2, <1>4, NamesShrink

LEMMA NamesSame ==
  ASSUME Shape, LocksInv, NamesInv, used' = used, View' = View, NEW c \in Client,
         \A d \in Client \ {c} : /\ seen'[d] = seen[d] /\ at'[d] = at[d]
                                 /\ op'[d] = op[d],
         seen'[c] \subseteq Known,
         op'[c].ino \in Known,
         Creating(c)' <=> Creating(c),
         Creating(c) => op'[c] = op[c],
         ~ Creating(c) => op'[c].child \in Known,
         Unlinking(c)' => Unlinking(c) /\ op'[c] = op[c]
  PROVE  NamesInv' /\ Known' = Known
BY NamesStay

\* A number that was not used goes to create or mkdir, whose extent is not yet
\* there.
LEMMA NamesNew ==
  ASSUME Shape, LocksInv, NamesInv, View' = View, NEW c \in Client,
         NEW i \in Inum \ used, used' = used \cup {i},
         \A d \in Client : seen'[d] = seen[d],
         \A d \in Client \ {c} : at'[d] = at[d] /\ op'[d] = op[d],
         ~ Creating(c), Creating(c)', ~ Unlinking(c)',
         op'[c] = [op[c] EXCEPT !.child = i],
         op[c].kind = "create" =>
           i \in File /\ op[c].name \notin Store!Names(View[op[c].ino].content),
         op[c].kind = "mkdir" => i \in Dir
  PROVE  NamesInv' /\ Known' = Known
<1>1. op[c] \in Operation
  BY DEF Shape
<1>2. op'[c].child = i /\ op'[c].ino = op[c].ino /\ op'[c].kind = op[c].kind
      /\ op'[c].name = op[c].name
  BY <1>1 DEF Operation
<1>3. \A d \in Client \ {c} : /\ Creating(d)' <=> Creating(d)
                              /\ Unlinking(d)' <=> Unlinking(d)
                              /\ op'[d] = op[d]
  BY DEF Creating, Unlinking
<1>4. New' = New \cup {i}
  <2>1. ASSUME NEW x \in New' PROVE x \in New \cup {i}
    <3>1. PICK d \in Client : Creating(d)' /\ x = op'[d].child
      BY <2>1 DEF New
    <3>2. CASE d = c
      BY <1>2, <3>1, <3>2
    <3>3. CASE d # c
      BY <1>3, <3>1, <3>3 DEF New
    <3>4. QED BY <3>2, <3>3
  <2>2. ASSUME NEW x \in New PROVE x \in New'
    <3>1. PICK d \in Client : Creating(d) /\ x = op[d].child
      BY DEF New
    <3>2. d # c /\ Creating(d)' /\ x = op'[d].child
      BY <1>3, <3>1
    <3>3. QED BY <3>2 DEF New
  <2>3. i \in New'
    BY <1>2 DEF New
  <2>4. QED BY <2>1, <2>2, <2>3
<1>5. Known' = Known
  BY <1>4 DEF Known
<1>6. KnownInv
  BY DEF NamesInv
<1>7. \A d \in Client : op[d].child \in used
  BY <1>6 DEF KnownInv
<1>8. KnownInv'
  <2>1. ASSUME NEW d \in Client
        PROVE  /\ seen'[d] \subseteq Known'
               /\ op'[d].ino \in Known'
               /\ op'[d].child \in used'
               /\ ~ Creating(d)' => op'[d].child \in Known'
    BY <1>2, <1>3, <1>5, <1>6 DEF KnownInv
  <2>2. ASSUME NEW d \in Client, NEW e \in Client, Creating(d)', Creating(e)',
               op'[d].child = op'[e].child
        PROVE  d = e
    <3>1. CASE d # c /\ e # c
      BY <1>3, <1>6, <2>2, <3>1 DEF KnownInv
    <3>2. \A f \in Client \ {c} : op'[f].child # i
      BY <1>3, <1>7
    <3>3. QED BY <1>2, <2>2, <3>1, <3>2
  <2>3. QED BY <1>5, <1>6, <2>1, <2>2 DEF KnownInv
<1>9. NoDangling' /\ UniqueInv'
  BY DEF NamesInv, NoDangling, UniqueInv
<1>10. CreateInv'
  <2>1. ASSUME NEW d \in Client
        PROVE  /\ Creating(d)' /\ op'[d].kind = "create" =>
                    /\ op'[d].child \in File
                    /\ op'[d].name \notin Store!Names(View'[op'[d].ino].content)
               /\ Creating(d)' /\ op'[d].kind = "mkdir" => op'[d].child \in Dir
    <3>1. CASE d = c
      BY <1>2, <3>1
    <3>2. CASE d # c
      BY <1>3, <3>2 DEF NamesInv, CreateInv
    <3>3. QED BY <3>1, <3>2
  <2>2. QED BY <2>1 DEF CreateInv
<1>11. UnlinkInv'
  <2>1. \A d \in Client : Unlinking(d)' => Unlinking(d) /\ op'[d] = op[d]
    BY <1>3
  <2>2. QED BY <2>1 DEF NamesInv, UnlinkInv
<1>12. QED BY <1>5, <1>8, <1>9, <1>10, <1>11 DEF NamesInv

\* create and mkdir make the extent and name it, both at once.
LEMMA NamesEnter ==
  ASSUME Shape, LocksInv, NamesInv, used' = used, NEW c \in Client, at[c] = "do", Creating(c),
         NEW p, p = op[c].ino, NEW i, i = op[c].child,
         View' = [View EXCEPT ![i] = Store!Extent(Store!Empty),
                              ![p] = Store!Extent(Store!Enter(View[p].content, op[c].name, i))],
         seen' = [seen EXCEPT ![c] = @ \cup {i}],
         \A d \in Client \ {c} : at'[d] = at[d] /\ op'[d] = op[d],
         op'[c] = NoOperation
  PROVE  NamesInv' /\ i \notin Known /\ i # p
<1> DEFINE n == op[c].name
           v == View[p].content
           w == Store!Enter(v, n, i)
           z == Len(v.entries) + 1
<1>1. KnownInv /\ op[c] \in Operation /\ p \in Dir /\ n \in Name /\ op[c].kind \in TwoLocks
  BY DEF NamesInv, Shape, LocksInv, Creating, TwoLocks
<1>2. i \in Inum /\ p \in Inum /\ v \in AnyContent
  BY <1>1, ViewType DEF Operation, Inum
<1>3. i \in New /\ i \notin Known /\ p \in Known /\ i # p /\ i \in used
  BY <1>1 DEF New, Known, KnownInv
<1>4. /\ w \in AnyContent /\ z \notin DOMAIN v.entries
      /\ DOMAIN w.entries = DOMAIN v.entries \cup {z}
      /\ w.entries[z] = [name |-> n, ino |-> i]
      /\ \A k \in DOMAIN v.entries : w.entries[k] = v.entries[k]
  <2> HIDE DEF v, n
  <2>1. v \in AnyContent /\ n \in Name /\ i \in Inum
    BY <1>1, <1>2 DEF n
  <2>2. QED BY <2>1, EnterEntries
<1> HIDE DEF w, z
<1>5. View \in [Inum -> AnyExtent]
  BY ViewType
<1>6. /\ View'[p].content = w /\ View'[p].there
      /\ View'[i].content = Store!Empty /\ View'[i].there
      /\ \A j \in Inum \ {i, p} : View'[j] = View[j]
  BY <1>2, <1>3, <1>4, <1>5, EmptyContent, ExtentType DEF w
<1>7. /\ Store!Inums(w) = Store!Inums(v) \cup {i}
      /\ Store!Names(w) = Store!Names(v) \cup {n}
  BY <1>4 DEF Store!Inums, Store!Names
<1>8. \A d \in Dir : \/ d = p
                     \/ d = i /\ Store!Inums(View'[d].content) = {}
                     \/ d # i /\ View'[d] = View[d]
  BY <1>6, EmptyContent DEF Inum
<1>9. \A d \in Dir : i \notin Store!Inums(View[d].content)
  BY <1>1, <1>3 DEF KnownInv
<1>10. ~ Creating(c)' /\ ~ Unlinking(c)'
  BY DEF Creating, Unlinking, NoOperation
<1>11. \A d \in Client \ {c} : /\ Creating(d)' <=> Creating(d)
                               /\ Unlinking(d)' <=> Unlinking(d)
                               /\ op'[d] = op[d]
  BY DEF Creating, Unlinking
<1>12. New' = New \ {i}
  <2>1. ASSUME NEW x \in New' PROVE x \in New \ {i}
    <3>1. PICK d \in Client : Creating(d)' /\ x = op'[d].child
      BY <2>1 DEF New
    <3>2. d # c /\ Creating(d) /\ x = op[d].child
      BY <1>10, <1>11, <3>1
    <3>3. x # i
      BY <1>1, <3>2 DEF KnownInv
    <3>4. QED BY <3>2, <3>3 DEF New
  <2>2. ASSUME NEW x \in New \ {i} PROVE x \in New'
    <3>1. PICK d \in Client : Creating(d) /\ x = op[d].child
      BY DEF New
    <3>2. d # c /\ Creating(d)' /\ x = op'[d].child
      BY <1>11, <3>1, <2>2
    <3>3. QED BY <3>2 DEF New
  <2>3. QED BY <2>1, <2>2
<1>13. Known' = Known \cup {i}
  BY <1>3, <1>12 DEF Known
<1>14. KnownInv'
  <2>1. \A j \in Inum : View'[j].there => j \in Known'
    BY <1>1, <1>3, <1>6, <1>13 DEF KnownInv
  <2>2. ASSUME NEW d \in Dir PROVE Store!Inums(View'[d].content) \subseteq Known'
    BY <1>1, <1>6, <1>7, <1>8, <1>13 DEF KnownInv
  <2>3. ASSUME NEW d \in Client
        PROVE  /\ seen'[d] \subseteq Known'
               /\ op'[d].ino \in Known'
               /\ op'[d].child \in used'
               /\ ~ Creating(d)' => op'[d].child \in Known'
    <3>1. seen'[d] \subseteq Known'
      BY <1>1, <1>13 DEF KnownInv, Shape
    <3>2. CASE d = c
      BY <1>1, <1>13, <3>1, <3>2 DEF KnownInv, NoOperation, Known
    <3>3. CASE d # c
      BY <1>1, <1>11, <1>13, <3>1, <3>3 DEF KnownInv
    <3>4. QED BY <3>2, <3>3
  <2>4. \A d, e \in Client :
          Creating(d)' /\ Creating(e)' /\ op'[d].child = op'[e].child => d = e
    BY <1>1, <1>10, <1>11 DEF KnownInv
  <2>5. Root \in Known'
    BY <1>1, <1>13 DEF KnownInv
  <2>6. QED BY <2>1, <2>2, <2>3, <2>4, <2>5 DEF KnownInv
<1>15. NoDangling'
  <2> SUFFICES ASSUME NEW d \in Dir, NEW j \in Store!Inums(View'[d].content)
               PROVE  View'[j].there
    BY DEF NoDangling
  <2>1. CASE j = i
    BY <1>6, <2>1
  <2>2. CASE j # i
    <3>1. j \in Store!Inums(View[d].content)
      BY <1>6, <1>7, <1>8, <2>2
    <3>2. View[j].there /\ j \in Inum
      BY <1>1, <3>1 DEF NamesInv, NoDangling, KnownInv, Known, Shape
    <3>3. QED BY <1>6, <3>2
  <2>3. QED BY <2>1, <2>2
<1>16. UniqueInv'
  <2> DEFINE E(d) == View[d].content.entries
             F(d) == View'[d].content.entries
  <2>1. ASSUME NEW d \in Dir, NEW k \in DOMAIN F(d)
        PROVE  \/ d = p /\ k = z /\ F(d)[k].ino = i
               \/ k \in DOMAIN E(d) /\ F(d)[k] = E(d)[k] /\ F(d)[k].ino # i
    <3>1. ASSUME NEW x \in DOMAIN E(d) PROVE E(d)[x].ino # i
      BY <1>9 DEF Store!Inums
    <3>2. CASE d = p
      <4>1. F(d) = w.entries /\ E(d) = v.entries
        BY <1>6, <3>2
      <4>2. CASE k = z
        BY <1>4, <3>2, <4>1, <4>2
      <4>3. CASE k # z
        <5>1. k \in DOMAIN v.entries
          BY <1>4, <2>1, <4>1, <4>3
        <5>2. QED BY <1>4, <3>1, <4>1, <5>1
      <4>4. QED BY <4>2, <4>3
    <3>3. CASE d # p
      <4>1. d # i
        BY <1>6, <2>1, <3>3, EmptyContent
      <4>2. F(d) = E(d)
        BY <1>8, <3>3, <4>1
      <4>3. QED BY <2>1, <3>1, <4>2
    <3>4. QED BY <3>2, <3>3
  <2>2. \A d, e \in Dir : \A x \in DOMAIN E(d), y \in DOMAIN E(e) :
          E(d)[x].ino = E(e)[y].ino => d = e /\ x = y
    BY DEF NamesInv, UniqueInv
  <2> SUFFICES ASSUME NEW d \in Dir, NEW e \in Dir,
                      NEW j \in DOMAIN F(d), NEW k \in DOMAIN F(e),
                      F(d)[j].ino = F(e)[k].ino
               PROVE  d = e /\ j = k
    BY DEF UniqueInv
  <2> HIDE DEF E, F
  <2>3. QED BY <2>1, <2>2
<1>17. CreateInv'
  <2>1. ASSUME NEW d \in Client
        PROVE  /\ Creating(d)' /\ op'[d].kind = "create" =>
                    /\ op'[d].child \in File
                    /\ op'[d].name \notin Store!Names(View'[op'[d].ino].content)
               /\ Creating(d)' /\ op'[d].kind = "mkdir" => op'[d].child \in Dir
    <3>1. CASE d = c
      BY <1>10, <3>1
    <3>2. CASE d # c /\ Creating(d)
      <4>1. op'[d] = op[d] /\ op[d].ino \in Known /\ op[d].ino \in Inum
        BY <1>1, <1>11, <3>2 DEF KnownInv, Shape, Operation
      <4>2. owner[op[d].ino] = d /\ owner[p] = c
        BY <3>2 DEF LocksInv, Creating
      <4>3. op[d].ino # p /\ op[d].ino # i
        BY <1>3, <3>2, <4>1, <4>2
      <4>4. View'[op[d].ino] = View[op[d].ino]
        BY <1>6, <4>1, <4>3
      <4>5. QED BY <3>2, <4>1, <4>4 DEF NamesInv, CreateInv
    <3>3. QED BY <1>11, <3>1, <3>2
  <2>2. QED BY <2>1 DEF CreateInv
<1>18. UnlinkInv'
  <2>1. \A d \in Client : Unlinking(d)' => d # c /\ Unlinking(d) /\ op'[d] = op[d]
    BY <1>10, <1>11
  <2>2. \A d \in Client : Unlinking(d) => op[d].child # i
    BY <1>1, <1>3 DEF KnownInv, Unlinking, Creating
  <2>3. ASSUME NEW d \in Client, NEW e \in Dir, Unlinking(d)'
        PROVE  op'[d].child \notin Store!Inums(View'[e].content)
    <3>1. op[d].child \notin Store!Inums(View[e].content) /\ op[d].child # i
      BY <2>1, <2>2, <2>3 DEF NamesInv, UnlinkInv
    <3>2. op'[d] = op[d]
      BY <2>1, <2>3
    <3>3. CASE e = p
      BY <1>6, <1>7, <3>1, <3>2, <3>3
    <3>4. CASE e # p
      BY <1>8, <3>1, <3>2, <3>4
    <3>5. QED BY <3>3, <3>4
  <2>4. QED BY <2>1, <2>3 DEF NamesInv, UnlinkInv
<1>19. QED
  BY <1>3, <1>14, <1>15, <1>16, <1>17, <1>18 DEF NamesInv

\* Directory d names inode i at position k.
Named(d, k, i) == /\ k \in DOMAIN View[d].content.entries
                  /\ View[d].content.entries[k].ino = i

LEMMA OneName ==
  ASSUME UniqueInv, NEW d \in Dir, NEW e \in Dir, NEW j, NEW k, NEW i,
         Named(d, j, i), Named(e, k, i)
  PROVE  d = e /\ j = k
BY DEF UniqueInv, Named

\* After the step no directory names inode i, and the entry that directory p had
\* at position f is gone.
Nameless(i) == \A d \in Dir : i \notin Store!Inums(View'[d].content)
NotFrom(from, p, f) == \A k \in DOMAIN View'[p].content.entries : from[p][k] # f

LEMMA NameStruck ==
  ASSUME UniqueInv, NEW p \in Dir, NEW f, NEW i, Named(p, f, i), NEW from, Moved(from),
         NotFrom(from, p, f)
  PROVE  Nameless(i)
<1> SUFFICES ASSUME NEW d \in Dir, NEW k \in DOMAIN View'[d].content.entries,
                    View'[d].content.entries[k].ino = i
             PROVE  FALSE
  BY DEF Store!Inums, Nameless
<1>1. Named(d, from[d][k], i)
  BY DEF Moved, Named
<1>2. d = p /\ from[d][k] = f
  BY <1>1, OneName
<1>3. QED BY <1>2 DEF NotFrom

\* unlink strikes the only name of what it has found.
LEMMA NamesStrike ==
  ASSUME Shape, LocksInv, NamesInv, used' = used, NEW c \in Client,
         at[c] = "look", op[c].kind = "unlink",
         NEW p, p = op[c].ino, NEW n, n = op[c].name,
         n \in Store!Names(View[p].content),
         NEW i, i = View[p].content.entries[Store!Find(View[p].content, n)].ino,
         View' = [View EXCEPT ![p] = Store!Extent(Store!Strike(View[p].content, n))],
         \A d \in Client : seen'[d] = seen[d],
         \A d \in Client \ {c} : at'[d] = at[d] /\ op'[d] = op[d],
         op'[c] = [op[c] EXCEPT !.child = i]
  PROVE  NamesInv' /\ Known' = Known
<1> DEFINE v == View[p].content
           w == Store!Strike(v, n)
           f == Store!Find(v, n)
           from == [d \in Dir |-> IF d = p THEN [k \in Nat |-> IF k < f THEN k ELSE k + 1]
                                  ELSE [k \in Nat |-> k]]
<1>1. KnownInv /\ UniqueInv /\ op[c] \in Operation /\ p \in Dir /\ p \in Inum /\ p \in Known
  BY DEF NamesInv, KnownInv, Shape, LocksInv, TwoLocks, Inum
<1>2. v \in AnyContent
  BY <1>1, ViewType
<1>3. /\ w \in AnyContent
      /\ DOMAIN w.entries \subseteq Nat
      /\ \A k \in DOMAIN w.entries :
           /\ (IF k < f THEN k ELSE k + 1) \in DOMAIN v.entries
           /\ (IF k < f THEN k ELSE k + 1) # f
           /\ w.entries[k] = v.entries[IF k < f THEN k ELSE k + 1]
  <2> HIDE DEF v
  <2>1. n \in Store!Names(v)
    BY DEF v
  <2>2. QED BY <1>2, <2>1, StrikeEntries
<1>4. f \in DOMAIN v.entries /\ i \in Store!Inums(v) /\ f \in Nat
  <2>1. f \in DOMAIN v.entries /\ v.entries[f].ino \in Store!Inums(v)
    BY <1>2, FindFirst
  <2>2. v.entries \in Seq(Entry)
    BY <1>2 DEF AnyContent
  <2>3. QED BY <2>1, <2>2
<1> HIDE DEF w, f
<1>5. from \in [Dir -> [Nat -> Nat]]
  BY <1>4
<1>6. \A d \in Dir : \A j, k \in Nat : from[d][j] = from[d][k] => j = k
  <2> TAKE d \in Dir
  <2> TAKE j, k \in Nat
  <2>1. CASE d = p
    BY <1>4, <2>1
  <2>2. CASE d # p
    BY <2>2
  <2>3. QED BY <2>1, <2>2
<1>7. View \in [Inum -> AnyExtent]
  BY ViewType
<1>8. /\ View'[p].content = w /\ View'[p].there
      /\ \A j \in Inum \ {p} : View'[j] = View[j]
  BY <1>1, <1>3, <1>7, ExtentType DEF w
<1>9. \A k \in Nat : from[p][k] = IF k < f THEN k ELSE k + 1
  BY <1>1
<1>10. \A d \in Dir \ {p} : \A k \in Nat : from[d][k] = k
  OBVIOUS
<1> HIDE DEF from
<1>11. Moved(from)
  <2> SUFFICES ASSUME NEW d \in Dir, NEW k \in DOMAIN View'[d].content.entries
               PROVE  /\ k \in Nat
                      /\ from[d][k] \in DOMAIN View[d].content.entries
                      /\ View'[d].content.entries[k] = View[d].content.entries[from[d][k]]
    BY DEF Moved
  <2>1. CASE d = p
    <3>1. k \in DOMAIN w.entries /\ k \in Nat
      BY <1>3, <1>8, <2>1
    <3>2. from[d][k] = IF k < f THEN k ELSE k + 1
      BY <1>9, <2>1, <3>1
    <3>3. from[d][k] \in DOMAIN v.entries /\ w.entries[k] = v.entries[from[d][k]]
      BY <1>3, <3>1, <3>2
    <3>4. View'[d].content = w /\ View[d].content = v
      BY <1>8, <2>1
    <3> HIDE DEF v
    <3>5. QED BY <3>1, <3>3, <3>4
  <2>2. CASE d # p
    <3>1. View'[d] = View[d]
      BY <1>8, <2>2 DEF Inum
    <3>2. View[d].content.entries \in Seq(Entry)
      BY ViewType DEF AnyContent, Inum
    <3>3. k \in Nat
      BY <3>1, <3>2
    <3>4. QED BY <1>10, <2>2, <3>1, <3>3
  <2>3. QED BY <2>1, <2>2
<1>12. \A d \in Dir : i \notin Store!Inums(View'[d].content)
  <2>1. Named(p, f, i)
    BY <1>4 DEF Named, f
  <2>2. \A k \in DOMAIN View'[p].content.entries : from[p][k] # f
    BY <1>3, <1>8, <1>9
  <2>3. UniqueInv /\ p \in Dir
    BY <1>1
  <2>4. NotFrom(from, p, f)
    BY <2>2 DEF NotFrom
  <2>5. Nameless(i)
    BY <1>11, <2>1, <2>3, <2>4, NameStruck
  <2>6. QED BY <2>5 DEF Nameless
<1>13. op'[c].child = i /\ op'[c].ino = p /\ op'[c].kind = "unlink" /\ i \in Known
  BY <1>1, <1>4 DEF Operation, KnownInv
<1>14. ~ Creating(c) /\ ~ Creating(c)' /\ ~ Unlinking(c)
  BY <1>13 DEF Creating, Unlinking
<1>15. seen'[c] \subseteq Known
  BY <1>1 DEF KnownInv
<1>16. /\ \A j \in Inum : View[j].there => View'[j].there
       /\ \A j \in Inum : View'[j].there => View[j].there \/ j \in Known
  BY <1>1, <1>8
<1>17. \E d \in Dir : op'[c].child \in Store!Inums(View[d].content)
  BY <1>1, <1>4, <1>13
<1>18. QED
  BY <1>1, <1>5, <1>6, <1>11, <1>12, <1>13, <1>14, <1>15, <1>16, <1>17, NamesShrink
-----------------------------------------------------------------------------
(* The steps of FileCache                                                  *)

StoreStep == [AsOneStore!StoreNext]_<<View, Unlinked>>

\* The contents' operators do not depend on which store they are about.
LEMMA SameOperators ==
  /\ AsOneStore!Empty = Store!Empty
  /\ AsOneStore!Absent = Store!Absent
  /\ \A v : AsOneStore!Extent(v) = Store!Extent(v) /\ AsOneStore!Written(v) = Store!Written(v)
  /\ \A v : AsOneStore!Names(v) = Store!Names(v) /\ AsOneStore!Inums(v) = Store!Inums(v)
  /\ \A v, n : AsOneStore!Find(v, n) = Store!Find(v, n)
  /\ \A v, n : AsOneStore!Strike(v, n) = Store!Strike(v, n)
  /\ \A v, n, i : AsOneStore!Enter(v, n, i) = Store!Enter(v, n, i)
<1>1. AsOneStore!Empty = Store!Empty
  BY DEF AsOneStore!Empty, Store!Empty
<1>2. AsOneStore!Absent = Store!Absent
  BY <1>1 DEF AsOneStore!Absent, Store!Absent
<1>3. \A v : AsOneStore!Extent(v) = Store!Extent(v) /\ AsOneStore!Written(v) = Store!Written(v)
  BY DEF AsOneStore!Extent, Store!Extent, AsOneStore!Written, Store!Written
<1>4. \A v : AsOneStore!Names(v) = Store!Names(v) /\ AsOneStore!Inums(v) = Store!Inums(v)
  BY DEF AsOneStore!Names, Store!Names, AsOneStore!Inums, Store!Inums
<1>5. \A v, n : AsOneStore!Find(v, n) = Store!Find(v, n)
  BY DEF AsOneStore!Find, Store!Find
<1>6. \A v, n : AsOneStore!Strike(v, n) = Store!Strike(v, n)
  BY <1>5 DEF AsOneStore!Strike, Store!Strike
<1>7. \A v, n, i : AsOneStore!Enter(v, n, i) = Store!Enter(v, n, i)
  BY DEF AsOneStore!Enter, Store!Enter
<1>8. QED BY <1>1, <1>2, <1>3, <1>4, <1>5, <1>6, <1>7

LEMMA UnlinkedSame ==
  ASSUME \A d \in Client : Unlinking(d)' <=> Unlinking(d),
         \A d \in Client : Unlinking(d) => op'[d] = op[d]
  PROVE  Unlinked' = Unlinked
<1>1. Unlinked = {op[d].child : d \in {e \in Client : Unlinking(e)}}
  BY DEF Unlinked, Unlinking
<1>2. Unlinked' = {op'[d].child : d \in {e \in Client : Unlinking(e)'}}
  BY DEF Unlinked, Unlinking
<1>3. QED BY <1>1, <1>2

LEMMA Stutter ==
  ASSUME View' = View, Unlinked' = Unlinked
  PROVE  StoreStep
BY DEF StoreStep

LEMMA NoOperationType ==
  /\ NoOperation \in Operation
  /\ NoOperation.kind = "get" /\ NoOperation.ino = Root /\ NoOperation.child = Root
BY DEF NoOperation, Operation, Inum, FileOps, DirOps

\* An operation ends.
LEMMA ReleaseEffect ==
  ASSUME Shape, LocksInv, NEW c \in Client, Release(c),
         cache' \in [Client -> [Inum -> AnyDetails]],
         seen' \in [Client -> SUBSET Inum]
  PROVE  /\ Shape' /\ LocksInv'
         /\ op'[c] = NoOperation /\ at'[c] = "idle"
         /\ \A d \in Client \ {c} : at'[d] = at[d] /\ op'[d] = op[d]
         /\ UNCHANGED <<ext, owner, used>>
         /\ ~ Creating(c)' /\ ~ Unlinking(c)'
<1>1. /\ held' = [held EXCEPT ![c] = {}]
      /\ at' = [at EXCEPT ![c] = "idle"]
      /\ op' = [op EXCEPT ![c] = NoOperation]
      /\ UNCHANGED <<ext, owner, used, ops>>
  BY DEF Release
<1>2. Shape'
  BY <1>1, NoOperationType DEF Shape
<1>3. op'[c] = NoOperation /\ at'[c] = "idle" /\ held'[c] = {}
  BY <1>1 DEF Shape
<1>4. \A d \in Client \ {c} : at'[d] = at[d] /\ op'[d] = op[d] /\ held'[d] = held[d]
  BY <1>1 DEF Shape
<1>5. LocksInv'
  <2>1. ASSUME NEW d \in Client
        PROVE  /\ \A i \in held'[d] : owner'[i] = d
               /\ at'[d] \in {"look", "second", "do"} => op'[d].ino \in held'[d]
               /\ at'[d] \in {"look", "second"} => op'[d].kind \in TwoLocks
               /\ at'[d] = "do" /\ op'[d].kind \in TwoLocks => op'[d].child \in held'[d]
               /\ at'[d] = "idle" => op'[d] = NoOperation
               /\ op'[d].kind \in {"write", "setattr"} => op'[d].ino \in File
               /\ op'[d].kind \in TwoLocks => op'[d].ino \in Dir /\ op'[d].name \in Name
    <3>1. CASE d = c
      BY <1>3, <3>1, NoOperationType DEF TwoLocks
    <3>2. CASE d # c
      BY <1>1, <1>4, <3>2 DEF LocksInv
    <3>3. QED BY <3>1, <3>2
  <2>2. QED BY <2>1 DEF LocksInv, NoOperation
<1>6. ~ Creating(c)' /\ ~ Unlinking(c)'
  BY <1>3 DEF Creating, Unlinking
<1>7. QED BY <1>1, <1>2, <1>3, <1>4, <1>5, <1>6

\* An operation goes on to its second inode.
LEMMA GoOnEffect ==
  ASSUME Shape, LocksInv, NEW c \in Client, at[c] = "look", NEW i \in Inum, GoOn(c, i),
         cache' \in [Client -> [Inum -> AnyDetails]], used' \subseteq Inum
  PROVE  /\ Shape' /\ LocksInv'
         /\ op'[c] = [op[c] EXCEPT !.child = i] /\ at'[c] = "second"
         /\ op'[c].kind = op[c].kind /\ op'[c].child = i /\ op'[c].ino = op[c].ino
         /\ \A d \in Client \ {c} : at'[d] = at[d] /\ op'[d] = op[d]
         /\ UNCHANGED <<ext, owner, seen>>
         /\ ~ Creating(c) /\ ~ Unlinking(c)
<1>1. /\ op' = [op EXCEPT ![c].child = i]
      /\ at' = [at EXCEPT ![c] = "second"]
      /\ UNCHANGED <<ext, owner, held, seen, ops>>
  BY DEF GoOn
<1>2. op[c] \in Operation /\ op'[c] = [op[c] EXCEPT !.child = i] /\ at'[c] = "second"
  BY <1>1 DEF Shape
<1>3. op'[c] \in Operation /\ op'[c].kind = op[c].kind /\ op'[c].child = i
      /\ op'[c].ino = op[c].ino /\ op'[c].name = op[c].name
  BY <1>2 DEF Operation
<1>4. \A d \in Client \ {c} : at'[d] = at[d] /\ op'[d] = op[d]
  BY <1>1 DEF Shape
<1>5. op' \in [Client -> Operation]
  <2>1. op' = [op EXCEPT ![c] = op'[c]]
    BY <1>1, <1>2 DEF Shape
  <2>2. QED BY <1>3, <2>1 DEF Shape
<1>6. Shape'
  BY <1>1, <1>5 DEF Shape
<1>7. LocksInv'
  <2>1. ASSUME NEW d \in Client
        PROVE  /\ \A j \in held'[d] : owner'[j] = d
               /\ at'[d] \in {"look", "second", "do"} => op'[d].ino \in held'[d]
               /\ at'[d] \in {"look", "second"} => op'[d].kind \in TwoLocks
               /\ at'[d] = "do" /\ op'[d].kind \in TwoLocks => op'[d].child \in held'[d]
               /\ at'[d] = "idle" => op'[d] = NoOperation
               /\ op'[d].kind \in {"write", "setattr"} => op'[d].ino \in File
               /\ op'[d].kind \in TwoLocks => op'[d].ino \in Dir /\ op'[d].name \in Name
    <3>1. CASE d = c
      BY <1>1, <1>2, <1>3, <3>1 DEF LocksInv
    <3>2. CASE d # c
      BY <1>1, <1>4, <3>2 DEF LocksInv
    <3>3. QED BY <3>1, <3>2
  <2>2. QED BY <2>1 DEF LocksInv, NoOperation
<1>8. ~ Creating(c) /\ ~ Unlinking(c)
  BY DEF Creating, Unlinking
<1>9. QED BY <1>1, <1>2, <1>3, <1>4, <1>6, <1>7, <1>8

LEMMA OthersUnlink ==
  ASSUME NEW c \in Client, \A d \in Client \ {c} : at'[d] = at[d] /\ op'[d] = op[d],
         Unlinking(c)' <=> Unlinking(c), Unlinking(c) => op'[c] = op[c]
  PROVE  Unlinked' = Unlinked
<1>1. \A d \in Client : (Unlinking(d)' <=> Unlinking(d)) /\ (Unlinking(d) => op'[d] = op[d])
  BY DEF Unlinking
<1>2. QED BY <1>1, UnlinkedSame

\* Where an operation works, it has the lock, and finds what clients see.
LEMMA OwnedInodes ==
  ASSUME FileInvariant, NEW c \in Client, at[c] \in {"look", "do"}
  PROVE  /\ op[c] \in Operation /\ op[c].ino \in Inum /\ op[c].child \in Inum
         /\ op[c].ino \in Known
         /\ owner[op[c].ino] = c
         /\ at[c] = "do" /\ op[c].kind \in TwoLocks => owner[op[c].child] = c
         /\ Got(cache[c], op[c].ino) = View[op[c].ino].content
         /\ View[op[c].ino].content \in AnyContent
<1>1. op[c] \in Operation /\ op[c].ino \in Inum /\ op[c].child \in Inum
  BY DEF FileInvariant, Shape, Operation
<1>2. owner[op[c].ino] = c /\ (at[c] = "do" /\ op[c].kind \in TwoLocks => owner[op[c].child] = c)
  BY DEF FileInvariant, LocksInv
<1>3. Got(cache[c], op[c].ino) = View[op[c].ino].content
  BY <1>1, <1>2, FetchedEntry DEF FileInvariant
<1>4. View[op[c].ino].content \in AnyContent
  BY <1>1, ViewType DEF FileInvariant
<1>5. QED BY <1>1, <1>2, <1>3, <1>4 DEF FileInvariant, NamesInv, KnownInv

\* What is left to show of an operation that ends and sees no change.
LEMMA EndUnseen ==
  ASSUME FileInvariant, NEW c \in Client, Release(c), ~ Creating(c), ~ Unlinking(c),
         cache' \in [Client -> [Inum -> AnyDetails]], CacheInv', View' = View,
         seen' \in [Client -> SUBSET Inum],
         \A d \in Client \ {c} : seen'[d] = seen[d],
         seen'[c] \subseteq Known
  PROVE  FileInvariant' /\ StoreStep
<1>1. Shape /\ LocksInv /\ NamesInv
  BY DEF FileInvariant
<1>2. /\ Shape' /\ LocksInv' /\ op'[c] = NoOperation
      /\ \A d \in Client \ {c} : at'[d] = at[d] /\ op'[d] = op[d]
      /\ used' = used /\ ~ Creating(c)' /\ ~ Unlinking(c)'
  BY <1>1, ReleaseEffect
<1>3. op'[c].ino \in Known /\ op'[c].child \in Known
  BY <1>1, <1>2, NoOperationType DEF NamesInv, KnownInv
<1>4. NamesInv'
  BY <1>1, <1>2, <1>3, NamesSame
<1>5. Unlinked' = Unlinked
  BY <1>2, OthersUnlink
<1>6. QED BY <1>2, <1>4, <1>5, Stutter DEF FileInvariant

LEMMA SeenType ==
  ASSUME FileInvariant
  PROVE  /\ seen \in [Client -> SUBSET Inum]
         /\ \A c \in Client : seen[c] \subseteq Known
BY DEF FileInvariant, Shape, NamesInv, KnownInv

LEMMA FetchOfOperation ==
  ASSUME FileInvariant, NEW c \in Client, at[c] \in {"look", "do"}, UNCHANGED <<ext, owner>>,
         cache' = [cache EXCEPT ![c] = Fetched(cache[c], op[c].ino)]
  PROVE  /\ cache' \in [Client -> [Inum -> AnyDetails]]
         /\ CacheInv'
         /\ View' = View
BY OwnedInodes, FetchChange DEF FileInvariant

LEMMA GetStep ==
  ASSUME FileInvariant, NEW c \in Client, Get(c)
  PROVE  FileInvariant' /\ StoreStep
<1>1. at[c] = "do" /\ op[c].kind = "get" /\ Release(c) /\ UNCHANGED seen
      /\ UNCHANGED <<ext, owner>>
      /\ cache' = [cache EXCEPT ![c] = Fetched(cache[c], op[c].ino)]
  BY DEF Get, Release
<1>2. ~ Creating(c) /\ ~ Unlinking(c)
  BY <1>1 DEF Creating, Unlinking
<1>3. /\ cache' \in [Client -> [Inum -> AnyDetails]]
      /\ CacheInv' /\ View' = View
  BY <1>1, FetchOfOperation
<1>4. QED BY <1>1, <1>2, <1>3, SeenType, EndUnseen

LEMMA LookFailsStep ==
  ASSUME FileInvariant, NEW c \in Client, LookFails(c)
  PROVE  FileInvariant' /\ StoreStep
<1>1. at[c] = "look" /\ Release(c) /\ UNCHANGED seen
      /\ UNCHANGED <<ext, owner>>
      /\ cache' = [cache EXCEPT ![c] = Fetched(cache[c], op[c].ino)]
  BY DEF LookFails, Release
<1>2. ~ Creating(c) /\ ~ Unlinking(c)
  BY <1>1 DEF Creating, Unlinking
<1>3. /\ cache' \in [Client -> [Inum -> AnyDetails]]
      /\ CacheInv' /\ View' = View
  BY <1>1, FetchOfOperation
<1>4. QED BY <1>1, <1>2, <1>3, SeenType, EndUnseen

LEMMA NoNumberStep ==
  ASSUME FileInvariant, NEW c \in Client, NoNumber(c)
  PROVE  FileInvariant' /\ StoreStep
<1>1. at[c] = "look" /\ Release(c) /\ UNCHANGED <<ext, owner, cache, seen>>
  BY DEF NoNumber, Release
<1>2. ~ Creating(c) /\ ~ Unlinking(c)
  BY <1>1 DEF Creating, Unlinking
<1>3. /\ cache' \in [Client -> [Inum -> AnyDetails]]
      /\ CacheInv' /\ View' = View
  BY <1>1, NoChange DEF FileInvariant, Shape
<1>4. QED BY <1>1, <1>2, <1>3, SeenType, EndUnseen

LEMMA GetFoundStep ==
  ASSUME FileInvariant, NEW c \in Client, GetFound(c)
  PROVE  FileInvariant' /\ StoreStep
<1>1. at[c] = "do" /\ op[c].kind = "lookup" /\ Release(c)
      /\ UNCHANGED <<ext, owner>>
      /\ cache' = [cache EXCEPT ![c] = Fetched(cache[c], op[c].child)]
      /\ seen' = [seen EXCEPT ![c] = IF getattrOK(c, op[c].child)
                                     THEN seen[c] \cup {op[c].child} ELSE seen[c]]
  BY DEF GetFound, Release
<1>2. ~ Creating(c) /\ ~ Unlinking(c) /\ op[c].kind \in TwoLocks
  BY <1>1 DEF Creating, Unlinking, TwoLocks
<1>3. op[c].child \in Inum /\ owner[op[c].child] = c /\ op[c].child \in Known
  BY <1>1, <1>2, OwnedInodes DEF FileInvariant, NamesInv, KnownInv
<1>4. /\ cache' \in [Client -> [Inum -> AnyDetails]]
      /\ CacheInv' /\ View' = View
  BY <1>1, <1>3, FetchChange DEF FileInvariant
<1>5. /\ seen' \in [Client -> SUBSET Inum]
      /\ \A d \in Client \ {c} : seen'[d] = seen[d]
      /\ seen'[c] \subseteq Known
  BY <1>1, <1>3, SeenType
<1>6. QED BY <1>1, <1>2, <1>4, <1>5, EndUnseen

LEMMA LookCreateStep ==
  ASSUME FileInvariant, NEW c \in Client, LookCreate(c)
  PROVE  FileInvariant' /\ StoreStep
<1>1. at[c] = "look" /\ op[c].kind = "create"
      /\ op[c].name \notin Store!Names(Got(cache[c], op[c].ino))
      /\ cache' = [cache EXCEPT ![c] = Fetched(cache[c], op[c].ino)]
  BY DEF LookCreate, Entries
<1>2. PICK i \in File \ used : GoOn(c, i) /\ used' = used \cup {i}
  BY DEF LookCreate, get_new_inum
<1>3. UNCHANGED <<ext, owner>>
  BY <1>2 DEF GoOn
<1>4. Shape /\ LocksInv /\ NamesInv /\ i \in Inum \ used /\ used' \subseteq Inum
  BY <1>2 DEF FileInvariant, Inum, Shape
<1>5. /\ cache' \in [Client -> [Inum -> AnyDetails]]
      /\ CacheInv' /\ View' = View
  BY <1>1, <1>3, FetchOfOperation
<1>6. /\ Shape' /\ LocksInv'
      /\ op'[c] = [op[c] EXCEPT !.child = i] /\ at'[c] = "second"
      /\ op'[c].kind = op[c].kind /\ seen' = seen
      /\ \A d \in Client \ {c} : at'[d] = at[d] /\ op'[d] = op[d]
      /\ ~ Creating(c) /\ ~ Unlinking(c)
  BY <1>1, <1>2, <1>4, <1>5, GoOnEffect
<1>7. Creating(c)' /\ ~ Unlinking(c)'
  BY <1>1, <1>6 DEF Creating, Unlinking
<1>8. op[c].name \notin Store!Names(View[op[c].ino].content)
  BY <1>1, OwnedInodes
<1>9. NamesInv'
  BY <1>1, <1>2, <1>4, <1>5, <1>6, <1>7, <1>8, NamesNew
<1>10. Unlinked' = Unlinked
  BY <1>6, <1>7, OthersUnlink
<1>11. QED BY <1>5, <1>6, <1>9, <1>10, Stutter DEF FileInvariant

LEMMA LookMkdirStep ==
  ASSUME FileInvariant, NEW c \in Client, LookMkdir(c)
  PROVE  FileInvariant' /\ StoreStep
<1>1. at[c] = "look" /\ op[c].kind = "mkdir" /\ UNCHANGED cache
  BY DEF LookMkdir
<1>2. PICK i \in Dir \ used : GoOn(c, i) /\ used' = used \cup {i}
  BY DEF LookMkdir, get_new_inum
<1>3. UNCHANGED <<ext, owner>>
  BY <1>2 DEF GoOn
<1>4. Shape /\ LocksInv /\ NamesInv /\ i \in Inum \ used /\ used' \subseteq Inum
  BY <1>2 DEF FileInvariant, Inum, Shape
<1>5. /\ cache' \in [Client -> [Inum -> AnyDetails]]
      /\ CacheInv' /\ View' = View
  BY <1>1, <1>3, NoChange DEF FileInvariant, Shape
<1>6. /\ Shape' /\ LocksInv'
      /\ op'[c] = [op[c] EXCEPT !.child = i] /\ at'[c] = "second"
      /\ op'[c].kind = op[c].kind /\ seen' = seen
      /\ \A d \in Client \ {c} : at'[d] = at[d] /\ op'[d] = op[d]
      /\ ~ Creating(c) /\ ~ Unlinking(c)
  BY <1>1, <1>2, <1>4, <1>5, GoOnEffect
<1>7. Creating(c)' /\ ~ Unlinking(c)'
  BY <1>1, <1>6 DEF Creating, Unlinking
<1>8. NamesInv'
  BY <1>1, <1>2, <1>4, <1>5, <1>6, <1>7, NamesNew
<1>9. Unlinked' = Unlinked
  BY <1>6, <1>7, OthersUnlink
<1>10. QED BY <1>5, <1>6, <1>8, <1>9, Stutter DEF FileInvariant

\* What a request leaves an operation.
LEMMA RequestOperation ==
  ASSUME Shape, LocksInv, NEW c \in Client, Request(c)
  PROVE  /\ at[c] = "idle" /\ at'[c] = "first"
         /\ UNCHANGED <<ext, cache, owner, held, seen, used>>
         /\ ops' \in 0..MaxOps /\ at' = [at EXCEPT ![c] = "first"]
         /\ op' \in [Client -> Operation]
         /\ op'[c].ino \in seen[c] /\ op'[c].child = op[c].child
         /\ op'[c].kind \in {"write", "setattr"} => op'[c].ino \in File
         /\ op'[c].kind \in TwoLocks => op'[c].ino \in Dir /\ op'[c].name \in Name
         /\ \A d \in Client \ {c} : at'[d] = at[d] /\ op'[d] = op[d]
<1>1. /\ at[c] = "idle" /\ ops < MaxOps
      /\ at' = [at EXCEPT ![c] = "first"] /\ ops' = ops + 1
      /\ UNCHANGED <<ext, cache, owner, held, seen, used>>
  BY DEF Request
<1>2. op \in [Client -> Operation] /\ op[c] \in Operation /\ op[c] = NoOperation
      /\ seen[c] \subseteq Inum /\ ops \in 0..MaxOps /\ at'[c] = "first"
  BY <1>1 DEF Shape, LocksInv
<1> DEFINE Good(o) == /\ o \in Operation
                      /\ o.ino \in seen[c] /\ o.child = op[c].child
                      /\ o.kind \in {"write", "setattr"} => o.ino \in File
                      /\ o.kind \in TwoLocks => o.ino \in Dir /\ o.name \in Name
<1>3. ASSUME NEW i \in seen[c],
             NEW k \in (IF i \in File THEN FileOps ELSE DirOps) \ TwoLocks
      PROVE  Good([op[c] EXCEPT !.kind = k, !.ino = i])
  <2>1. k \in FileOps \cup DirOps /\ k \notin TwoLocks
        /\ (k \in {"write", "setattr"} => i \in File)
    BY DEF FileOps, DirOps
  <2>2. QED BY <1>2, <2>1 DEF Operation
<1>4. ASSUME NEW i \in seen[c], NEW k \in TwoLocks, NEW n \in Name, i \in Dir
      PROVE  Good([op[c] EXCEPT !.kind = k, !.ino = i, !.name = n])
  <2>1. k \in FileOps \cup DirOps /\ k \notin {"write", "setattr"}
    BY DEF TwoLocks, FileOps, DirOps
  <2>2. QED BY <1>2, <1>4, <2>1 DEF Operation
<1> HIDE DEF Good
<1>5. ASSUME NEW k, NEW i, NEW n
      PROVE  /\ [op EXCEPT ![c].kind = k, ![c].ino = i]
                  = [op EXCEPT ![c] = [op[c] EXCEPT !.kind = k, !.ino = i]]
             /\ [op EXCEPT ![c].kind = k, ![c].ino = i, ![c].name = n]
                  = [op EXCEPT ![c] = [op[c] EXCEPT !.kind = k, !.ino = i, !.name = n]]
  BY <1>2
<1>6. PICK o : op' = [op EXCEPT ![c] = o] /\ Good(o)
  <2>1. PICK i \in seen[c] :
          \/ \E k \in (IF i \in File THEN FileOps ELSE DirOps) \ TwoLocks :
               op' = [op EXCEPT ![c].kind = k, ![c].ino = i]
          \/ \E k \in TwoLocks, n \in Name :
               i \in Dir /\ op' = [op EXCEPT ![c].kind = k, ![c].ino = i, ![c].name = n]
    BY DEF Request
  <2>2. CASE \E k \in (IF i \in File THEN FileOps ELSE DirOps) \ TwoLocks :
               op' = [op EXCEPT ![c].kind = k, ![c].ino = i]
    <3>1. PICK k \in (IF i \in File THEN FileOps ELSE DirOps) \ TwoLocks :
            op' = [op EXCEPT ![c].kind = k, ![c].ino = i]
      BY <2>2
    <3> DEFINE r == [op[c] EXCEPT !.kind = k, !.ino = i]
    <3>2. op' = [op EXCEPT ![c] = r]
      BY <1>5, <3>1
    <3>3. Good(r)
      BY <1>3
    <3>4. QED BY <3>2, <3>3
  <2>3. CASE \E k \in TwoLocks, n \in Name :
               i \in Dir /\ op' = [op EXCEPT ![c].kind = k, ![c].ino = i, ![c].name = n]
    <3>1. PICK k \in TwoLocks, n \in Name :
            i \in Dir /\ op' = [op EXCEPT ![c].kind = k, ![c].ino = i, ![c].name = n]
      BY <2>3
    <3> DEFINE r == [op[c] EXCEPT !.kind = k, !.ino = i, !.name = n]
    <3>2. op' = [op EXCEPT ![c] = r]
      BY <1>5, <3>1
    <3>3. Good(r)
      BY <1>4, <3>1
    <3>4. QED BY <3>2, <3>3
  <2>4. QED BY <2>1, <2>2, <2>3
<1>7. op'[c] = o /\ \A d \in Client \ {c} : at'[d] = at[d] /\ op'[d] = op[d]
  BY <1>1, <1>2, <1>6 DEF Shape
<1>8. op' \in [Client -> Operation]
  BY <1>2, <1>6 DEF Good
<1>9. ops' \in 0..MaxOps
  BY <1>1, <1>2
<1>10. QED BY <1>1, <1>2, <1>6, <1>7, <1>8, <1>9 DEF Good

LEMMA RequestStep ==
  ASSUME FileInvariant, NEW c \in Client, Request(c)
  PROVE  FileInvariant' /\ StoreStep
<1>1. Shape /\ LocksInv /\ CacheInv /\ NamesInv
  BY DEF FileInvariant
<1>2. /\ at[c] = "idle" /\ at'[c] = "first"
      /\ UNCHANGED <<ext, cache, owner, held, seen, used>>
      /\ ops' \in 0..MaxOps /\ at' = [at EXCEPT ![c] = "first"]
      /\ op' \in [Client -> Operation]
      /\ op'[c].ino \in seen[c] /\ op'[c].child = op[c].child
      /\ op'[c].kind \in {"write", "setattr"} => op'[c].ino \in File
      /\ op'[c].kind \in TwoLocks => op'[c].ino \in Dir /\ op'[c].name \in Name
      /\ \A d \in Client \ {c} : at'[d] = at[d] /\ op'[d] = op[d]
  BY <1>1, RequestOperation
<1>3. Shape'
  BY <1>1, <1>2 DEF Shape
<1>4. LocksInv'
  <2>1. ASSUME NEW d \in Client
        PROVE  /\ \A i \in held'[d] : owner'[i] = d
               /\ at'[d] \in {"look", "second", "do"} => op'[d].ino \in held'[d]
               /\ at'[d] \in {"look", "second"} => op'[d].kind \in TwoLocks
               /\ at'[d] = "do" /\ op'[d].kind \in TwoLocks => op'[d].child \in held'[d]
               /\ at'[d] = "idle" => op'[d] = NoOperation
               /\ op'[d].kind \in {"write", "setattr"} => op'[d].ino \in File
               /\ op'[d].kind \in TwoLocks => op'[d].ino \in Dir /\ op'[d].name \in Name
    <3>1. CASE d = c
      BY <1>1, <1>2, <3>1 DEF LocksInv
    <3>2. CASE d # c
      BY <1>1, <1>2, <3>2 DEF LocksInv
    <3>3. QED BY <3>1, <3>2
  <2>2. QED BY <2>1 DEF LocksInv, NoOperation
<1>5. CacheInv' /\ View' = View
  BY <1>1, <1>2, NoChange
<1>6. ~ Creating(c) /\ ~ Creating(c)' /\ ~ Unlinking(c) /\ ~ Unlinking(c)'
  BY <1>2 DEF Creating, Unlinking
<1>7. seen'[c] \subseteq Known /\ op'[c].ino \in Known /\ op'[c].child \in Known
  BY <1>1, <1>2, <1>6 DEF NamesInv, KnownInv
<1>8. NamesInv'
  BY <1>1, <1>2, <1>5, <1>6, <1>7, NamesSame
<1>9. Unlinked' = Unlinked
  BY <1>2, <1>6, OthersUnlink
<1>10. QED BY <1>3, <1>4, <1>5, <1>8, <1>9, Stutter DEF FileInvariant

\* A lock is acquired, and the operation goes on.
LEMMA AcquireEffect ==
  ASSUME FileInvariant, NEW c \in Client, NEW i \in Inum, Acquire(c, i),
         NEW a \in {"look", "do"}, at' = [at EXCEPT ![c] = a],
         \/ at[c] = "first" /\ i = op[c].ino /\ (a = "do" <=> op[c].kind \notin TwoLocks)
         \/ at[c] = "second" /\ i = op[c].child /\ a = "do"
  PROVE  FileInvariant' /\ StoreStep
<1>1. Shape /\ LocksInv /\ CacheInv /\ NamesInv
  BY DEF FileInvariant
<1>2. /\ owner[i] \in {c, NoOne}
      /\ owner' = [owner EXCEPT ![i] = c]
      /\ held' = [held EXCEPT ![c] = held[c] \cup {i}]
      /\ UNCHANGED <<ext, cache, op, seen, used, ops>>
  BY DEF Acquire
<1>3. Shape'
  BY <1>1, <1>2 DEF Shape
<1>4. /\ at'[c] = a /\ held'[c] = held[c] \cup {i} /\ owner'[i] = c
      /\ \A d \in Client \ {c} : at'[d] = at[d] /\ held'[d] = held[d]
      /\ \A j \in Inum \ {i} : owner'[j] = owner[j]
  BY <1>1, <1>2 DEF Shape
<1>5. LocksInv'
  <2>1. ASSUME NEW d \in Client, NEW j \in held'[d] PROVE owner'[j] = d
    <3>1. CASE j = i
      <4>1. \A e \in Client : i \in held[e] => owner[i] = e
        BY <1>1 DEF LocksInv
      <4>2. d = c
        BY <1>2, <1>4, <2>1, <3>1, <4>1
      <4>3. QED BY <1>4, <3>1, <4>2
    <3>2. CASE j # i
      BY <1>1, <1>4, <2>1, <3>2 DEF LocksInv, Shape
    <3>3. QED BY <3>1, <3>2
  <2>2. ASSUME NEW d \in Client
        PROVE  /\ at'[d] \in {"look", "second", "do"} => op'[d].ino \in held'[d]
               /\ at'[d] \in {"look", "second"} => op'[d].kind \in TwoLocks
               /\ at'[d] = "do" /\ op'[d].kind \in TwoLocks => op'[d].child \in held'[d]
               /\ at'[d] = "idle" => op'[d] = NoOperation
               /\ op'[d].kind \in {"write", "setattr"} => op'[d].ino \in File
               /\ op'[d].kind \in TwoLocks => op'[d].ino \in Dir /\ op'[d].name \in Name
    <3>1. CASE d = c
      BY <1>1, <1>2, <1>4, <3>1 DEF LocksInv
    <3>2. CASE d # c
      BY <1>1, <1>2, <1>4, <3>2 DEF LocksInv
    <3>3. QED BY <3>1, <3>2
  <2>3. QED BY <2>1, <2>2 DEF LocksInv, NoOperation
<1>6. CacheInv' /\ View' = View
  BY <1>1, <1>2, OwnerChange
<1>7. /\ Creating(c)' <=> Creating(c)
      /\ Unlinking(c)' <=> Unlinking(c)
      /\ op'[c] = op[c]
  BY <1>2, <1>4 DEF Creating, Unlinking, TwoLocks
<1>8. seen'[c] \subseteq Known /\ op'[c].ino \in Known
      /\ (~ Creating(c) => op'[c].child \in Known)
  BY <1>1, <1>2 DEF NamesInv, KnownInv
<1>9. NamesInv'
  BY <1>1, <1>2, <1>4, <1>6, <1>7, <1>8, NamesSame
<1>10. Unlinked' = Unlinked
  BY <1>2, <1>4, <1>7, OthersUnlink
<1>11. QED BY <1>3, <1>5, <1>6, <1>9, <1>10, Stutter DEF FileInvariant

LEMMA AcquireStep ==
  ASSUME FileInvariant, NEW c \in Client, AcquireFirst(c) \/ AcquireSecond(c)
  PROVE  FileInvariant' /\ StoreStep
<1>1. op[c].ino \in Inum /\ op[c].child \in Inum
  BY DEF FileInvariant, Shape, Operation
<1>2. CASE AcquireFirst(c)
  <2> DEFINE a == IF op[c].kind \in TwoLocks THEN "look" ELSE "do"
  <2>1. /\ at[c] = "first" /\ Acquire(c, op[c].ino) /\ at' = [at EXCEPT ![c] = a]
        /\ a \in {"look", "do"} /\ (a = "do" <=> op[c].kind \notin TwoLocks)
    BY <1>2 DEF AcquireFirst
  <2> HIDE DEF a
  <2>2. QED BY <1>1, <2>1, AcquireEffect
<1>3. CASE AcquireSecond(c)
  <2>1. at[c] = "second" /\ Acquire(c, op[c].child) /\ at' = [at EXCEPT ![c] = "do"]
    BY <1>3 DEF AcquireSecond
  <2>2. QED BY <1>1, <2>1, AcquireEffect
<1>4. QED BY <1>2, <1>3

\* A step in which the releaser gives a lock back, on either side of the call.
GivesBack(i) == (\E c \in Client : dorelease(c, i)) \/ Released(i)

LEMMA GiveBackChange ==
  ASSUME FileInvariant, ReleasingInv, NEW i \in Inum, GivesBack(i)
  PROVE  /\ Shape' /\ CacheInv' /\ View' = View
         /\ i \notin held[owner[i]] /\ owner[i] \in Client
         /\ owner' \in {owner, [owner EXCEPT ![i] = NoOne]}
         /\ UNCHANGED <<held, at, op, seen, used, ops>>
<1>1. Shape /\ CacheInv
  BY DEF FileInvariant
<1>2. CASE \E c \in Client : dorelease(c, i)
  <2>1. PICK c \in Client : dorelease(c, i)
    BY <1>2
  <2>2. /\ owner[i] = c /\ i \notin held[c] /\ owner' = owner
        /\ UNCHANGED <<held, at, op, seen, used, ops>>
    BY <2>1 DEF dorelease, GiveBack
  <2>3. /\ ext' \in [Inum -> AnyExtent]
        /\ cache' \in [Client -> [Inum -> AnyDetails]]
        /\ CacheInv' /\ View' = View
    BY <1>1, <2>1, DoreleaseChange
  <2>4. QED BY <1>1, <2>2, <2>3 DEF Shape
<1>3. CASE Released(i)
  <2>1. /\ i \in releasing
        /\ owner' = [owner EXCEPT ![i] = NoOne]
        /\ UNCHANGED <<ext, cache, held, at, op, seen, used, ops>>
    BY <1>3 DEF Released
  <2>2. owner' \in [Inum -> Client \cup {NoOne}] /\ CacheInv' /\ View' = View
    BY <1>1, <1>3, ReleasedChange
  <2>3. owner[i] \in Client /\ i \notin held[owner[i]]
    BY <1>1, <2>1 DEF Shape, ReleasingInv
  <2>4. QED BY <1>1, <2>1, <2>2, <2>3 DEF Shape
<1>4. QED BY <1>2, <1>3 DEF GivesBack

LEMMA GiveBackStep ==
  ASSUME FileInvariant, ReleasingInv, NEW i \in Inum, GivesBack(i)
  PROVE  FileInvariant' /\ StoreStep
<1>1. Shape /\ LocksInv /\ CacheInv /\ NamesInv
  BY DEF FileInvariant
<1> DEFINE c == owner[i]
<1>2. /\ i \notin held[c] /\ c \in Client
      /\ owner' \in {owner, [owner EXCEPT ![i] = NoOne]}
      /\ UNCHANGED <<held, at, op, seen, used, ops>>
  BY GiveBackChange
<1>3. Shape' /\ CacheInv' /\ View' = View
  BY GiveBackChange
<1> HIDE DEF c
<1>5. LocksInv'
  <2>1. ASSUME NEW d \in Client, NEW j \in held[d] PROVE owner'[j] = d
    <3>1. owner[j] = d /\ j \in Inum
      BY <1>1 DEF LocksInv, Shape
    <3>2. j # i
      BY <1>2, <3>1 DEF c
    <3>3. QED BY <1>1, <1>2, <3>1, <3>2 DEF Shape
  <2>2. QED BY <1>1, <1>2, <2>1 DEF LocksInv, NoOperation
<1>6. \A d \in Client : /\ Creating(d)' <=> Creating(d)
                        /\ Unlinking(d)' <=> Unlinking(d)
  BY <1>2 DEF Creating, Unlinking
<1>7. seen'[c] \subseteq Known /\ op'[c].ino \in Known
      /\ (~ Creating(c) => op'[c].child \in Known)
  BY <1>1, <1>2 DEF NamesInv, KnownInv
<1>8. NamesInv'
  BY <1>1, <1>2, <1>3, <1>6, <1>7, NamesSame
<1>9. Unlinked' = Unlinked
  BY <1>2, <1>6, UnlinkedSame
<1>10. QED BY <1>3, <1>5, <1>8, <1>9, Stutter DEF FileInvariant

\* What is left to show of an operation that ends by writing a file.
LEMMA EndWritten ==
  ASSUME FileInvariant, NEW c \in Client, Release(c), ~ Creating(c), ~ Unlinking(c),
         cache' \in [Client -> [Inum -> AnyDetails]], CacheInv', UNCHANGED seen,
         NEW i \in Inum, i \in Known, NEW v \in AnyContent,
         View' = [View EXCEPT ![i] = Store!Extent(v)],
         v.entries \in {View[i].content.entries, << >>}
  PROVE  FileInvariant' /\ Unlinked' = Unlinked
<1>1. Shape /\ LocksInv /\ NamesInv /\ seen' \in [Client -> SUBSET Inum] /\ seen[c] \subseteq Known
  BY SeenType DEF FileInvariant
<1>2. /\ Shape' /\ LocksInv' /\ op'[c] = NoOperation
      /\ \A d \in Client \ {c} : at'[d] = at[d] /\ op'[d] = op[d]
      /\ used' = used /\ ~ Creating(c)' /\ ~ Unlinking(c)'
  BY <1>1, ReleaseEffect
<1>3. op'[c].ino \in Known /\ op'[c].child \in Known
  BY <1>1, <1>2, NoOperationType DEF NamesInv, KnownInv
<1>4. View \in [Inum -> AnyExtent]
  BY <1>1, ViewType
<1>5. /\ View'[i].there /\ View'[i].content = v
      /\ \A j \in Inum \ {i} : View'[j] = View[j]
  BY <1>4, ExtentType
<1>6. \A d \in Dir : View'[d].content.entries \in {View[d].content.entries, << >>}
  BY <1>5 DEF Inum
<1>7. /\ \A j \in Inum : View[j].there => View'[j].there
      /\ \A j \in Inum : View'[j].there => View[j].there \/ j \in Known
  BY <1>5
<1>8. NamesInv'
  BY <1>1, <1>2, <1>3, <1>6, <1>7, NamesStay
<1>9. Unlinked' = Unlinked
  BY <1>2, OthersUnlink
<1>10. QED BY <1>2, <1>8, <1>9 DEF FileInvariant

LEMMA WriteStep ==
  ASSUME FileInvariant, NEW c \in Client, fuseserver_write(c)
  PROVE  FileInvariant' /\ StoreStep
<1> DEFINE i == op[c].ino
           v == Store!Written(View[i].content)
<1>1. /\ at[c] = "do" /\ op[c].kind = "write" /\ Release(c) /\ UNCHANGED seen
      /\ UNCHANGED <<ext, owner>>
      /\ cache' = [cache EXCEPT ![c] = Put(cache[c], i, Store!Written(Got(cache[c], i)))]
  BY DEF fuseserver_write, Release
<1>2. ~ Creating(c) /\ ~ Unlinking(c) /\ Shape /\ CacheInv
  BY <1>1 DEF Creating, Unlinking, FileInvariant
<1>3. /\ i \in Inum /\ i \in Known /\ owner[i] = c
      /\ Got(cache[c], i) = View[i].content
      /\ View[i].content \in AnyContent
  BY <1>1, OwnedInodes
<1>4. i \in File
  BY <1>1 DEF FileInvariant, LocksInv
<1>5. v \in AnyContent /\ v.entries = View[i].content.entries
  BY <1>3, WrittenContent
<1>6. cache' = [cache EXCEPT ![c] = Put(cache[c], i, v)]
  BY <1>1, <1>3
<1> HIDE DEF i, v
<1>7. /\ cache' \in [Client -> [Inum -> AnyDetails]]
      /\ CacheInv'
      /\ View' = [View EXCEPT ![i] = Store!Extent(v)]
  <2>1. Puts(c, i, v)
    BY <1>1, <1>3, <1>6 DEF Puts
  <2>2. QED BY <1>2, <1>3, <1>5, <2>1, PutChange DEF Becomes
<1>8. FileInvariant' /\ Unlinked' = Unlinked
  BY <1>1, <1>2, <1>3, <1>5, <1>7, EndWritten
<1>9. AsOneStore!Write(i)
  BY <1>7, <1>8, SameOperators DEF AsOneStore!Write, v
<1>10. StoreStep
  BY <1>4, <1>9 DEF StoreStep, AsOneStore!StoreNext
<1>11. QED BY <1>8, <1>10

LEMMA SetattrStep ==
  ASSUME FileInvariant, NEW c \in Client, fuseserver_setattr(c)
  PROVE  FileInvariant' /\ StoreStep
<1> DEFINE i == op[c].ino
<1>1. /\ at[c] = "do" /\ op[c].kind = "setattr" /\ Release(c) /\ UNCHANGED seen
      /\ UNCHANGED <<ext, owner>>
      /\ cache' = [cache EXCEPT ![c] = Put(cache[c], i, Store!Empty)]
  BY DEF fuseserver_setattr, Release
<1>2. ~ Creating(c) /\ ~ Unlinking(c) /\ Shape /\ CacheInv
  BY <1>1 DEF Creating, Unlinking, FileInvariant
<1>3. i \in Inum /\ i \in Known /\ owner[i] = c
  BY <1>1, OwnedInodes
<1>4. i \in File
  BY <1>1 DEF FileInvariant, LocksInv
<1>5. Store!Empty \in AnyContent /\ Store!Empty.entries = << >>
  BY EmptyContent DEF Store!Empty
<1> HIDE DEF i
<1>6. /\ cache' \in [Client -> [Inum -> AnyDetails]]
      /\ CacheInv'
      /\ View' = [View EXCEPT ![i] = Store!Extent(Store!Empty)]
  <2>1. Puts(c, i, Store!Empty)
    BY <1>1, <1>3 DEF Puts
  <2>2. QED BY <1>2, <1>3, <1>5, <2>1, PutChange DEF Becomes
<1>7. FileInvariant' /\ Unlinked' = Unlinked
  BY <1>1, <1>2, <1>3, <1>5, <1>6, EndWritten
<1>8. AsOneStore!Truncate(i)
  BY <1>6, <1>7, SameOperators DEF AsOneStore!Truncate
<1>9. StoreStep
  BY <1>4, <1>8 DEF StoreStep, AsOneStore!StoreNext
<1>10. QED BY <1>7, <1>9

LEMMA LookLookupStep ==
  ASSUME FileInvariant, NEW c \in Client, LookLookup(c)
  PROVE  FileInvariant' /\ StoreStep
<1> DEFINE p == op[c].ino
           n == op[c].name
           i == FoundInum(c)
<1>1. /\ at[c] = "look" /\ op[c].kind = "lookup" /\ n \in Store!Names(Got(cache[c], p))
      /\ cache' = [cache EXCEPT ![c] = Fetched(cache[c], p)]
      /\ GoOn(c, i) /\ UNCHANGED <<ext, owner, used>>
  BY DEF LookLookup, Entries, GoOn
<1>2. Shape /\ LocksInv /\ NamesInv /\ used' \subseteq Inum
  BY <1>1 DEF FileInvariant, Shape
<1>3. /\ cache' \in [Client -> [Inum -> AnyDetails]]
      /\ CacheInv' /\ View' = View
  BY <1>1, FetchOfOperation
<1>4. Got(cache[c], p) = View[p].content /\ View[p].content \in AnyContent /\ p \in Dir
  BY <1>1, OwnedInodes DEF FileInvariant, LocksInv, TwoLocks
<1>5. i \in Store!Inums(View[p].content) /\ i \in Inum
  <2>1. n \in Store!Names(View[p].content)
    BY <1>1, <1>4
  <2>2. i = View[p].content.entries[Store!Find(View[p].content, n)].ino
    BY <1>4 DEF FoundInum, Entries
  <2> HIDE DEF i, n, p
  <2>3. QED BY <1>4, <2>1, <2>2, FindFirst
<1>6. i \in Known
  BY <1>2, <1>4, <1>5 DEF NamesInv, KnownInv
<1> HIDE DEF i
<1>7. /\ Shape' /\ LocksInv' /\ at'[c] = "second" /\ op'[c].kind = op[c].kind
      /\ op'[c].child = i /\ op'[c].ino = op[c].ino /\ seen' = seen
      /\ \A d \in Client \ {c} : at'[d] = at[d] /\ op'[d] = op[d]
      /\ ~ Creating(c) /\ ~ Unlinking(c)
  BY <1>1, <1>2, <1>3, <1>5, GoOnEffect
<1>8. ~ Creating(c)' /\ ~ Unlinking(c)'
  BY <1>1, <1>7 DEF Creating, Unlinking
<1>9. seen'[c] \subseteq Known /\ op'[c].ino \in Known /\ op'[c].child \in Known
  BY <1>2, <1>6, <1>7 DEF NamesInv, KnownInv
<1>10. NamesInv'
  BY <1>1, <1>2, <1>3, <1>7, <1>8, <1>9, NamesSame
<1>11. Unlinked' = Unlinked
  BY <1>7, <1>8, OthersUnlink
<1>12. QED BY <1>3, <1>7, <1>10, <1>11, Stutter DEF FileInvariant

LEMMA LookUnlinkStep ==
  ASSUME FileInvariant, NEW c \in Client, LookUnlink(c)
  PROVE  FileInvariant' /\ StoreStep
<1> DEFINE p == op[c].ino
           n == op[c].name
           v == View[p].content
           i == FoundInum(c)
<1>1. /\ at[c] = "look" /\ op[c].kind = "unlink" /\ n \in Store!Names(Got(cache[c], p))
      /\ cache' = [cache EXCEPT ![c] =
                     Put(cache[c], p, Store!Strike(Got(cache[c], p), n))]
      /\ GoOn(c, i) /\ UNCHANGED <<ext, owner, used>>
  BY DEF LookUnlink, Entries, GoOn
<1>2. Shape /\ LocksInv /\ CacheInv /\ NamesInv /\ used' \subseteq Inum
  BY <1>1 DEF FileInvariant, Shape
<1>3. /\ Got(cache[c], p) = v /\ v \in AnyContent /\ p \in Inum /\ owner[p] = c
  BY <1>1, OwnedInodes
<1>4. p \in Dir /\ n \in Name /\ n \in Store!Names(v)
  BY <1>1, <1>3 DEF FileInvariant, LocksInv, TwoLocks
<1>5. i = v.entries[Store!Find(v, n)].ino
  BY <1>3 DEF FoundInum, Entries
<1> HIDE DEF i, n, p, v
<1>6. i \in Inum /\ Store!Strike(v, n) \in AnyContent
  BY <1>3, <1>4, <1>5, FindFirst, StrikeEntries
<1>7. cache' = [cache EXCEPT ![c] = Put(cache[c], p, Store!Strike(v, n))]
  BY <1>1, <1>3
<1>8. /\ cache' \in [Client -> [Inum -> AnyDetails]]
      /\ CacheInv'
      /\ View' = [View EXCEPT ![p] = Store!Extent(Store!Strike(v, n))]
  <2>1. Puts(c, p, Store!Strike(v, n))
    BY <1>1, <1>3, <1>7 DEF Puts
  <2>2. QED BY <1>2, <1>3, <1>6, <2>1, PutChange DEF Becomes
<1>9. /\ Shape' /\ LocksInv'
      /\ op'[c] = [op[c] EXCEPT !.child = i] /\ at'[c] = "second"
      /\ op'[c].kind = op[c].kind /\ op'[c].child = i /\ seen' = seen
      /\ \A d \in Client \ {c} : at'[d] = at[d] /\ op'[d] = op[d]
      /\ ~ Unlinking(c)
  BY <1>1, <1>2, <1>6, <1>8, GoOnEffect
<1>10. NamesInv'
  BY <1>1, <1>2, <1>4, <1>5, <1>8, <1>9, NamesStrike DEF p, n, v
<1>11. Unlinking(c)'
  BY <1>1, <1>9 DEF Unlinking
<1>12. Unlinked' = Unlinked \cup {i}
  <2>1. Unlinked = {op[d].child : d \in {e \in Client : Unlinking(e)}}
    BY DEF Unlinked, Unlinking
  <2>2. Unlinked' = {op'[d].child : d \in {e \in Client : Unlinking(e)'}}
    BY DEF Unlinked, Unlinking
  <2>3. \A d \in Client \ {c} : (Unlinking(d)' <=> Unlinking(d)) /\ op'[d] = op[d]
    BY <1>9 DEF Unlinking
  <2>4. Unlinking(c)' /\ ~ Unlinking(c) /\ op'[c].child = i
    BY <1>9, <1>11
  <2>5. QED BY <2>1, <2>2, <2>3, <2>4
<1>13. AsOneStore!Unname(p, n)
  BY <1>4, <1>5, <1>8, <1>12, SameOperators DEF AsOneStore!Unname, v
<1>14. StoreStep
  BY <1>4, <1>13 DEF StoreStep, AsOneStore!StoreNext
<1>15. QED BY <1>8, <1>9, <1>10, <1>14 DEF FileInvariant

\* create and mkdir.
LEMMA PutNewStep ==
  ASSUME FileInvariant, NEW c \in Client, PutCreate(c) \/ PutMkdir(c)
  PROVE  FileInvariant' /\ StoreStep
<1> DEFINE p == op[c].ino
           n == op[c].name
           i == op[c].child
           v == View[p].content
           w == Store!Enter(v, n, i)
<1>1. /\ at[c] = "do" /\ op[c].kind \in {"create", "mkdir"} /\ Release(c)
      /\ cache' = [cache EXCEPT ![c] =
                     Put(Put(cache[c], i, Store!Empty), p,
                         Store!Enter(Got(cache[c], p), n, i))]
      /\ seen' = [seen EXCEPT ![c] = seen[c] \cup {i}]
      /\ UNCHANGED <<ext, owner, used>>
  BY DEF PutCreate, PutMkdir, PutNew, Entries, Release
<1>2. Creating(c) /\ ~ Unlinking(c) /\ op[c].kind \in TwoLocks
  BY <1>1 DEF Creating, Unlinking, TwoLocks
<1>3. Shape /\ LocksInv /\ CacheInv /\ NamesInv
  BY DEF FileInvariant
<1>4. /\ Got(cache[c], p) = v /\ v \in AnyContent /\ p \in Inum /\ i \in Inum /\ p \in Known
      /\ owner[p] = c /\ owner[i] = c
  BY <1>1, <1>2, OwnedInodes
<1>5. p \in Dir /\ n \in Name
  BY <1>2, <1>3 DEF LocksInv
<1>6. i \notin Known /\ i # p
  BY <1>2, <1>4 DEF Known, New
<1>7. w \in AnyContent /\ Store!Empty \in AnyContent
  <2> HIDE DEF v, n, i
  <2>1. QED BY <1>4, <1>5, EnterEntries, EmptyContent
<1>8. PutsTwo(c, i, Store!Empty, p, w)
  BY <1>1, <1>4, <1>6 DEF PutsTwo
<1>9. seen' \in [Client -> SUBSET Inum]
  BY <1>1, <1>4, SeenType
<1> HIDE DEF w
<1>10. BecomeTwo(i, Store!Empty, p, w)
  <2> HIDE DEF v, n, i, p
  <2>1. QED BY <1>3, <1>4, <1>7, <1>8, PutTwoChange
<1>11. /\ cache' \in [Client -> [Inum -> AnyDetails]] /\ CacheInv'
       /\ View' = [View EXCEPT ![i] = Store!Extent(Store!Empty), ![p] = Store!Extent(w)]
  BY <1>10 DEF BecomeTwo
<1>12. /\ Shape' /\ LocksInv'
       /\ op'[c] = NoOperation
       /\ \A d \in Client \ {c} : at'[d] = at[d] /\ op'[d] = op[d]
       /\ ~ Unlinking(c)'
  BY <1>1, <1>3, <1>9, <1>11, ReleaseEffect
<1>13. NamesInv'
  BY <1>1, <1>2, <1>3, <1>11, <1>12, NamesEnter DEF w
<1>14. Unlinked' = Unlinked
  BY <1>2, <1>12, OthersUnlink
<1>15. ~ View[i].there
  BY <1>3, <1>4, <1>6 DEF NamesInv, KnownInv
<1>16. View' = [View EXCEPT ![i] = AsOneStore!Extent(AsOneStore!Empty),
                            ![p] = AsOneStore!Extent(AsOneStore!Enter(@.content, n, i))]
  <2>1. [View EXCEPT ![i] = Store!Extent(Store!Empty)][p] = View[p]
    BY <1>4, <1>6, ViewType, <1>3
  <2>2. QED BY <1>11, <2>1, SameOperators DEF w
<1>17. StoreStep
  <2>1. CASE op[c].kind = "create"
    <3>1. i \in File /\ n \notin Store!Names(v)
      BY <1>2, <1>3, <2>1 DEF NamesInv, CreateInv
    <3>2. AsOneStore!Create(p, n, i)
      BY <1>14, <1>15, <1>16, <3>1, SameOperators DEF AsOneStore!Create
    <3> HIDE DEF p, n, i
    <3>3. QED BY <1>5, <3>1, <3>2 DEF StoreStep, AsOneStore!StoreNext
  <2>2. CASE op[c].kind = "mkdir"
    <3>1. i \in Dir \ {p}
      BY <1>2, <1>3, <1>6, <2>2 DEF NamesInv, CreateInv
    <3>2. AsOneStore!MakeDir(p, n, i)
      BY <1>14, <1>15, <1>16 DEF AsOneStore!MakeDir
    <3> HIDE DEF p, n, i
    <3>3. QED BY <1>5, <3>1, <3>2 DEF StoreStep, AsOneStore!StoreNext
  <2>3. QED BY <1>1, <2>1, <2>2
<1>18. QED BY <1>11, <1>12, <1>13, <1>17 DEF FileInvariant

\* The extent that unlink has found goes.
LEMMA RemoveStep ==
  ASSUME FileInvariant, NEW c \in Client, RemoveFound(c)
  PROVE  FileInvariant' /\ StoreStep
<1> DEFINE i == op[c].child
<1>1. /\ at[c] = "do" /\ op[c].kind = "unlink" /\ Release(c) /\ UNCHANGED seen
      /\ cache' = [cache EXCEPT ![c] = Removed(cache[c], i)]
      /\ UNCHANGED <<ext, owner, used>>
  BY DEF RemoveFound, Release
<1>2. Unlinking(c) /\ ~ Creating(c) /\ op[c].kind \in TwoLocks
  BY <1>1 DEF Creating, Unlinking, TwoLocks
<1>3. Shape /\ LocksInv /\ CacheInv /\ NamesInv /\ seen' \in [Client -> SUBSET Inum]
      /\ seen[c] \subseteq Known
  BY <1>1, SeenType DEF FileInvariant
<1>4. i \in Inum /\ owner[i] = c
  BY <1>1, <1>2, OwnedInodes
<1>5. Removes(c, i)
  BY <1>1, <1>4 DEF Removes
<1>6. Vanishes(i)
  <2> HIDE DEF i
  <2>1. QED BY <1>3, <1>4, <1>5, RemoveChange
<1>7. /\ cache' \in [Client -> [Inum -> AnyDetails]] /\ CacheInv'
      /\ View' = [View EXCEPT ![i] = Store!Absent]
  BY <1>6 DEF Vanishes
<1>8. /\ Shape' /\ LocksInv'
      /\ op'[c] = NoOperation
      /\ \A d \in Client \ {c} : at'[d] = at[d] /\ op'[d] = op[d]
      /\ ~ Creating(c)' /\ ~ Unlinking(c)'
  BY <1>1, <1>3, <1>7, ReleaseEffect
<1>9. View \in [Inum -> AnyExtent]
  BY <1>3, ViewType
<1>10. /\ ~ View'[i].there /\ View'[i].content = Store!Empty
       /\ \A j \in Inum \ {i} : View'[j] = View[j]
  BY <1>4, <1>7, <1>9, EmptyTypes
<1>11. \A d \in Dir : i \notin Store!Inums(View[d].content)
  BY <1>2, <1>3 DEF NamesInv, UnlinkInv
<1>12. /\ \A d \in Dir : View'[d].content.entries \in {View[d].content.entries, << >>}
       /\ \A d \in Dir : i \notin Store!Inums(View'[d].content)
  <2>1. ASSUME NEW d \in Dir
        PROVE  /\ View'[d].content.entries \in {View[d].content.entries, << >>}
               /\ i \notin Store!Inums(View'[d].content)
    <3>1. CASE d = i
      BY <1>10, <3>1, EmptyContent DEF Store!Empty
    <3>2. CASE d # i
      <4>1. View'[d] = View[d]
        BY <1>10, <3>2 DEF Inum
      <4>2. QED BY <1>11, <4>1
    <3>3. QED BY <3>1, <3>2
  <2>2. QED BY <2>1
<1>13. /\ \A j \in Inum : View[j].there =>
            View'[j].there \/ \A d \in Dir : j \notin Store!Inums(View'[d].content)
       /\ \A j \in Inum : View'[j].there => View[j].there \/ j \in Known
  BY <1>10, <1>12
<1>14. op'[c].ino \in Known /\ op'[c].child \in Known
  BY <1>3, <1>8, NoOperationType DEF NamesInv, KnownInv
<1>15. NamesInv'
  BY <1>1, <1>2, <1>3, <1>8, <1>12, <1>13, <1>14, NamesStay
<1>16. Unlinked' = Unlinked \ {i} /\ i \in Unlinked
  <2>1. Unlinked = {op[d].child : d \in {e \in Client : Unlinking(e)}}
    BY DEF Unlinked, Unlinking
  <2>2. Unlinked' = {op'[d].child : d \in {e \in Client : Unlinking(e)'}}
    BY DEF Unlinked, Unlinking
  <2>3. \A d \in Client \ {c} : (Unlinking(d)' <=> Unlinking(d)) /\ op'[d] = op[d]
    BY <1>8 DEF Unlinking
  <2>4. \A d \in Client \ {c} : Unlinking(d) => op[d].child # i
    BY <1>2, <1>3 DEF NamesInv, UnlinkInv
  <2>5. ASSUME NEW x \in Unlinked' PROVE x \in Unlinked \ {i}
    <3>1. PICK d \in Client : Unlinking(d)' /\ x = op'[d].child
      BY <2>2, <2>5
    <3>2. d # c /\ Unlinking(d) /\ x = op[d].child
      BY <1>8, <2>3, <3>1
    <3>3. QED BY <2>1, <2>4, <3>2
  <2>6. ASSUME NEW x \in Unlinked \ {i} PROVE x \in Unlinked'
    <3>1. PICK d \in Client : Unlinking(d) /\ x = op[d].child
      BY <2>1, <2>6
    <3>2. d # c /\ Unlinking(d)' /\ x = op'[d].child
      BY <2>3, <2>6, <3>1
    <3>3. QED BY <2>2, <3>2
  <2>7. i \in Unlinked
    BY <1>2, <2>1
  <2>8. QED BY <2>5, <2>6, <2>7
<1>17. AsOneStore!Remove(i)
  BY <1>7, <1>11, <1>16, SameOperators DEF AsOneStore!Remove
<1>18. StoreStep
  <2> HIDE DEF i
  <2>1. QED BY <1>4, <1>17 DEF StoreStep, AsOneStore!StoreNext, AsOneStore!Inum, Inum
<1>19. QED BY <1>7, <1>8, <1>15, <1>18 DEF FileInvariant
-----------------------------------------------------------------------------
(* The invariant, and the store                                            *)

LEMMA InitFile ==
  ASSUME Init
  PROVE  FileInvariant /\ AsOneStore!StoreInit
<1>1. /\ ext = [i \in Inum |-> Store!Absent]
      /\ cache = [c \in Client |-> [i \in Inum |-> NotCached]]
      /\ owner = [i \in Inum |-> NoOne]
      /\ held = [c \in Client |-> {}]
      /\ at = [c \in Client |-> "idle"]
      /\ op = [c \in Client |-> NoOperation]
      /\ seen = [c \in Client |-> {Root}]
      /\ used = {Root} /\ ops = 0
  BY DEF Init
<1>2. Root \in Inum
  BY DEF Inum
<1>3. Shape
  BY <1>1, <1>2, EmptyTypes, NoOperationType DEF Shape
<1>4. LocksInv
  BY <1>1, NoOperationType DEF LocksInv, TwoLocks
<1>5. CacheInv
  BY <1>1, EmptyTypes DEF CacheInv, Coherent, FlagsInv, NotCached
<1>6. View = [i \in Inum |-> Store!Absent]
  BY <1>1 DEF View
<1>7. \A i \in Inum : ~ View[i].there /\ View[i].content = Store!Empty
  BY <1>6, EmptyTypes
<1>8. \A d \in Dir : View[d].content = Store!Empty
  BY <1>7 DEF Inum
<1>9. \A c \in Client : ~ Creating(c) /\ ~ Unlinking(c)
  BY <1>1 DEF Creating, Unlinking
<1>10. Known = {Root}
  BY <1>1, <1>9 DEF Known, New
<1>11. NamesInv
  <2>1. NoDangling /\ UniqueInv
    BY <1>8, EmptyContent DEF NoDangling, UniqueInv
  <2>2. KnownInv
    BY <1>1, <1>7, <1>8, <1>9, <1>10, EmptyContent, NoOperationType DEF KnownInv
  <2>3. CreateInv /\ UnlinkInv
    BY <1>9 DEF CreateInv, UnlinkInv
  <2>4. QED BY <2>1, <2>2, <2>3 DEF NamesInv
<1>12. Unlinked = {}
  BY <1>9 DEF Unlinked, Unlinking
<1>13. AsOneStore!StoreInit
  BY <1>6, <1>12, SameOperators DEF AsOneStore!StoreInit, AsOneStore!Inum, Inum
<1>14. QED BY <1>3, <1>4, <1>5, <1>11, <1>13 DEF FileInvariant

LEMMA FileUnchanged ==
  ASSUME FileInvariant, UNCHANGED vars
  PROVE  FileInvariant' /\ StoreStep
<1>1. UNCHANGED <<ext, cache, owner, held, at, op, seen, used, ops>>
  BY DEF vars
<1>2. Shape /\ LocksInv /\ CacheInv /\ NamesInv
  BY DEF FileInvariant
<1>3. CacheInv' /\ View' = View
  BY <1>1, <1>2, NoChange
<1>4. Shape'
  BY <1>1, <1>2 DEF Shape
<1>5. LocksInv'
  BY <1>1, <1>2 DEF LocksInv, NoOperation
<1>6. \A c \in Client : (Creating(c)' <=> Creating(c)) /\ (Unlinking(c)' <=> Unlinking(c))
  BY <1>1 DEF Creating, Unlinking
<1>7. Known' = Known
  BY <1>1, <1>6, KnownSame
<1>8. NamesInv'
  <2>1. NoDangling' /\ UniqueInv'
    BY <1>2, <1>3 DEF NamesInv, NoDangling, UniqueInv
  <2>2. KnownInv'
    BY <1>1, <1>2, <1>3, <1>6, <1>7 DEF NamesInv, KnownInv
  <2>3. CreateInv' /\ UnlinkInv'
    BY <1>1, <1>2, <1>3, <1>6 DEF NamesInv, CreateInv, UnlinkInv
  <2>4. QED BY <2>1, <2>2, <2>3 DEF NamesInv
<1>9. Unlinked' = Unlinked
  BY <1>1, <1>6, UnlinkedSame
<1>10. QED BY <1>3, <1>4, <1>5, <1>8, <1>9, Stutter DEF FileInvariant

\* What an operation does to a lock on its way back: nothing.
LEMMA OperateReleasing ==
  ASSUME FileInvariant, ReleasingInv, NEW c \in Client, Operate(c)
  PROVE  ReleasingInv'
<1>1. Shape /\ LocksInv
  BY DEF FileInvariant
<1>2. CASE AcquireFirst(c) \/ AcquireSecond(c)
  <2>1. PICK i \in Inum : Acquire(c, i)
    BY <1>1, <1>2 DEF AcquireFirst, AcquireSecond, Shape, Operation
  <2>2. /\ i \notin releasing /\ releasing' = releasing /\ cache' = cache
        /\ owner' = [owner EXCEPT ![i] = c] /\ held' = [held EXCEPT ![c] = held[c] \cup {i}]
    BY <2>1 DEF Acquire
  <2>3. QED BY <1>1, <2>2 DEF ReleasingInv, Shape, NotCached
<1>3. ASSUME NEW m, releasing' = releasing, owner' = owner,
             held' = held \/ held' = [held EXCEPT ![c] = {}],
             cache' = [cache EXCEPT ![c] = m],
             \A j \in releasing : m[j] = cache[c][j]
      PROVE  ReleasingInv'
  BY <1>1, <1>3 DEF ReleasingInv, Shape, NotCached
<1>4. CASE Request(c) \/ LookMkdir(c) \/ NoNumber(c)
  <2>1. /\ releasing' = releasing /\ owner' = owner /\ cache' = cache
        /\ held' = held \/ held' = [held EXCEPT ![c] = {}]
    BY <1>4 DEF Request, LookMkdir, NoNumber, GoOn, Release
  <2>2. cache' = [cache EXCEPT ![c] = cache[c]]
    BY <1>1, <2>1 DEF Shape
  <2>3. QED BY <1>3, <2>1, <2>2
<1> DEFINE i == op[c].ino
           k == op[c].child
<1>5. \A j \in releasing : j \in Inum /\ j \notin held[c]
  BY DEF ReleasingInv
<1>6. at[c] \in {"look", "do"} => i \in held[c]
  BY <1>1 DEF LocksInv
<1>7. at[c] = "do" /\ op[c].kind \in TwoLocks => k \in held[c]
  BY <1>1 DEF LocksInv
<1>8. cache[c] \in [Inum -> AnyDetails]
  BY <1>1 DEF Shape
<1>9. \A n, v : /\ \A j \in Inum : j # n => Fetched(cache[c], n)[j] = cache[c][j]
                /\ \A j \in Inum : j # n => Put(cache[c], n, v)[j] = cache[c][j]
                /\ \A j \in Inum : j # n => Removed(cache[c], n)[j] = cache[c][j]
  BY <1>8 DEF Fetched, Put, Removed
<1>10. CASE Get(c) \/ LookFails(c) \/ LookCreate(c) \/ LookLookup(c)
  <2>1. /\ at[c] \in {"look", "do"} /\ cache' = [cache EXCEPT ![c] = Fetched(cache[c], i)]
        /\ releasing' = releasing /\ owner' = owner
        /\ held' = held \/ held' = [held EXCEPT ![c] = {}]
    BY <1>10 DEF Get, LookFails, LookCreate, LookLookup, GoOn, Release
  <2>2. \A j \in releasing : Fetched(cache[c], i)[j] = cache[c][j]
    BY <1>5, <1>6, <1>9, <2>1
  <2>3. QED BY <1>3, <2>1, <2>2
<1>11. CASE fuseserver_write(c) \/ fuseserver_setattr(c) \/ LookUnlink(c)
  <2>1. PICK v : cache' = [cache EXCEPT ![c] = Put(cache[c], i, v)]
    BY <1>11 DEF fuseserver_write, fuseserver_setattr, LookUnlink
  <2>2. /\ at[c] \in {"look", "do"} /\ releasing' = releasing /\ owner' = owner
        /\ held' = held \/ held' = [held EXCEPT ![c] = {}]
    BY <1>11 DEF fuseserver_write, fuseserver_setattr, LookUnlink, GoOn, Release
  <2>3. \A j \in releasing : Put(cache[c], i, v)[j] = cache[c][j]
    BY <1>5, <1>6, <1>9, <2>2
  <2>4. QED BY <1>3, <2>1, <2>2, <2>3
<1>12. CASE PutCreate(c) \/ PutMkdir(c)
  <2>1. PICK w : cache' = [cache EXCEPT ![c] = Put(Put(cache[c], k, Store!Empty), i, w)]
    BY <1>12 DEF PutCreate, PutMkdir, PutNew
  <2>2. /\ at[c] = "do" /\ op[c].kind \in TwoLocks /\ releasing' = releasing /\ owner' = owner
        /\ held' = [held EXCEPT ![c] = {}]
    BY <1>12 DEF PutCreate, PutMkdir, PutNew, Release, TwoLocks
  <2>3. ASSUME NEW j \in releasing
        PROVE  Put(Put(cache[c], k, Store!Empty), i, w)[j] = cache[c][j]
    <3>1. j # k /\ j # i /\ j \in Inum
      BY <1>5, <1>6, <1>7, <2>2
    <3>2. QED BY <1>8, <3>1 DEF Put
  <2>4. QED BY <1>3, <2>1, <2>2, <2>3
<1>13. CASE GetFound(c) \/ RemoveFound(c)
  <2>1. PICK m \in {Fetched(cache[c], k), Removed(cache[c], k)} :
          cache' = [cache EXCEPT ![c] = m]
    BY <1>13 DEF GetFound, RemoveFound
  <2>2. /\ at[c] = "do" /\ op[c].kind \in TwoLocks /\ releasing' = releasing /\ owner' = owner
        /\ held' = [held EXCEPT ![c] = {}]
    BY <1>13 DEF GetFound, RemoveFound, Release, TwoLocks
  <2>3. ASSUME NEW j \in releasing PROVE m[j] = cache[c][j]
    <3>1. j # k /\ j \in Inum
      BY <1>5, <1>7, <2>2
    <3>2. Fetched(cache[c], k)[j] = cache[c][j] /\ Removed(cache[c], k)[j] = cache[c][j]
      BY <1>9, <3>1
    <3>3. QED BY <2>1, <3>2
  <2>4. QED BY <1>3, <2>1, <2>2, <2>3
<1>14. QED BY <1>2, <1>4, <1>10, <1>11, <1>12, <1>13 DEF Operate

LEMMA GiveBackReleasing ==
  ASSUME Shape, LocksInv, ReleasingInv, CacheInv, NEW i \in Inum, GivesBack(i)
  PROVE  ReleasingInv'
<1>1. CASE \E c \in Client : dorelease(c, i)
  <2>1. PICK c \in Client : dorelease(c, i)
    BY <1>1
  <2>2. /\ owner[i] = c /\ releasing' = releasing \cup {i}
        /\ owner' = owner /\ held' = held
        /\ cache' = [cache EXCEPT ![c][i] = NotCached]
    BY <2>1 DEF dorelease, GiveBack
  <2>3. i \notin held[c] /\ c # NoOne
    BY <2>1, NoOneAssumption DEF dorelease, GiveBack
  <2>4. ASSUME NEW d \in Client PROVE i \notin held'[d] /\ cache'[d][i] = NotCached
    <3>1. d # c => i \notin held[d] /\ cache[d][i] = NotCached
      BY <2>2 DEF LocksInv, CacheInv, Coherent, FlagsInv
    <3>2. QED BY <2>2, <2>3, <3>1 DEF Shape
  <2>5. ASSUME NEW j \in releasing, NEW d \in Client
        PROVE  j \notin held'[d] /\ cache'[d][j] = NotCached
    BY <2>2 DEF ReleasingInv, Shape
  <2>6. QED BY <2>2, <2>3, <2>4, <2>5 DEF ReleasingInv, NotCached
<1>2. CASE Released(i)
  BY <1>2 DEF Released, ReleasingInv, Shape, NotCached
<1>3. QED BY <1>1, <1>2 DEF GivesBack

LEMMA FileStep ==
  ASSUME FileInvariant, ReleasingInv, [Next]_vars
  PROVE  FileInvariant' /\ StoreStep
<1>1. ASSUME NEW c \in Client, Operate(c)
      PROVE  FileInvariant' /\ StoreStep
  <2>1. CASE Request(c)
    BY <2>1, RequestStep
  <2>2. CASE AcquireFirst(c) \/ AcquireSecond(c)
    BY <2>2, AcquireStep
  <2>3. CASE Get(c)
    BY <2>3, GetStep
  <2>4. CASE fuseserver_write(c)
    BY <2>4, WriteStep
  <2>5. CASE fuseserver_setattr(c)
    BY <2>5, SetattrStep
  <2>6. CASE LookCreate(c)
    BY <2>6, LookCreateStep
  <2>7. CASE LookMkdir(c)
    BY <2>7, LookMkdirStep
  <2>8. CASE LookFails(c)
    BY <2>8, LookFailsStep
  <2>9. CASE LookLookup(c)
    BY <2>9, LookLookupStep
  <2>10. CASE LookUnlink(c)
    BY <2>10, LookUnlinkStep
  <2>11. CASE NoNumber(c)
    BY <2>11, NoNumberStep
  <2>12. CASE PutCreate(c) \/ PutMkdir(c)
    BY <2>12, PutNewStep
  <2>13. CASE GetFound(c)
    BY <2>13, GetFoundStep
  <2>14. CASE RemoveFound(c)
    BY <2>14, RemoveStep
  <2>15. QED
    BY <1>1, <2>1, <2>2, <2>3, <2>4, <2>5, <2>6, <2>7, <2>8, <2>9, <2>10, <2>11,
       <2>12, <2>13, <2>14 DEF Operate
<1>2. ASSUME NEW i \in Inum, GivesBack(i)
      PROVE  FileInvariant' /\ StoreStep
  BY <1>2, GiveBackStep
<1>3. CASE UNCHANGED vars
  BY <1>3, FileUnchanged
<1>4. CASE Done
  BY <1>4, FileUnchanged DEF Done
<1>5. QED BY <1>1, <1>2, <1>3, <1>4 DEF Next, GivesBack

LEMMA ReleasingStep ==
  ASSUME FileInvariant, ReleasingInv, [Next]_vars
  PROVE  ReleasingInv'
<1>1. ASSUME NEW i \in Inum, GivesBack(i)
      PROVE  ReleasingInv'
  BY <1>1, GiveBackReleasing DEF FileInvariant
<1>2. CASE UNCHANGED vars \/ Done
  BY <1>2 DEF Done, vars, ReleasingInv, NotCached
<1>3. QED BY <1>1, <1>2, OperateReleasing DEF Next, GivesBack

LEMMA FileInvariantHolds == Spec => [](FileInvariant /\ ReleasingInv)
<1>1. Init => FileInvariant /\ ReleasingInv
  BY InitFile DEF Init, ReleasingInv
<1>2. FileInvariant /\ ReleasingInv /\ [Next]_vars => (FileInvariant /\ ReleasingInv)'
  BY FileStep, ReleasingStep
<1>3. QED BY <1>1, <1>2, PTL DEF Spec

\* Only the client that has an extent's lock has it cached, and unless it is
\* dirty the extent server has the same (extent_client, dorelease).
THEOREM FilesCoherent == Spec => []Coherent
<1>1. FileInvariant => Coherent
  BY DEF FileInvariant, CacheInv
<1>2. QED BY <1>1, FileInvariantHolds, PTL

\* No directory names an extent that does not exist, not even between the two
\* changes of create and of unlink (fuseserver_createhelper, unlink).
THEOREM FilesNoDangling == Spec => []NoDangling
<1>1. FileInvariant => NoDangling
  BY DEF FileInvariant, NamesInv
<1>2. QED BY <1>1, FileInvariantHolds, PTL

\* The caches and locks of all clients together behave as the one store of
\* FileStore: every step of the service is one of its steps or changes nothing
\* that a client can see.
THEOREM FilesAsOneStore == Spec => ImplementsStore
<1>1. Init => AsOneStore!StoreInit
  BY InitFile
<1>2. FileInvariant /\ ReleasingInv /\ [Next]_vars => [AsOneStore!StoreNext]_<<View, Unlinked>>
  BY FileStep DEF StoreStep
<1>3. QED
  BY <1>1, <1>2, FileInvariantHolds, PTL DEF Spec, ImplementsStore, AsOneStore!StoreSpec
-----------------------------------------------------------------------------
(* How often a file has been written                                       *)

\* The writes an extent may hold: the operations begun that are over.
Room == ops - Cardinality(Busy)

LEMMA RoomNumber ==
  ASSUME Shape, CountInv
  PROVE  /\ IsFiniteSet(Busy) /\ Cardinality(Busy) \in Nat
         /\ Room \in Nat /\ Room <= MaxOps
         /\ \A i \in Inum : ext[i].content.writes <= Room
         /\ \A c \in Client, i \in Inum : cache[c][i].content.writes <= Room
<1>1. IsFiniteSet(Busy) /\ Cardinality(Busy) \in Nat
  BY FS_CardinalityType DEF CountInv
<1>2. ops \in 0..MaxOps /\ Root \in Inum
  BY DEF Shape, Inum
<1>3. \A i \in Inum : ext[i].content.writes \in Nat
  BY DEF Shape, AnyExtent, AnyContent
<1>4. \A c \in Client, i \in Inum : cache[c][i].content.writes \in Nat
  BY DEF Shape, AnyDetails, AnyContent
<1>5. ext[Root].content.writes + Cardinality(Busy) <= ops
  BY <1>2 DEF CountInv
<1>6. Room \in Nat /\ Room <= MaxOps
  BY <1>1, <1>2, <1>3, <1>5 DEF Room
<1>7. \A i \in Inum : ext[i].content.writes <= Room
  BY <1>1, <1>2, <1>3 DEF CountInv, Room
<1>8. \A c \in Client, i \in Inum : cache[c][i].content.writes <= Room
  BY <1>1, <1>2, <1>4 DEF CountInv, Room
<1>9. QED BY <1>1, <1>6, <1>7, <1>8

LEMMA RoomSame ==
  ASSUME ops' = ops, \A d \in Client : at'[d] = "idle" <=> at[d] = "idle"
  PROVE  Busy' = Busy /\ Room' = Room
BY DEF Busy, Room

LEMMA RoomEnds ==
  ASSUME Shape, CountInv, NEW c \in Client, at[c] # "idle", Release(c)
  PROVE  IsFiniteSet(Busy') /\ Room' = Room + 1
<1>1. ops' = ops /\ at'[c] = "idle" /\ \A d \in Client \ {c} : at'[d] = at[d]
  BY DEF Release, Shape
<1>2. Busy' = Busy \ {c} /\ c \in Busy
  BY <1>1 DEF Busy
<1>3. IsFiniteSet(Busy) /\ Cardinality(Busy) \in Nat /\ ops \in Nat
  BY RoomNumber DEF Shape
<1>4. IsFiniteSet(Busy') /\ Cardinality(Busy') = Cardinality(Busy) - 1
  BY <1>2, <1>3, FS_RemoveElement
<1>5. QED BY <1>1, <1>3, <1>4 DEF Room

LEMMA RoomBegins ==
  ASSUME Shape, CountInv, NEW c \in Client, Request(c)
  PROVE  IsFiniteSet(Busy') /\ Room' = Room
<1>1. ops' = ops + 1 /\ at[c] = "idle" /\ at'[c] = "first"
      /\ \A d \in Client \ {c} : at'[d] = at[d]
  BY DEF Request, Shape
<1>2. Busy' = Busy \cup {c} /\ c \notin Busy
  BY <1>1 DEF Busy
<1>3. IsFiniteSet(Busy) /\ Cardinality(Busy) \in Nat /\ ops \in Nat
  BY RoomNumber DEF Shape
<1>4. IsFiniteSet(Busy') /\ Cardinality(Busy') = Cardinality(Busy) + 1
  BY <1>2, <1>3, FS_AddElement
<1>5. QED BY <1>1, <1>3, <1>4 DEF Room

\* A count that fits, of an extent's contents and of a cache.
Fits(v, k) == v.writes <= k
AllFit(m, k) == \A i \in Inum : Fits(m[i].content, k)

LEMMA RoomKept ==
  ASSUME Shape', IsFiniteSet(Busy'), AllFit(ext', Room'),
         \A c \in Client : AllFit(cache'[c], Room')
  PROVE  CountInv'
<1>1. Cardinality(Busy') \in Nat /\ ops' \in Nat
  BY FS_CardinalityType DEF Shape
<1>2. \A i \in Inum : ext'[i].content.writes \in Nat
  BY DEF Shape, AnyExtent, AnyContent
<1>3. \A c \in Client, i \in Inum : cache'[c][i].content.writes \in Nat
  BY DEF Shape, AnyDetails, AnyContent
<1>4. \A i \in Inum : ext'[i].content.writes + Cardinality(Busy') <= ops'
  BY <1>1, <1>2 DEF AllFit, Fits, Room
<1>5. \A c \in Client, i \in Inum :
        cache'[c][i].content.writes + Cardinality(Busy') <= ops'
  BY <1>1, <1>3 DEF AllFit, Fits, Room
<1>6. QED BY <1>4, <1>5 DEF CountInv

LEMMA RoomFits ==
  ASSUME Shape, CountInv
  PROVE  AllFit(ext, Room) /\ \A c \in Client : AllFit(cache[c], Room)
BY RoomNumber DEF AllFit, Fits

\* What the cache's operations do to the counts.
LEMMA FetchedFits ==
  ASSUME Shape, NEW m \in [Inum -> AnyDetails], NEW i \in Inum, NEW k \in Nat,
         AllFit(ext, k), AllFit(m, k)
  PROVE  AllFit(Fetched(m, i), k) /\ Fits(Got(m, i), k)
<1> DEFINE d == IF m[i].cached
                THEN [m[i] EXCEPT !.isDirty = m[i].isDirty \/ (m[i].exist_in_server /\ ~m[i].removed)]
                ELSE [NotCached EXCEPT !.cached = TRUE, !.exist_in_server = ext[i].there,
                                       !.content = ext[i].content]
<1>1. Fetched(m, i) = [m EXCEPT ![i] = d]
  BY DEF Fetched
<1>2. d.content \in {m[i].content, ext[i].content}
  <2>1. m[i] \in AnyDetails
    OBVIOUS
  <2>2. QED BY <2>1 DEF AnyDetails, NotCached
<1> HIDE DEF d
<1>3. Fits(d.content, k)
  BY <1>2 DEF AllFit
<1>4. Fetched(m, i)[i] = d /\ \A j \in Inum \ {i} : Fetched(m, i)[j] = m[j]
  BY <1>1
<1>5. AllFit(Fetched(m, i), k)
  BY <1>3, <1>4 DEF AllFit
<1>6. Fits(Got(m, i), k)
  BY <1>3, <1>4, EmptyContent DEF Got, Fits
<1>7. QED BY <1>5, <1>6

LEMMA PutFits ==
  ASSUME NEW m \in [Inum -> AnyDetails], NEW i \in Inum, NEW v \in AnyContent, NEW k \in Nat,
         AllFit(m, k), Fits(v, k)
  PROVE  AllFit(Put(m, i, v), k)
<1>1. Put(m, i, v)[i].content = v /\ \A j \in Inum \ {i} : Put(m, i, v)[j] = m[j]
  BY DEF Put
<1>2. QED BY <1>1 DEF AllFit

LEMMA RemovedFits ==
  ASSUME NEW m \in [Inum -> AnyDetails], NEW i \in Inum, NEW k \in Nat, AllFit(m, k)
  PROVE  AllFit(Removed(m, i), k)
<1>1. /\ Removed(m, i)[i].content = Store!Empty
      /\ \A j \in Inum \ {i} : Removed(m, i)[j] = m[j]
  BY DEF Removed, NotCached
<1>2. QED BY <1>1, EmptyContent DEF AllFit, Fits

LEMMA MoreFits ==
  ASSUME NEW m, NEW k \in Nat, AllFit(m, k), \A i \in Inum : m[i].content.writes \in Nat
  PROVE  AllFit(m, k + 1)
BY DEF AllFit, Fits

\* A step that changes no cache but that of c, and nothing at the server.
CacheBecomes(c, m) == ext' = ext /\ cache' = [cache EXCEPT ![c] = m]

LEMMA CacheRoom ==
  ASSUME Shape, CountInv, Shape', NEW c \in Client, NEW m \in [Inum -> AnyDetails],
         CacheBecomes(c, m), IsFiniteSet(Busy'),
         Room' = Room \/ Room' = Room + 1,
         AllFit(m, Room) \/ AllFit(m, Room')
  PROVE  CountInv'
<1>1. Room \in Nat /\ AllFit(ext, Room) /\ \A d \in Client : AllFit(cache[d], Room)
  BY RoomNumber, RoomFits
<1>2. ASSUME NEW w, AllFit(w, Room), \A i \in Inum : w[i].content.writes \in Nat
      PROVE  AllFit(w, Room')
  BY <1>1, <1>2, MoreFits
<1>3. AllFit(ext', Room')
  <2>1. \A i \in Inum : ext[i].content.writes \in Nat
    BY DEF Shape, AnyExtent, AnyContent
  <2>2. QED BY <1>1, <1>2, <2>1 DEF CacheBecomes
<1>4. ASSUME NEW d \in Client PROVE AllFit(cache'[d], Room')
  <2>1. CASE d = c
    <3>1. cache'[d] = m
      BY <2>1 DEF CacheBecomes, Shape
    <3>2. \A i \in Inum : m[i].content.writes \in Nat
      BY DEF AnyDetails, AnyContent
    <3>3. QED BY <1>2, <3>1, <3>2
  <2>2. CASE d # c
    <3>1. cache'[d] = cache[d]
      BY <2>2 DEF CacheBecomes, Shape
    <3>2. \A i \in Inum : cache[d][i].content.writes \in Nat
      BY DEF Shape, AnyDetails, AnyContent
    <3>3. QED BY <1>1, <1>2, <3>1, <3>2
  <2>3. QED BY <2>1, <2>2
<1>5. QED BY <1>3, <1>4, RoomKept

LEMMA CacheIs ==
  ASSUME Shape, NEW c \in Client, UNCHANGED <<ext, cache>>
  PROVE  CacheBecomes(c, cache[c]) /\ cache[c] \in [Inum -> AnyDetails]
BY DEF CacheBecomes, Shape

\* What client c may leave in its cache.
LEMMA CacheFits ==
  ASSUME FileInvariant, CountInv, NEW c \in Client, NEW i \in Inum
  PROVE  /\ Room \in Nat
         /\ cache[c] \in [Inum -> AnyDetails] /\ AllFit(cache[c], Room)
         /\ AllFit(Fetched(cache[c], i), Room) /\ Fits(Got(cache[c], i), Room)
<1>1. Shape /\ Room \in Nat /\ AllFit(ext, Room) /\ AllFit(cache[c], Room)
  BY RoomNumber, RoomFits DEF FileInvariant
<1>2. cache[c] \in [Inum -> AnyDetails]
  BY <1>1 DEF Shape
<1>3. QED BY <1>1, <1>2, FetchedFits

\* The steps that fetch: the contents are the server's or the cache's.
LEMMA FetchCount ==
  ASSUME FileInvariant, CountInv, Shape', NEW c \in Client, NEW i \in Inum, owner[i] = c,
         CacheBecomes(c, Fetched(cache[c], i)), IsFiniteSet(Busy'),
         Room' = Room \/ Room' = Room + 1
  PROVE  CountInv'
<1>1. Shape /\ CacheInv
  BY DEF FileInvariant
<1>2. Fetched(cache[c], i) \in [Inum -> AnyDetails]
  BY <1>1, FetchedEntry
<1>3. AllFit(Fetched(cache[c], i), Room)
  BY CacheFits
<1>4. QED BY <1>1, <1>2, <1>3, CacheRoom

LEMMA EndRoom ==
  ASSUME FileInvariant, CountInv, NEW c \in Client, at[c] # "idle", Release(c)
  PROVE  IsFiniteSet(Busy') /\ Room' = Room + 1 /\ ext' = ext
BY RoomEnds DEF FileInvariant, Release

LEMMA GoOnRoom ==
  ASSUME FileInvariant, CountInv, NEW c \in Client, NEW i, at[c] = "look", GoOn(c, i)
  PROVE  IsFiniteSet(Busy') /\ Room' = Room /\ ext' = ext
<1>1. ops' = ops /\ ext' = ext /\ \A d \in Client : at'[d] = "idle" <=> at[d] = "idle"
  BY DEF GoOn, FileInvariant, Shape
<1>2. Busy' = Busy /\ Room' = Room
  BY <1>1, RoomSame
<1>3. QED BY <1>1, <1>2 DEF CountInv

LEMMA GetCount ==
  ASSUME FileInvariant, CountInv, Shape', NEW c \in Client,
         Get(c) \/ LookFails(c) \/ GetFound(c)
  PROVE  CountInv'
<1>1. op[c].ino \in Inum /\ op[c].child \in Inum
  BY DEF FileInvariant, Shape, Operation
<1>2. CASE Get(c) \/ LookFails(c)
  <2>1. /\ at[c] \in {"look", "do"} /\ at[c] # "idle" /\ Release(c)
        /\ cache' = [cache EXCEPT ![c] = Fetched(cache[c], op[c].ino)]
    BY <1>2 DEF Get, LookFails
  <2>2. owner[op[c].ino] = c
    BY <2>1, OwnedInodes
  <2>3. IsFiniteSet(Busy') /\ Room' = Room + 1 /\ ext' = ext
    BY <2>1, EndRoom
  <2>4. CacheBecomes(c, Fetched(cache[c], op[c].ino))
    BY <2>1, <2>3 DEF CacheBecomes
  <2>5. QED BY <1>1, <2>2, <2>3, <2>4, FetchCount
<1>3. CASE GetFound(c)
  <2>1. /\ at[c] \in {"look", "do"} /\ at[c] = "do" /\ at[c] # "idle" /\ Release(c)
        /\ op[c].kind \in TwoLocks
        /\ cache' = [cache EXCEPT ![c] = Fetched(cache[c], op[c].child)]
    BY <1>3 DEF GetFound, TwoLocks
  <2>2. owner[op[c].child] = c
    BY <2>1, OwnedInodes
  <2>3. IsFiniteSet(Busy') /\ Room' = Room + 1 /\ ext' = ext
    BY <2>1, EndRoom
  <2>4. CacheBecomes(c, Fetched(cache[c], op[c].child))
    BY <2>1, <2>3 DEF CacheBecomes
  <2>5. QED BY <1>1, <2>2, <2>3, <2>4, FetchCount
<1>4. QED BY <1>2, <1>3

LEMMA LookCount ==
  ASSUME FileInvariant, CountInv, Shape', NEW c \in Client,
         LookCreate(c) \/ LookLookup(c)
  PROVE  CountInv'
<1>1. /\ at[c] \in {"look", "do"} /\ at[c] = "look" /\ \E i : GoOn(c, i)
      /\ cache' = [cache EXCEPT ![c] = Fetched(cache[c], op[c].ino)]
  BY DEF LookCreate, LookLookup
<1>2. op[c].ino \in Inum /\ owner[op[c].ino] = c
  BY <1>1, OwnedInodes
<1>3. IsFiniteSet(Busy') /\ Room' = Room /\ ext' = ext
  BY <1>1, GoOnRoom
<1>4. CacheBecomes(c, Fetched(cache[c], op[c].ino))
  BY <1>1, <1>3 DEF CacheBecomes
<1>5. QED BY <1>2, <1>3, <1>4, FetchCount

\* The steps that leave the caches and the server as they are.
LEMMA IdleCount ==
  ASSUME FileInvariant, CountInv, Shape', NEW c \in Client,
         Request(c) \/ AcquireFirst(c) \/ AcquireSecond(c) \/ NoNumber(c) \/ LookMkdir(c)
  PROVE  CountInv'
<1>1. Shape
  BY DEF FileInvariant
<1>2. CacheBecomes(c, cache[c]) /\ cache[c] \in [Inum -> AnyDetails]
  <2>1. UNCHANGED <<ext, cache>>
    BY DEF Request, AcquireFirst, AcquireSecond, Acquire, NoNumber, Release, LookMkdir, GoOn
  <2>2. QED BY <1>1, <2>1, CacheIs
<1>3. AllFit(cache[c], Room)
  BY <1>1, RoomFits
<1>4. IsFiniteSet(Busy') /\ (Room' = Room \/ Room' = Room + 1)
  <2>1. CASE Request(c)
    BY <1>1, <2>1, RoomBegins
  <2>2. CASE AcquireFirst(c) \/ AcquireSecond(c)
    <3>1. ops' = ops /\ \A d \in Client : at'[d] = "idle" <=> at[d] = "idle"
      BY <1>1, <2>2 DEF AcquireFirst, AcquireSecond, Acquire, Shape
    <3>2. Busy' = Busy /\ Room' = Room
      BY <3>1, RoomSame
    <3>3. QED BY <3>2 DEF CountInv
  <2>3. CASE NoNumber(c)
    <3>1. at[c] # "idle" /\ Release(c)
      BY <2>3 DEF NoNumber
    <3>2. QED BY <3>1, EndRoom
  <2>4. CASE LookMkdir(c)
    <3>1. at[c] = "look" /\ \E i : GoOn(c, i)
      BY <2>4 DEF LookMkdir
    <3>2. QED BY <3>1, GoOnRoom
  <2>5. QED BY <2>1, <2>2, <2>3, <2>4
<1>5. QED BY <1>1, <1>2, <1>3, <1>4, CacheRoom

\* A write adds one to what was there, when it is over.
LEMMA WriteCount ==
  ASSUME FileInvariant, CountInv, Shape', NEW c \in Client,
         fuseserver_write(c) \/ fuseserver_setattr(c)
  PROVE  CountInv'
<1> DEFINE i == op[c].ino
<1>1. /\ at[c] \in {"look", "do"} /\ at[c] # "idle" /\ Release(c)
      /\ \E v \in {Store!Written(Got(cache[c], i)), Store!Empty} :
           cache' = [cache EXCEPT ![c] = Put(cache[c], i, v)]
  BY DEF fuseserver_write, fuseserver_setattr
<1>2. PICK v \in {Store!Written(Got(cache[c], i)), Store!Empty} :
        cache' = [cache EXCEPT ![c] = Put(cache[c], i, v)]
  BY <1>1
<1>3. i \in Inum /\ Got(cache[c], i) \in AnyContent
  BY <1>1, OwnedInodes
<1>4. Shape /\ Room \in Nat /\ cache[c] \in [Inum -> AnyDetails]
      /\ AllFit(cache[c], Room) /\ Fits(Got(cache[c], i), Room)
  BY <1>3, CacheFits DEF FileInvariant
<1>5. v \in AnyContent /\ Fits(v, Room + 1)
  <2>1. Got(cache[c], i).writes \in Nat
    BY <1>3 DEF AnyContent
  <2>2. QED BY <1>3, <1>4, <2>1, WrittenContent, EmptyContent DEF Fits
<1>6. IsFiniteSet(Busy') /\ Room' = Room + 1 /\ ext' = ext
  BY <1>1, EndRoom
<1>7. AllFit(cache[c], Room + 1)
  <2>1. \A j \in Inum : cache[c][j].content.writes \in Nat
    BY <1>4 DEF AnyDetails, AnyContent
  <2>2. QED BY <1>4, <2>1, MoreFits
<1> HIDE DEF i
<1>8. AllFit(Put(cache[c], i, v), Room + 1) /\ Put(cache[c], i, v) \in [Inum -> AnyDetails]
  <2>1. Room + 1 \in Nat
    BY <1>4
  <2>2. QED BY <1>3, <1>4, <1>5, <1>7, <2>1, PutFits, PutEntry
<1>9. CacheBecomes(c, Put(cache[c], i, v))
  BY <1>2, <1>6 DEF CacheBecomes
<1>10. QED BY <1>4, <1>6, <1>8, <1>9, CacheRoom

\* A directory's changes do not count.
LEMMA LookUnlinkCount ==
  ASSUME FileInvariant, CountInv, Shape', NEW c \in Client, LookUnlink(c)
  PROVE  CountInv'
<1> DEFINE p == op[c].ino
           n == op[c].name
           v == Got(cache[c], p)
           w == Store!Strike(v, n)
<1>1. /\ at[c] \in {"look", "do"} /\ at[c] = "look" /\ \E i : GoOn(c, i)
      /\ n \in Store!Names(v)
      /\ cache' = [cache EXCEPT ![c] = Put(cache[c], p, w)]
  BY DEF LookUnlink, Entries
<1>2. p \in Inum /\ v \in AnyContent
  BY <1>1, OwnedInodes
<1>3. Shape /\ Room \in Nat /\ cache[c] \in [Inum -> AnyDetails]
      /\ AllFit(cache[c], Room) /\ Fits(v, Room)
  BY <1>2, CacheFits DEF FileInvariant
<1> HIDE DEF v, n, p
<1>4. w \in AnyContent /\ Fits(w, Room)
  BY <1>1, <1>2, <1>3, StrikeEntries DEF Fits
<1>5. IsFiniteSet(Busy') /\ Room' = Room /\ ext' = ext
  BY <1>1, GoOnRoom
<1> HIDE DEF w
<1>6. AllFit(Put(cache[c], p, w), Room) /\ Put(cache[c], p, w) \in [Inum -> AnyDetails]
  BY <1>2, <1>3, <1>4, PutFits, PutEntry
<1>7. CacheBecomes(c, Put(cache[c], p, w))
  BY <1>1, <1>5 DEF CacheBecomes
<1>8. QED BY <1>3, <1>5, <1>6, <1>7, CacheRoom

LEMMA PutNewCount ==
  ASSUME FileInvariant, CountInv, Shape', NEW c \in Client, PutCreate(c) \/ PutMkdir(c)
  PROVE  CountInv'
<1> DEFINE p == op[c].ino
           n == op[c].name
           i == op[c].child
           v == Got(cache[c], p)
           w == Store!Enter(v, n, i)
           m == Put(cache[c], i, Store!Empty)
<1>1. /\ at[c] \in {"look", "do"} /\ at[c] # "idle" /\ Release(c)
      /\ op[c].kind \in TwoLocks
      /\ cache' = [cache EXCEPT ![c] = Put(m, p, w)]
  BY DEF PutCreate, PutMkdir, PutNew, Entries, TwoLocks
<1>2. p \in Inum /\ i \in Inum /\ v \in AnyContent /\ n \in Name
  BY <1>1, OwnedInodes DEF FileInvariant, LocksInv
<1>3. Shape /\ Room \in Nat /\ cache[c] \in [Inum -> AnyDetails]
      /\ AllFit(cache[c], Room) /\ Fits(v, Room)
  BY <1>2, CacheFits DEF FileInvariant
<1> HIDE DEF v, n, i, p
<1>4. w \in AnyContent /\ Fits(w, Room)
  <2>1. w \in AnyContent
    BY <1>2, EnterEntries
  <2>2. w.writes = v.writes
    BY <1>2 DEF Store!Enter, AnyContent
  <2> HIDE DEF w
  <2>3. QED BY <1>3, <2>1, <2>2 DEF Fits
<1>5. IsFiniteSet(Busy') /\ Room' = Room + 1 /\ ext' = ext
  BY <1>1, EndRoom
<1>6. Store!Empty \in AnyContent /\ Fits(Store!Empty, Room)
  BY <1>3, EmptyContent DEF Fits
<1> HIDE DEF w
<1>7. AllFit(m, Room) /\ m \in [Inum -> AnyDetails]
  BY <1>2, <1>3, <1>6, PutFits, PutEntry
<1>8. CacheBecomes(c, Put(m, p, w))
  BY <1>1, <1>5 DEF CacheBecomes
<1> HIDE DEF m
<1>9. AllFit(Put(m, p, w), Room) /\ Put(m, p, w) \in [Inum -> AnyDetails]
  BY <1>2, <1>3, <1>4, <1>7, PutFits, PutEntry
<1>10. QED BY <1>3, <1>5, <1>8, <1>9, CacheRoom

LEMMA RemoveCount ==
  ASSUME FileInvariant, CountInv, Shape', NEW c \in Client, RemoveFound(c)
  PROVE  CountInv'
<1> DEFINE i == op[c].child
<1>1. /\ at[c] # "idle" /\ Release(c)
      /\ cache' = [cache EXCEPT ![c] = Removed(cache[c], i)]
  BY DEF RemoveFound
<1>2. i \in Inum
  BY DEF FileInvariant, Shape, Operation
<1>3. Shape /\ Room \in Nat /\ cache[c] \in [Inum -> AnyDetails] /\ AllFit(cache[c], Room)
  BY <1>2, CacheFits DEF FileInvariant
<1>4. IsFiniteSet(Busy') /\ Room' = Room + 1 /\ ext' = ext
  BY <1>1, EndRoom
<1>5. AllFit(Removed(cache[c], i), Room) /\ Removed(cache[c], i) \in [Inum -> AnyDetails]
  BY <1>2, <1>3, RemovedFits, RemovedEntry
<1>6. CacheBecomes(c, Removed(cache[c], i))
  BY <1>1, <1>4 DEF CacheBecomes
<1>7. QED BY <1>3, <1>4, <1>5, <1>6, CacheRoom

LEMMA DoreleaseCount ==
  ASSUME FileInvariant, CountInv, Shape', NEW c \in Client, NEW i \in Inum, dorelease(c, i)
  PROVE  CountInv'
<1>1. Shape /\ Room \in Nat /\ AllFit(ext, Room) /\ \A d \in Client : AllFit(cache[d], Room)
  BY RoomNumber, RoomFits DEF FileInvariant
<1>2. /\ ext' = [ext EXCEPT ![i] = Flushed(cache[c][i], i)]
      /\ cache' = [cache EXCEPT ![c][i] = NotCached]
      /\ ops' = ops /\ at' = at
  BY DEF dorelease, GiveBack
<1>3. Busy' = Busy /\ Room' = Room /\ IsFiniteSet(Busy)
  BY <1>2, RoomSame DEF CountInv
<1>4. Fits(Flushed(cache[c][i], i).content, Room)
  BY <1>1, EmptyTypes, EmptyContent DEF AllFit, Fits, Flushed, Store!Extent
<1>5. AllFit(ext', Room)
  BY <1>1, <1>2, <1>4 DEF AllFit, Shape
<1>6. Fits(NotCached.content, Room)
  BY <1>1, EmptyContent DEF NotCached, Fits
<1>7. ASSUME NEW d \in Client PROVE AllFit(cache'[d], Room)
  <2>1. \A j \in Inum : cache'[d][j] = cache[d][j] \/ cache'[d][j] = NotCached
    BY <1>1, <1>2 DEF Shape
  <2>2. QED BY <1>1, <1>6, <2>1 DEF AllFit
<1>8. QED BY <1>3, <1>5, <1>7, RoomKept

LEMMA CountStep ==
  ASSUME FileInvariant, ReleasingInv, CountInv, [Next]_vars
  PROVE  CountInv'
<1>1. Shape'
  BY FileStep DEF FileInvariant
<1>2. ASSUME NEW c \in Client, Operate(c)
      PROVE  CountInv'
  BY <1>1, <1>2, GetCount, LookCount, IdleCount, WriteCount, LookUnlinkCount, PutNewCount,
     RemoveCount DEF Operate
<1>3. ASSUME NEW i \in Inum, GivesBack(i)
      PROVE  CountInv'
  <2>1. CASE \E c \in Client : dorelease(c, i)
    BY <1>1, <2>1, DoreleaseCount
  <2>2. CASE Released(i)
    <3>1. Busy' = Busy /\ UNCHANGED <<ext, cache, ops>>
      BY <2>2 DEF Released, Busy
    <3>2. QED BY <3>1 DEF CountInv
  <2>3. QED BY <1>3, <2>1, <2>2 DEF GivesBack
<1>4. CASE UNCHANGED vars
  <2>1. Busy' = Busy
    BY <1>4 DEF vars, Busy
  <2>2. QED BY <1>4, <2>1 DEF vars, CountInv
<1>5. CASE Done
  <2>1. Busy' = Busy
    BY <1>5 DEF Done, vars, Busy
  <2>2. QED BY <1>5, <2>1 DEF Done, vars, CountInv
<1>6. QED BY <1>2, <1>3, <1>4, <1>5 DEF Next, GivesBack

LEMMA TypesFollow ==
  ASSUME FileInvariant, ReleasingInv, CountInv
  PROVE  TypeOK
<1>1. /\ Shape /\ CacheInv /\ Room <= MaxOps /\ Room \in Nat
      /\ \A i \in Inum : ext[i].content.writes <= Room
      /\ \A c \in Client, i \in Inum : cache[c][i].content.writes <= Room
  BY RoomNumber DEF FileInvariant
<1>2. ASSUME NEW v \in AnyContent, v.writes <= Room
      PROVE  v \in Content
  BY <1>1, <1>2 DEF AnyContent, Content, Entry
<1>3. ext \in [Inum -> [there : BOOLEAN, content : Content]]
  <2>1. ASSUME NEW i \in Inum PROVE ext[i] \in [there : BOOLEAN, content : Content]
    <3>1. ext[i] \in AnyExtent
      BY <1>1 DEF Shape
    <3>2. ext[i].content \in Content
      BY <1>1, <1>2, <3>1 DEF AnyExtent
    <3>3. QED BY <3>1, <3>2 DEF AnyExtent
  <2>2. QED BY <1>1, <2>1 DEF Shape
<1>4. cache \in [Client -> [Inum -> fileDetails]]
  <2>1. ASSUME NEW c \in Client, NEW i \in Inum PROVE cache[c][i] \in fileDetails
    <3>1. cache[c][i] \in AnyDetails
      BY <1>1 DEF Shape
    <3>2. cache[c][i].content \in Content
      BY <1>1, <1>2, <3>1 DEF AnyDetails
    <3>3. QED BY <3>1, <3>2 DEF AnyDetails, fileDetails
  <2>2. QED BY <1>1, <2>1 DEF Shape
<1>5. \A c \in Client, i \in Inum : ~cache[c][i].cached => cache[c][i] = NotCached
  BY <1>1 DEF CacheInv, FlagsInv
<1>6. QED BY <1>1, <1>3, <1>4, <1>5 DEF Shape, ReleasingInv, TypeOK

LEMMA InitCount ==
  ASSUME Init
  PROVE  CountInv
<1>1. Busy = {}
  BY DEF Init, Busy
<1>2. IsFiniteSet(Busy) /\ Cardinality(Busy) = 0
  BY <1>1, FS_EmptySet
<1>3. /\ \A i \in Inum : ext[i].content.writes = 0
      /\ \A c \in Client, i \in Inum : cache[c][i].content.writes = 0
      /\ ops = 0
  BY EmptyTypes, EmptyContent DEF Init, NotCached
<1>4. QED BY <1>2, <1>3 DEF CountInv

\* The state of the file service keeps its types; in particular no file holds
\* more writes than operations were begun.
THEOREM FileTypeCorrect == Spec => []TypeOK
<1>1. Init => CountInv
  BY InitCount
<1>2. FileInvariant /\ ReleasingInv /\ CountInv /\ [Next]_vars => CountInv'
  BY CountStep
<1>3. FileInvariant /\ ReleasingInv /\ CountInv => TypeOK
  BY TypesFollow
<1>4. QED BY <1>1, <1>2, <1>3, FileInvariantHolds, PTL DEF Spec
=============================================================================
