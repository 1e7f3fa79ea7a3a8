-------------------------- MODULE MemoryStoreProofs --------------------------
(* What the operations on one team's memory do to its store: every write, read, *)
(* removal and repair of the index maps a store to a store, keeps each entry in  *)
(* the directory or in the archive, and an index that lists the entries listing. *)
(* The proofs about the teams' memory and about its copies rest on these.        *)
EXTENDS MemoryStore, TLAPS

\* The dictionaries whose keys are keys of the memory.
Partial(S) == UNION {[K -> S] : K \in SUBSET Keys}

Metas == [tier : {"short", "long"}, imp : 0..2, acc : Nat, old : BOOLEAN]
Stores == [file : Partial(SUBSET Facts), aged : SUBSET Keys, indexed : BOOLEAN,
           index : Partial(Metas), arch : Partial(SUBSET Facts), archIndex : Partial(Metas)]

\* The index of s lists its entries.
Lists(s) == s.indexed => DOMAIN s.index = DOMAIN s.file

-----------------------------------------------------------------------------
(* Dictionaries. *)

LEMMA PartialIs ==
  ASSUME NEW S, NEW f \in Partial(S)
  PROVE  DOMAIN f \in SUBSET Keys /\ f \in [DOMAIN f -> S] /\ \A k \in DOMAIN f : f[k] \in S
<1>1. PICK K \in SUBSET Keys : f \in [K -> S]
  BY DEF Partial
<1> QED BY <1>1

LEMMA PartialHas ==
  ASSUME NEW S, NEW K \in SUBSET Keys, NEW f \in [K -> S]
  PROVE  f \in Partial(S)
BY DEF Partial

LEMMA NothingIs == ASSUME NEW S PROVE DOMAIN Nothing = {} /\ Nothing \in Partial(S)
<1>1. DOMAIN << >> = 1..0 /\ 1..0 = {}
  OBVIOUS
<1>2. DOMAIN Nothing = {}
  BY <1>1 DEF Nothing
<1>3. Nothing \in [{} -> S]
  BY <1>2 DEF Nothing
<1> QED BY <1>2, <1>3, PartialHas

LEMMA UpdatedIs ==
  ASSUME NEW S, NEW f \in Partial(S), NEW g \in Partial(S)
  PROVE  /\ Updated(f, g) \in Partial(S) /\ DOMAIN Updated(f, g) = DOMAIN g \cup DOMAIN f
         /\ \A k \in DOMAIN g \cup DOMAIN f :
              Updated(f, g)[k] = IF k \in DOMAIN g THEN g[k] ELSE f[k]
<1>1. DOMAIN g \cup DOMAIN f \in SUBSET Keys
  BY PartialIs
<1>2. Updated(f, g) \in [DOMAIN g \cup DOMAIN f -> S]
  BY PartialIs DEF Updated
<1>3. Updated(f, g) \in Partial(S)
  BY <1>1, <1>2, PartialHas
<1> QED BY <1>2, <1>3 DEF Updated

LEMMA OnlyIs ==
  ASSUME NEW S, NEW f \in Partial(S), NEW K
  PROVE  /\ Only(f, K) \in Partial(S) /\ DOMAIN Only(f, K) = DOMAIN f \cap K
         /\ \A k \in DOMAIN f \cap K : Only(f, K)[k] = f[k]
<1>1. DOMAIN f \cap K \in SUBSET Keys
  BY PartialIs
<1>2. Only(f, K) \in [DOMAIN f \cap K -> S]
  BY PartialIs DEF Only
<1>3. Only(f, K) \in Partial(S)
  BY <1>1, <1>2, PartialHas
<1> QED BY <1>2, <1>3 DEF Only

LEMMA WithoutIs ==
  ASSUME NEW S, NEW f \in Partial(S), NEW K
  PROVE  /\ Without(f, K) \in Partial(S) /\ DOMAIN Without(f, K) = DOMAIN f \ K
         /\ \A k \in DOMAIN f \ K : Without(f, K)[k] = f[k]
<1>1. DOMAIN f \ K \in SUBSET Keys
  BY PartialIs
<1>2. Without(f, K) \in [DOMAIN f \ K -> S]
  BY PartialIs DEF Without
<1>3. Without(f, K) \in Partial(S)
  BY <1>1, <1>2, PartialHas
<1> QED BY <1>2, <1>3 DEF Without

LEMMA HoldingIs ==
  ASSUME NEW S, NEW k \in Keys, NEW v \in S
  PROVE  Holding(k, v) \in Partial(S) /\ DOMAIN Holding(k, v) = {k} /\ Holding(k, v)[k] = v
<1>1. Holding(k, v) \in [{k} -> S]
  BY DEF Holding
<1>2. Holding(k, v) \in Partial(S)
  BY <1>1, PartialHas
<1> QED BY <1>1, <1>2 DEF Holding

\* The same of the two kinds of dictionaries a store has.
LEMMA WithoutFacts ==
  ASSUME NEW f \in Partial(SUBSET Facts), NEW K
  PROVE  /\ Without(f, K) \in Partial(SUBSET Facts) /\ DOMAIN Without(f, K) = DOMAIN f \ K
         /\ \A k \in DOMAIN f \ K : Without(f, K)[k] = f[k]
<1> DEFINE S == SUBSET Facts
<1>1. f \in Partial(S)
  OBVIOUS
<1> HIDE DEF S
<1>2. Without(f, K) \in Partial(S)
  BY <1>1, WithoutIs
<1>3. DOMAIN Without(f, K) = DOMAIN f \ K
  BY <1>1, WithoutIs
<1>4. \A k \in DOMAIN f \ K : Without(f, K)[k] = f[k]
  BY DEF Without
<1> QED BY <1>2, <1>3, <1>4 DEF S

LEMMA UpdatedFacts ==
  ASSUME NEW f \in Partial(SUBSET Facts), NEW g \in Partial(SUBSET Facts)
  PROVE  /\ Updated(f, g) \in Partial(SUBSET Facts) /\ DOMAIN Updated(f, g) = DOMAIN g \cup DOMAIN f
         /\ \A k \in DOMAIN g \cup DOMAIN f :
              Updated(f, g)[k] = IF k \in DOMAIN g THEN g[k] ELSE f[k]
<1> DEFINE S == SUBSET Facts
<1>1. f \in Partial(S) /\ g \in Partial(S)
  OBVIOUS
<1> HIDE DEF S
<1>2. Updated(f, g) \in Partial(S)
  BY <1>1, UpdatedIs
<1>3. DOMAIN Updated(f, g) = DOMAIN g \cup DOMAIN f
  BY <1>1, UpdatedIs
<1>4. \A k \in DOMAIN g \cup DOMAIN f :
        Updated(f, g)[k] = IF k \in DOMAIN g THEN g[k] ELSE f[k]
  BY DEF Updated
<1> QED BY <1>2, <1>3, <1>4 DEF S

LEMMA WithoutMetas ==
  ASSUME NEW f \in Partial(Metas), NEW K
  PROVE  Without(f, K) \in Partial(Metas) /\ DOMAIN Without(f, K) = DOMAIN f \ K
<1>1. Without(f, K) \in Partial(Metas)
  BY WithoutIs
<1>2. DOMAIN Without(f, K) = DOMAIN f \ K
  BY WithoutIs
<1> QED BY <1>1, <1>2

-----------------------------------------------------------------------------
(* Stores. *)

\* The parts of a store.
LEMMA StoreIs ==
  ASSUME NEW s \in Stores
  PROVE  /\ s.file \in Partial(SUBSET Facts) /\ s.aged \in SUBSET Keys /\ s.indexed \in BOOLEAN
         /\ s.index \in Partial(Metas) /\ s.arch \in Partial(SUBSET Facts)
         /\ s.archIndex \in Partial(Metas)
         /\ DOMAIN s.file \in SUBSET Keys /\ DOMAIN s.index \in SUBSET Keys
         /\ DOMAIN s.arch \in SUBSET Keys
BY PartialIs DEF Stores

\* t has every file of s, in the directory or in the archive.
Saves(s, t) ==
  /\ t \in Stores
  /\ DOMAIN t.file \subseteq DOMAIN s.file
  /\ \A k \in DOMAIN t.file : t.file[k] = s.file[k]
  /\ \A k \in DOMAIN s.file \ DOMAIN t.file : k \in DOMAIN t.arch /\ t.arch[k] = s.file[k]
  /\ \A k \in DOMAIN s.arch \ DOMAIN s.file : k \in DOMAIN t.arch /\ t.arch[k] = s.arch[k]
Keeps(s, t) == Saves(s, t) /\ (Lists(s) => Lists(t))

LEMMA SavesChain ==
  ASSUME NEW s, NEW t, NEW u, Saves(s, t), Saves(t, u)
  PROVE  Saves(s, u)
BY DEF Saves

LEMMA KeepsChain ==
  ASSUME NEW s, NEW t, NEW u, Keeps(s, t), Keeps(t, u)
  PROVE  Keeps(s, u)
BY SavesChain DEF Keeps

LEMMA KeepsItself == ASSUME NEW s \in Stores PROVE Keeps(s, s)
BY DEF Keeps, Saves

\* What is the same but for the metadata is kept.
LEMMA SameFiles ==
  ASSUME NEW s \in Stores, NEW t \in Stores, t.file = s.file, t.arch = s.arch
  PROVE  Saves(s, t)
BY DEF Saves

LEMMA NewMetaType == ASSUME NEW o \in BOOLEAN PROVE NewMeta(o) \in Metas /\ NewMeta(o).tier = "short"
BY DEF NewMeta, Metas

LEMMA WithIndexIs ==
  ASSUME NEW s \in Stores
  PROVE  /\ WithIndex(s) \in Stores /\ WithIndex(s).indexed = TRUE
         /\ WithIndex(s).file = s.file /\ WithIndex(s).arch = s.arch
         /\ s.indexed => WithIndex(s) = s
         /\ ~s.indexed => /\ DOMAIN WithIndex(s).index = DOMAIN s.file
                          /\ \A k \in DOMAIN s.file : WithIndex(s).index[k].tier = "short"
<1>1. CASE s.indexed
  <2>1. s.indexed = TRUE
    BY <1>1, StoreIs
  <2>2. WithIndex(s) = s
    BY <1>1 DEF WithIndex
  <2> QED BY <1>1, <2>1, <2>2
<1>2. CASE ~s.indexed
  <2> DEFINE i == [k \in DOMAIN s.file |-> NewMeta(k \in s.aged)]
  <2>1. i \in [DOMAIN s.file -> Metas] /\ \A k \in DOMAIN s.file : i[k].tier = "short"
    <3>1. \A k : (k \in s.aged) \in BOOLEAN
      OBVIOUS
    <3>2. \A k : NewMeta(k \in s.aged) \in Metas /\ NewMeta(k \in s.aged).tier = "short"
      BY <3>1 DEF NewMeta, Metas
    <3> QED BY <3>2
  <2>2. i \in Partial(Metas) /\ DOMAIN i = DOMAIN s.file
    BY <2>1, StoreIs, PartialHas
  <2>3. WithIndex(s) = [s EXCEPT !.indexed = TRUE, !.index = i]
    BY <1>2 DEF WithIndex
  <2> HIDE DEF i
  <2> QED BY <1>2, <2>1, <2>2, <2>3 DEF Stores
<1> QED BY <1>1, <1>2

\* The index as it is read lists the entries, if it is right.
LEMMA WithIndexLists ==
  ASSUME NEW s \in Stores, Lists(s)
  PROVE  DOMAIN WithIndex(s).index = DOMAIN s.file
BY WithIndexIs, StoreIs DEF Lists

LEMMA KeepsIndexed == ASSUME NEW s \in Stores PROVE Keeps(s, WithIndex(s))
BY WithIndexIs, WithIndexLists, SameFiles DEF Keeps, Lists

\* A change of the metadata alone.
LEMMA KeepsMeta ==
  ASSUME NEW s \in Stores, NEW i \in Partial(Metas), DOMAIN i = DOMAIN WithIndex(s).index
  PROVE  Keeps(s, [WithIndex(s) EXCEPT !.index = i])
<1> DEFINE t == WithIndex(s)
           u == [t EXCEPT !.index = i]
<1>1. t \in Stores /\ t.indexed = TRUE /\ t.file = s.file /\ t.arch = s.arch
  BY WithIndexIs
<1>2. DOMAIN i = DOMAIN t.index
  OBVIOUS
<1> HIDE DEF t
<1>3. u \in Stores /\ u.indexed = TRUE /\ u.file = s.file /\ u.arch = s.arch /\ u.index = i
  BY <1>1 DEF Stores
<1>4. Lists(s) => DOMAIN i = DOMAIN s.file
  BY <1>2, WithIndexLists DEF t
<1> HIDE DEF u
<1>5. Keeps(s, u)
  BY <1>3, <1>4, SameFiles DEF Keeps, Lists
<1> QED BY <1>5 DEF u, t

LEMMA KeepsAccessed == ASSUME NEW s \in Stores, NEW K PROVE Keeps(s, Accessed(s, K))
<1> DEFINE t == WithIndex(s)
           i == [k \in DOMAIN t.index |->
                   IF k \in K /\ t.index[k].acc < MaxAccess
                   THEN [t.index[k] EXCEPT !.acc = @ + 1] ELSE t.index[k]]
<1>1. t.index \in Partial(Metas)
  BY WithIndexIs, StoreIs
<1>2. \A k \in DOMAIN t.index : t.index[k] \in Metas
  BY <1>1, PartialIs
<1>3. \A m \in Metas : [m EXCEPT !.acc = @ + 1] \in Metas
  BY DEF Metas
<1>4. i \in [DOMAIN t.index -> Metas] /\ DOMAIN i = DOMAIN t.index
  BY <1>2, <1>3
<1>5. i \in Partial(Metas)
  BY <1>1, <1>4, PartialIs, PartialHas
<1>6. Accessed(s, K) = [WithIndex(s) EXCEPT !.index = i]
  BY DEF Accessed
<1> HIDE DEF i
<1> QED BY <1>4, <1>5, <1>6, KeepsMeta

\* An entry of a dictionary of metadata is changed in both its fields.
LEMMA BothFields ==
  ASSUME NEW f \in Partial(Metas), NEW k, NEW tier \in {"short", "long"}, NEW imp \in 0..2
  PROVE  LET i == [f EXCEPT ![k].tier = tier, ![k].imp = imp]
         IN  i \in Partial(Metas) /\ DOMAIN i = DOMAIN f
<1> DEFINE j == [f EXCEPT ![k].tier = tier]
           i == [j EXCEPT ![k].imp = imp]
<1>1. f \in [DOMAIN f -> Metas]
  BY PartialIs
<1>2. \A m \in Metas : [m EXCEPT !.tier = tier] \in Metas /\ [m EXCEPT !.imp = imp] \in Metas
  BY DEF Metas
<1>3. j \in [DOMAIN f -> Metas]
  BY <1>1, <1>2
<1> HIDE DEF j
<1>4. i \in [DOMAIN f -> Metas] /\ DOMAIN i = DOMAIN f
  BY <1>2, <1>3
<1>5. i \in Partial(Metas)
  BY <1>4, PartialIs, PartialHas
<1> QED BY <1>4, <1>5 DEF j

LEMMA KeepsSetMeta ==
  ASSUME NEW s \in Stores, NEW k, NEW tier \in {"short", "long"}, NEW imp \in 0..2
  PROVE  Keeps(s, SetMeta(s, k, tier, imp))
<1> DEFINE f == WithIndex(s).index
           i == [f EXCEPT ![k].tier = tier, ![k].imp = imp]
<1>1. f \in Partial(Metas)
  BY WithIndexIs, StoreIs
<1>2. SetMeta(s, k, tier, imp) = [WithIndex(s) EXCEPT !.index = i]
  BY DEF SetMeta
<1>3. DOMAIN f = DOMAIN WithIndex(s).index
  OBVIOUS
<1> HIDE DEF f
<1>4. i \in Partial(Metas) /\ DOMAIN i = DOMAIN f
  BY <1>1, BothFields
<1> HIDE DEF i
<1> QED BY <1>2, <1>3, <1>4, KeepsMeta

-----------------------------------------------------------------------------
(* The archive. *)

\* What ArchiveMeta makes of a store: the index is read, and the archive's grows.
LEMMA ArchiveMetaIs ==
  ASSUME NEW s \in Stores, NEW K
  PROVE  /\ ArchiveMeta(s, K) \in Stores /\ ArchiveMeta(s, K).indexed = TRUE
         /\ ArchiveMeta(s, K).file = s.file /\ ArchiveMeta(s, K).arch = s.arch
         /\ ArchiveMeta(s, K).index = WithIndex(s).index
<1> DEFINE t == WithIndex(s)
           a == Updated(t.archIndex, Only(t.index, K))
<1>1. t \in Stores /\ t.indexed = TRUE /\ t.file = s.file /\ t.arch = s.arch
  BY WithIndexIs
<1> HIDE DEF t
<1>2. t.index \in Partial(Metas) /\ t.archIndex \in Partial(Metas)
  BY <1>1, StoreIs
<1>3. Only(t.index, K) \in Partial(Metas)
  BY <1>2, OnlyIs
<1>4. a \in Partial(Metas)
  BY <1>2, <1>3, UpdatedIs
<1>5. ArchiveMeta(s, K) = [t EXCEPT !.archIndex = a]
  BY DEF ArchiveMeta, t
<1> HIDE DEF a
<1>6. t.index = WithIndex(s).index
  BY DEF t
<1> QED BY <1>1, <1>4, <1>5, <1>6 DEF Stores

LEMMA KeepsArchiveMeta == ASSUME NEW s \in Stores, NEW K PROVE Keeps(s, ArchiveMeta(s, K))
<1>1. ArchiveMeta(s, K) \in Stores /\ Saves(s, ArchiveMeta(s, K))
  BY ArchiveMetaIs, SameFiles
<1>2. Lists(s) => Lists(ArchiveMeta(s, K))
  BY ArchiveMetaIs, WithIndexLists DEF Lists
<1> QED BY <1>1, <1>2 DEF Keeps

\* What ArchiveFile makes of a store: the files of K are in the archive.
LEMMA ArchiveFileIs ==
  ASSUME NEW s \in Stores, NEW K
  PROVE  /\ ArchiveFile(s, K) \in Stores /\ Saves(s, ArchiveFile(s, K))
         /\ ArchiveFile(s, K).indexed = s.indexed /\ ArchiveFile(s, K).index = s.index
         /\ DOMAIN ArchiveFile(s, K).file = DOMAIN s.file \ K
<1> DEFINE o == Only(s.file, K)
           a == Updated(s.arch, o)
           f == Without(s.file, K)
           t == ArchiveFile(s, K)
<1>1. s.file \in Partial(SUBSET Facts) /\ s.arch \in Partial(SUBSET Facts)
  BY StoreIs
<1>2. /\ o \in Partial(SUBSET Facts) /\ DOMAIN o = DOMAIN s.file \cap K
      /\ \A k \in DOMAIN s.file \cap K : o[k] = s.file[k]
  BY <1>1, OnlyIs
<1> HIDE DEF o
<1>3. /\ a \in Partial(SUBSET Facts) /\ DOMAIN a = DOMAIN o \cup DOMAIN s.arch
      /\ \A k \in DOMAIN o \cup DOMAIN s.arch : a[k] = IF k \in DOMAIN o THEN o[k] ELSE s.arch[k]
  BY <1>1, <1>2, UpdatedFacts
<1>4. /\ f \in Partial(SUBSET Facts) /\ DOMAIN f = DOMAIN s.file \ K
      /\ \A k \in DOMAIN s.file \ K : f[k] = s.file[k]
  BY <1>1, WithoutFacts
<1>5. t = [s EXCEPT !.arch = a, !.file = f, !.aged = s.aged \ K]
  BY DEF ArchiveFile, o
<1> HIDE DEF a, f, t
<1>6. /\ t \in Stores /\ t.arch = a /\ t.file = f /\ t.indexed = s.indexed /\ t.index = s.index
  BY <1>3, <1>4, <1>5 DEF Stores
<1>7. Saves(s, t)
  BY <1>2, <1>3, <1>4, <1>6 DEF Saves
<1> QED BY <1>4, <1>6, <1>7 DEF t

\* Archived entries are kept, and the index lists what is left.
LEMMA KeepsArchive == ASSUME NEW s \in Stores, NEW K PROVE Keeps(s, Archive(s, K))
<1> DEFINE m == ArchiveMeta(s, K)
           t == ArchiveFile(m, K)
           i == Without(t.index, K)
           u == Archive(s, K)
<1>1. m \in Stores /\ m.indexed = TRUE /\ Keeps(s, m)
  BY ArchiveMetaIs, KeepsArchiveMeta
<1> HIDE DEF m
<1>2. /\ t \in Stores /\ Saves(m, t) /\ t.indexed = TRUE /\ t.index = m.index
      /\ DOMAIN t.file = DOMAIN m.file \ K
  BY <1>1, ArchiveFileIs
<1> HIDE DEF t
<1>3. i \in Partial(Metas) /\ DOMAIN i = DOMAIN t.index \ K
  BY <1>2, StoreIs, WithoutMetas
<1>4. u = [t EXCEPT !.index = i]
  BY DEF Archive, t, m
<1> HIDE DEF i, u
<1>5. u \in Stores /\ u.file = t.file /\ u.arch = t.arch /\ u.indexed = TRUE /\ u.index = i
  BY <1>2, <1>3, <1>4 DEF Stores
<1>6. Saves(s, u)
  BY <1>1, <1>2, <1>5, SavesChain, SameFiles DEF Keeps
<1>7. Lists(m) => Lists(u)
  BY <1>1, <1>2, <1>3, <1>5 DEF Lists
<1> QED BY <1>1, <1>6, <1>7 DEF Keeps, u

-----------------------------------------------------------------------------
(* Writes and deletions. *)

\* t is s with the entries of new written, its index right if that of s was.
Takes(s, t, new) ==
  /\ t \in Stores
  /\ t.file = Updated(s.file, new)
  /\ t.arch = s.arch

LEMMA PutFileIs ==
  ASSUME NEW s \in Stores, NEW new \in Partial(SUBSET Facts)
  PROVE  /\ Takes(s, PutFile(s, new), new)
         /\ PutFile(s, new).indexed = s.indexed /\ PutFile(s, new).index = s.index
<1> DEFINE f == Updated(s.file, new)
           t == PutFile(s, new)
<1>1. f \in Partial(SUBSET Facts)
  BY StoreIs, UpdatedIs
<1>2. t = [s EXCEPT !.file = f, !.aged = s.aged \ DOMAIN new]
  BY DEF PutFile
<1>3. f = Updated(s.file, new)
  OBVIOUS
<1> HIDE DEF f, t
<1>4. t \in Stores /\ t.file = f /\ t.arch = s.arch /\ t.indexed = s.indexed /\ t.index = s.index
  BY <1>1, <1>2 DEF Stores
<1> QED BY <1>3, <1>4 DEF Takes, t

LEMMA PutIs ==
  ASSUME NEW s \in Stores, NEW new \in Partial(SUBSET Facts)
  PROVE  /\ Takes(s, Put(s, new), new) /\ Put(s, new).indexed = TRUE
         /\ Lists(s) => Lists(Put(s, new))
<1> DEFINE p == PutFile(s, new)
           t == WithIndex(p)
           touched == [k \in DOMAIN new |->
                         IF k \in DOMAIN t.index THEN [t.index[k] EXCEPT !.old = FALSE]
                                                 ELSE NewMeta(FALSE)]
           i == Updated(t.index, touched)
           u == Put(s, new)
<1>1. /\ p \in Stores /\ p.file = Updated(s.file, new) /\ p.arch = s.arch
      /\ p.indexed = s.indexed /\ p.index = s.index
  BY PutFileIs DEF Takes
<1> HIDE DEF p
<1>2. /\ t \in Stores /\ t.indexed = TRUE /\ t.file = p.file /\ t.arch = p.arch
      /\ p.indexed => t = p
      /\ ~p.indexed => DOMAIN t.index = DOMAIN p.file
  BY <1>1, WithIndexIs
<1> HIDE DEF t
<1>3. t.index \in Partial(Metas) /\ \A k \in DOMAIN t.index : t.index[k] \in Metas
  BY <1>2, StoreIs, PartialIs
<1>4. \A m \in Metas : [m EXCEPT !.old = FALSE] \in Metas
  BY DEF Metas
<1>5. touched \in [DOMAIN new -> Metas] /\ DOMAIN touched = DOMAIN new
  BY <1>3, <1>4, NewMetaType
<1>6. touched \in Partial(Metas)
  BY <1>5, PartialIs, PartialHas
<1>7. u = [t EXCEPT !.index = i]
  BY DEF Put, t, p
<1> HIDE DEF touched
<1>8. i \in Partial(Metas) /\ DOMAIN i = DOMAIN new \cup DOMAIN t.index
  BY <1>3, <1>5, <1>6, UpdatedIs
<1> HIDE DEF i, u
<1>9. u \in Stores /\ u.file = t.file /\ u.arch = t.arch /\ u.indexed = TRUE /\ u.index = i
  BY <1>2, <1>7, <1>8 DEF Stores
<1>10. DOMAIN u.file = DOMAIN new \cup DOMAIN s.file
  <2>1. DOMAIN Updated(s.file, new) = DOMAIN new \cup DOMAIN s.file
    BY StoreIs, UpdatedFacts
  <2> QED BY <2>1, <1>1, <1>2, <1>9
<1>11. Lists(s) => DOMAIN u.index = DOMAIN u.file
  <2>1. CASE s.indexed
    BY <2>1, <1>1, <1>2, <1>8, <1>9, <1>10 DEF Lists
  <2>2. CASE ~s.indexed
    BY <2>2, <1>1, <1>2, <1>8, <1>9, <1>10
  <2> QED BY <2>1, <2>2
<1> QED BY <1>1, <1>2, <1>9, <1>11 DEF Takes, Lists, u

\* An entry is deleted, and so is its place in the index.
LEMMA DeleteIs ==
  ASSUME NEW s \in Stores, NEW k
  PROVE  LET t == Delete(s, k) IN
         /\ t \in Stores /\ t.arch = s.arch /\ DOMAIN t.file = DOMAIN s.file \ {k}
         /\ \A x \in DOMAIN t.file : t.file[x] = s.file[x]
         /\ Lists(s) => Lists(t)
<1> DEFINE f == Without(s.file, {k})
           p == [s EXCEPT !.file = f, !.aged = s.aged \ {k}]
           t == WithIndex(p)
           i == Without(t.index, {k})
           u == Delete(s, k)
<1>0. u = [t EXCEPT !.index = i]
  BY DEF Delete
<1>1. /\ f \in Partial(SUBSET Facts) /\ DOMAIN f = DOMAIN s.file \ {k}
      /\ \A x \in DOMAIN s.file \ {k} : f[x] = s.file[x]
  BY StoreIs, WithoutFacts
<1> HIDE DEF f
<1>2. /\ p \in Stores /\ p.file = f /\ p.arch = s.arch
      /\ p.indexed = s.indexed /\ p.index = s.index
  BY <1>1 DEF Stores
<1> HIDE DEF p
<1>3. /\ t \in Stores /\ t.indexed = TRUE /\ t.file = p.file /\ t.arch = p.arch
      /\ p.indexed => t = p
      /\ ~p.indexed => DOMAIN t.index = DOMAIN p.file
  BY <1>2, WithIndexIs
<1> HIDE DEF t
<1>4. i \in Partial(Metas) /\ DOMAIN i = DOMAIN t.index \ {k}
  BY <1>3, StoreIs, WithoutMetas
<1> HIDE DEF i, u
<1>5. u \in Stores /\ u.file = t.file /\ u.arch = t.arch /\ u.indexed = TRUE /\ u.index = i
  BY <1>0, <1>3, <1>4 DEF Stores
<1>6. Lists(s) => DOMAIN u.index = DOMAIN u.file
  <2>1. CASE s.indexed
    BY <2>1, <1>1, <1>2, <1>3, <1>4, <1>5 DEF Lists
  <2>2. CASE ~s.indexed
    BY <2>2, <1>1, <1>2, <1>3, <1>4, <1>5
  <2> QED BY <2>1, <2>2
<1>7. /\ u \in Stores /\ u.arch = s.arch /\ DOMAIN u.file = DOMAIN s.file \ {k}
      /\ \A x \in DOMAIN u.file : u.file[x] = s.file[x]
      /\ Lists(s) => Lists(u)
  BY <1>1, <1>2, <1>3, <1>5, <1>6 DEF Lists
<1> QED BY <1>7 DEF u
LEMMA AppendedIs ==
  ASSUME NEW s \in Stores, NEW k \in Keys, NEW f \in Facts
  PROVE  Appended(s, k, f) \in Partial(SUBSET Facts)
<1> DEFINE X == {f} \cup IF k \in DOMAIN s.file THEN s.file[k] ELSE {}
<1>1. X \in SUBSET Facts
  BY StoreIs, PartialIs
<1>2. Appended(s, k, f) = Holding(k, X)
  BY DEF Appended
<1> HIDE DEF X
<1>3. Holding(k, X) \in Partial(SUBSET Facts)
  BY <1>1, HoldingIs
<1> QED BY <1>2, <1>3

LEMMA EmptyIs == EmptyStore \in Stores
<1>1. {} \in SUBSET Keys
  OBVIOUS
<1>2. Nothing \in Partial(Metas)
  BY NothingIs
<1>3. Nothing \in Partial(SUBSET Facts)
  <2> DEFINE S == SUBSET Facts
  <2> HIDE DEF S
  <2>1. Nothing \in Partial(S)
    BY NothingIs
  <2> QED BY <2>1 DEF S
<1> QED BY <1>1, <1>2, <1>3 DEF EmptyStore, Stores

-----------------------------------------------------------------------------
(* What the index of a store lists. *)

Listed(s) == DOMAIN WithIndex(s).index

\* t is a store that lists what s does but for K, and what is in L besides.
Relists(s, t, K, L) == t \in Stores /\ Listed(t) = (Listed(s) \ K) \cup L

LEMMA ListedIs ==
  ASSUME NEW s \in Stores
  PROVE  /\ s.indexed => Listed(s) = DOMAIN s.index
         /\ ~s.indexed => Listed(s) = DOMAIN s.file
BY WithIndexIs DEF Listed

LEMMA IndexedLists ==
  ASSUME NEW s \in Stores, s.indexed = TRUE
  PROVE  Listed(s) = DOMAIN s.index
BY ListedIs

LEMMA WithIndexRelists == ASSUME NEW s \in Stores PROVE Relists(s, WithIndex(s), {}, {})
<1> DEFINE t == WithIndex(s)
<1>1. t \in Stores /\ t.indexed = TRUE
  BY WithIndexIs
<1>2. Listed(t) = DOMAIN t.index
  <2> HIDE DEF t
  <2> QED BY <1>1, IndexedLists
<1> QED BY <1>1, <1>2 DEF Relists, Listed

LEMMA MetaRelists ==
  ASSUME NEW s \in Stores, NEW i \in Partial(Metas), NEW K, NEW L,
         DOMAIN i = (Listed(s) \ K) \cup L
  PROVE  Relists(s, [WithIndex(s) EXCEPT !.index = i], K, L)
<1> DEFINE t == WithIndex(s)
           u == [t EXCEPT !.index = i]
<1>1. t \in Stores /\ t.indexed = TRUE
  BY WithIndexIs
<1>2. u \in Stores /\ u.indexed = TRUE /\ u.index = i
  BY <1>1 DEF Stores
<1> HIDE DEF u, t
<1>3. Listed(u) = DOMAIN i
  BY <1>2, IndexedLists
<1>4. Relists(s, u, K, L)
  BY <1>2, <1>3 DEF Relists
<1> QED BY <1>4 DEF u, t

LEMMA AccessedRelists ==
  ASSUME NEW s \in Stores, NEW K
  PROVE  Relists(s, Accessed(s, K), {}, {})
<1> DEFINE t == WithIndex(s)
           u == Accessed(s, K)
<1>1. u \in Stores
  BY KeepsAccessed DEF Keeps, Saves
<1>2. t \in Stores /\ t.indexed = TRUE
  BY WithIndexIs
<1>3. u.indexed = TRUE /\ DOMAIN u.index = DOMAIN t.index
  BY <1>2 DEF Accessed, Stores
<1> HIDE DEF u
<1>4. Listed(u) = Listed(s)
  BY <1>1, <1>3, IndexedLists DEF Listed
<1>5. Relists(s, u, {}, {})
  BY <1>1, <1>4 DEF Relists
<1> QED BY <1>5 DEF u

LEMMA SetMetaRelists ==
  ASSUME NEW s \in Stores, NEW x, NEW tier \in {"short", "long"}, NEW imp \in 0..2
  PROVE  Relists(s, SetMeta(s, x, tier, imp), {}, {})
<1> DEFINE f == WithIndex(s).index
           i == [f EXCEPT ![x].tier = tier, ![x].imp = imp]
<1>1. f \in Partial(Metas)
  BY WithIndexIs, StoreIs
<1>2. SetMeta(s, x, tier, imp) = [WithIndex(s) EXCEPT !.index = i]
  BY DEF SetMeta
<1>3. DOMAIN f = Listed(s)
  BY DEF Listed
<1> HIDE DEF f
<1>4. i \in Partial(Metas) /\ DOMAIN i = DOMAIN f
  BY <1>1, BothFields
<1> HIDE DEF i
<1>5. DOMAIN i = (Listed(s) \ {}) \cup {}
  BY <1>3, <1>4
<1> QED BY <1>2, <1>4, <1>5, MetaRelists

LEMMA PutRelists ==
  ASSUME NEW s \in Stores, NEW new \in Partial(SUBSET Facts)
  PROVE  Relists(s, Put(s, new), {}, DOMAIN new)
<1> DEFINE p == PutFile(s, new)
           t == WithIndex(p)
           u == Put(s, new)
<1>1. /\ p \in Stores /\ p.file = Updated(s.file, new) /\ p.indexed = s.indexed /\ p.index = s.index
  BY PutFileIs DEF Takes
<1>2. u \in Stores /\ u.indexed = TRUE
  BY PutIs DEF Takes
<1>3. DOMAIN p.file = DOMAIN new \cup DOMAIN s.file
  BY <1>1 DEF Updated
<1> HIDE DEF p
<1>4. t \in Stores /\ Listed(p) = DOMAIN t.index
  BY <1>1, WithIndexIs DEF Listed
<1>5. Listed(p) \cup DOMAIN new = Listed(s) \cup DOMAIN new
  <2>1. CASE s.indexed
    BY <2>1, <1>1, ListedIs
  <2>2. CASE ~s.indexed
    BY <2>2, <1>1, <1>3, ListedIs
  <2> QED BY <2>1, <2>2
<1>6. DOMAIN u.index = DOMAIN new \cup DOMAIN t.index
  <2> DEFINE touched == [x \in DOMAIN new |->
                           IF x \in DOMAIN t.index THEN [t.index[x] EXCEPT !.old = FALSE] ELSE NewMeta(FALSE)]
  <2>1. u = [t EXCEPT !.index = Updated(t.index, touched)]
    BY DEF Put, p
  <2>2. DOMAIN touched = DOMAIN new
    OBVIOUS
  <2> HIDE DEF touched, u, t
  <2>3. u.index = Updated(t.index, touched)
    BY <2>1, <1>4 DEF Stores
  <2> QED BY <2>2, <2>3 DEF Updated
<1> HIDE DEF u, t
<1>7. Listed(u) = (Listed(s) \ {}) \cup DOMAIN new
  BY <1>2, <1>4, <1>5, <1>6, IndexedLists
<1>8. Relists(s, u, {}, DOMAIN new)
  BY <1>2, <1>7 DEF Relists
<1> QED BY <1>8 DEF u

LEMMA DeleteRelists ==
  ASSUME NEW s \in Stores, NEW x
  PROVE  Relists(s, Delete(s, x), {x}, {})
<1> DEFINE f == Without(s.file, {x})
           p == [s EXCEPT !.file = f, !.aged = @ \ {x}]
           t == WithIndex(p)
           u == Delete(s, x)
<1>1. f \in Partial(SUBSET Facts) /\ DOMAIN f = DOMAIN s.file \ {x}
  BY StoreIs, WithoutFacts
<1> HIDE DEF f
<1>2. p \in Stores /\ p.file = f /\ p.indexed = s.indexed /\ p.index = s.index
  BY <1>1 DEF Stores
<1>3. u = [t EXCEPT !.index = Without(t.index, {x})]
  BY DEF Delete, f
<1> HIDE DEF p
<1>4. t \in Stores /\ t.indexed = TRUE /\ Listed(p) = DOMAIN t.index
  BY <1>2, WithIndexIs DEF Listed
<1>5. u \in Stores
  BY DeleteIs
<1> HIDE DEF u, t
<1>6. u.indexed = TRUE /\ u.index = Without(t.index, {x})
  BY <1>3, <1>4 DEF Stores
<1>7. DOMAIN u.index = DOMAIN t.index \ {x}
  BY <1>6 DEF Without
<1>8. Listed(p) \ {x} = Listed(s) \ {x}
  <2>1. CASE s.indexed
    BY <2>1, <1>2, ListedIs
  <2>2. CASE ~s.indexed
    BY <2>2, <1>1, <1>2, ListedIs
  <2> QED BY <2>1, <2>2
<1>9. Relists(s, u, {x}, {})
  BY <1>4, <1>5, <1>6, <1>7, <1>8, IndexedLists DEF Relists
<1> QED BY <1>9 DEF u

LEMMA ArchiveRelists ==
  ASSUME NEW s \in Stores, NEW K
  PROVE  Relists(s, Archive(s, K), K, {})
<1> DEFINE v == ArchiveMeta(s, K)
           t == ArchiveFile(v, K)
           u == Archive(s, K)
<1>1. v \in Stores /\ v.indexed = TRUE /\ v.index = WithIndex(s).index
  BY ArchiveMetaIs
<1> HIDE DEF v
<1>2. t \in Stores /\ t.indexed = v.indexed /\ t.index = v.index
  BY <1>1, ArchiveFileIs
<1>3. u = [t EXCEPT !.index = Without(t.index, K)]
  BY DEF Archive, v
<1>4. u \in Stores
  BY KeepsArchive DEF Keeps, Saves
<1> HIDE DEF u, t
<1>5. u.indexed = TRUE /\ u.index = Without(t.index, K)
  BY <1>1, <1>2, <1>3 DEF Stores
<1>6. Listed(u) = (Listed(s) \ K) \cup {}
  BY <1>1, <1>2, <1>4, <1>5, IndexedLists DEF Listed, Without
<1>7. Relists(s, u, K, {})
  BY <1>4, <1>6 DEF Relists
<1> QED BY <1>7 DEF u
===============================================================================
