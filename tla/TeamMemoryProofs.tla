-------------------------- MODULE TeamMemoryProofs --------------------------
(* What a team's memory keeps for any keys and batches, any number of writes, *)
(* nights, failures and crashes: nothing that was written is forgotten, the   *)
(* index lists what is there, and a cached prompt shows the memory as it is.  *)
EXTENDS TeamMemory, MemoryStoreProofs

Dreams == [stage : {"idle", "score", "merge", "overview"}, snap : Partial(Metas),
           todo : Partial(SUBSET Facts), made : SUBSET Keys]

\* Every variable has its type.
MemoryTypes ==
  /\ mem \in Stores /\ dream \in [Kinds -> Dreams]
  /\ writes \in Nat /\ nights \in Nat /\ faults \in Nat

\* What is in the directory is what was last written, and what was last written and
\* is not there is in the archive: an older entry of the archive gives way.
Held(s, l) ==
  /\ \A k \in DOMAIN s.file : k \in DOMAIN l /\ s.file[k] = l[k]
  /\ \A k \in DOMAIN l : k \in DOMAIN s.file \/ (k \in DOMAIN s.arch /\ s.arch[k] = l[k])

\* The inductive invariant.
MemoryInv ==
  MemoryTypes /\ Held(mem, latest) /\ (~torn => Lists(mem)) /\ CachedPromptIsCurrent

-----------------------------------------------------------------------------
(* The scores of a batch. *)

\* Scores change the importance alone.
LEMMA KeepsScored ==
  ASSUME NEW s \in Stores, NEW scores, \A k \in DOMAIN scores : scores[k] \in 0..2
  PROVE  Keeps(s, Scored(WithIndex(s), scores))
<1> DEFINE t == WithIndex(s)
           i == [k \in DOMAIN t.index |->
                   IF k \in DOMAIN scores THEN [t.index[k] EXCEPT !.imp = scores[k]] ELSE t.index[k]]
<1>1. t.index \in Partial(Metas)
  BY WithIndexIs, StoreIs
<1>2. \A k \in DOMAIN t.index : t.index[k] \in Metas
  BY <1>1, PartialIs
<1>3. \A m \in Metas, v \in 0..2 : [m EXCEPT !.imp = v] \in Metas
  BY DEF Metas
<1>4. i \in [DOMAIN t.index -> Metas] /\ DOMAIN i = DOMAIN t.index
  BY <1>2, <1>3
<1>5. i \in Partial(Metas)
  BY <1>1, <1>4, PartialIs, PartialHas
<1>6. Scored(WithIndex(s), scores) = [WithIndex(s) EXCEPT !.index = i]
  BY DEF Scored
<1> HIDE DEF i
<1> QED BY <1>4, <1>5, <1>6, KeepsMeta

-----------------------------------------------------------------------------
(* What was last written. *)

LEMMA HeldSaves ==
  ASSUME NEW s, NEW t, NEW l, Held(s, l), Saves(s, t)
  PROVE  Held(t, l)
BY DEF Held, Saves

LEMMA HeldTakes ==
  ASSUME NEW s \in Stores, NEW new \in Partial(SUBSET Facts), NEW t, NEW l,
         Held(s, l), Takes(s, t, new)
  PROVE  Held(t, Updated(l, new))
<1> DEFINE m == Updated(l, new)
<1>1. /\ DOMAIN m = DOMAIN new \cup DOMAIN l
      /\ \A k \in DOMAIN new : m[k] = new[k]
      /\ \A k \in DOMAIN l \ DOMAIN new : m[k] = l[k]
  BY DEF Updated
<1>2. /\ DOMAIN t.file = DOMAIN new \cup DOMAIN s.file /\ t.arch = s.arch
      /\ \A k \in DOMAIN new : t.file[k] = new[k]
      /\ \A k \in DOMAIN s.file \ DOMAIN new : t.file[k] = s.file[k]
  <2>1. s.file \in Partial(SUBSET Facts)
    BY StoreIs
  <2>2. t.file = Updated(s.file, new) /\ t.arch = s.arch
    BY DEF Takes
  <2> DEFINE f == s.file
             g == Updated(f, new)
  <2>3. /\ DOMAIN g = DOMAIN new \cup DOMAIN f
        /\ \A k \in DOMAIN new \cup DOMAIN f : g[k] = IF k \in DOMAIN new THEN new[k] ELSE f[k]
    BY <2>1, UpdatedFacts
  <2>4. t.file = g
    BY <2>2
  <2> HIDE DEF g
  <2> QED BY <2>2, <2>3, <2>4
<1> HIDE DEF m
<1>3. Held(t, m)
  BY <1>1, <1>2 DEF Held
<1> QED BY <1>3 DEF m

LEMMA HeldDelete ==
  ASSUME NEW s \in Stores, NEW k, NEW l, Held(s, l)
  PROVE  Held(Delete(s, k), Without(l, {k}))
<1> DEFINE m == Without(l, {k})
           t == Delete(s, k)
<1>1. DOMAIN m = DOMAIN l \ {k} /\ \A x \in DOMAIN l \ {k} : m[x] = l[x]
  BY DEF Without
<1>2. /\ t.arch = s.arch /\ DOMAIN t.file = DOMAIN s.file \ {k}
      /\ \A x \in DOMAIN t.file : t.file[x] = s.file[x]
  BY DeleteIs
<1> HIDE DEF m, t
<1>3. Held(t, m)
  BY <1>1, <1>2 DEF Held
<1> QED BY <1>3 DEF m, t

-----------------------------------------------------------------------------
(* What the prompt shows. *)

LEMMA ViewIndexed == ASSUME NEW s \in Stores PROVE View(WithIndex(s)) = View(s)
<1> DEFINE t == WithIndex(s)
<1>1. t \in Stores /\ t.indexed = TRUE /\ t.file = s.file
  BY WithIndexIs
<1>2. WithIndex(t) = t
  BY <1>1 DEF WithIndex
<1>3. t = WithIndex(s)
  OBVIOUS
<1> HIDE DEF t
<1>4. View(t) = View(s)
  BY <1>1, <1>2, <1>3 DEF View
<1> QED BY <1>4 DEF t

\* The age of the entries is not shown.
LEMMA ViewAged ==
  ASSUME NEW s \in Stores, NEW t \in Stores, t.file = s.file, t.indexed = s.indexed,
         DOMAIN t.index = DOMAIN s.index,
         \A k \in DOMAIN s.index : t.index[k].tier = s.index[k].tier
  PROVE  View(t) = View(s)
<1> DEFINE a == WithIndex(s)
           b == WithIndex(t)
<1>1. CASE s.indexed
  <2>1. a = s /\ b = t
    BY <1>1, WithIndexIs
  <2> QED BY <2>1 DEF View
<1>2. CASE ~s.indexed
  <2>1. /\ DOMAIN a.index = DOMAIN s.file /\ \A k \in DOMAIN s.file : a.index[k].tier = "short"
        /\ DOMAIN b.index = DOMAIN s.file /\ \A k \in DOMAIN s.file : b.index[k].tier = "short"
    <3>1. t.indexed = s.indexed /\ DOMAIN t.file = DOMAIN s.file
      OBVIOUS
    <3>2. ~t.indexed
      BY <1>2, <3>1
    <3>3. DOMAIN a.index = DOMAIN s.file /\ \A k \in DOMAIN s.file : a.index[k].tier = "short"
      BY <1>2, WithIndexIs
    <3>4. DOMAIN b.index = DOMAIN t.file /\ \A k \in DOMAIN t.file : b.index[k].tier = "short"
      BY <3>2, WithIndexIs
    <3> QED BY <3>1, <3>3, <3>4
  <2>2. "short" # "long"
    OBVIOUS
  <2> HIDE DEF a, b
  <2>3. {k \in DOMAIN a.index : a.index[k].tier = "long"} = {}
    BY <2>1, <2>2
  <2>4. {k \in DOMAIN b.index : b.index[k].tier = "long"} = {}
    BY <2>1, <2>2
  <2> QED BY <2>3, <2>4 DEF View, a, b
<1> QED BY <1>1, <1>2

\* A cached prompt survives only what leaves the memory as it was.
LEMMA PromptsDropped ==
  ASSUME CachedPromptIsCurrent, DropStalePrompts
  PROVE  CachedPromptIsCurrent'
<1>1. CASE mem' = mem
  BY <1>1 DEF CachedPromptIsCurrent, DropStalePrompts
<1>2. CASE mem' # mem
  BY <1>2 DEF CachedPromptIsCurrent, DropStalePrompts
<1> QED BY <1>1, <1>2

-----------------------------------------------------------------------------
(* The stages of a dream: each keeps the store and leaves a dream. *)

Result(s, r) == Keeps(s, r[1]) /\ r[2] \in Dreams

LEMMA ResultChain ==
  ASSUME NEW s, NEW t, NEW r, Keeps(s, t), Result(t, r)
  PROVE  Result(s, r)
BY KeepsChain DEF Result

LEMMA AwakeIs == Awake \in Dreams
<1>1. Nothing \in Partial(Metas) /\ Nothing \in Partial(SUBSET Facts)
  BY NothingIs
<1> QED BY <1>1 DEF Awake, Dreams

LEMMA DreamIs ==
  ASSUME NEW d \in Dreams
  PROVE  /\ d.snap \in Partial(Metas) /\ d.todo \in Partial(SUBSET Facts)
         /\ \A todo \in Partial(SUBSET Facts) : [d EXCEPT !.todo = todo] \in Dreams
         /\ \A made \in SUBSET Keys : [d EXCEPT !.made = made] \in Dreams
         /\ \A snap \in Partial(Metas) : [d EXCEPT !.snap = snap] \in Dreams
         /\ \A stage \in {"idle", "score", "merge", "overview"}, todo \in Partial(SUBSET Facts) :
              [d EXCEPT !.stage = stage, !.todo = todo] \in Dreams
BY DEF Dreams

LEMMA ContentsIs ==
  ASSUME NEW s \in Stores, NEW K
  PROVE  Contents(s, K) \in Partial(SUBSET Facts)
<1>1. s.file \in Partial(SUBSET Facts)
  BY StoreIs
<1>2. Only(s.file, K) \in Partial(SUBSET Facts)
  BY <1>1, OnlyIs
<1> QED BY <1>2 DEF Contents

LEMMA ToOverviewResult ==
  ASSUME NEW s \in Stores, NEW d \in Dreams
  PROVE  Result(s, ToOverview(d, s))
<1>1. Nothing \in Partial(SUBSET Facts)
  BY NothingIs
<1>2. [d EXCEPT !.stage = "overview", !.todo = Nothing] \in Dreams
  BY <1>1, DreamIs
<1>3. ToOverview(d, s)[1] = s /\ ToOverview(d, s)[2] \in Dreams
  BY <1>2, AwakeIs DEF ToOverview
<1> QED BY <1>3, KeepsItself DEF Result

LEMMA CollectedResult ==
  ASSUME NEW s \in Stores, NEW d \in Dreams
  PROVE  Result(s, Collected(d, s))
<1> DEFINE t == Archive(s, Collectable(s))
<1>1. Keeps(s, t) /\ t \in Stores
  BY KeepsArchive DEF Keeps, Saves
<1> HIDE DEF t
<1>2. Result(t, ToOverview(d, t))
  BY <1>1, ToOverviewResult
<1>3. Result(s, ToOverview(d, t))
  BY <1>1, <1>2, ResultChain
<1> QED BY <1>3 DEF Collected, t

LEMMA ToMergeResult ==
  ASSUME NEW s \in Stores, NEW d \in Dreams
  PROVE  Result(s, ToMerge(d, s))
<1> DEFINE read == Contents(s, Worthwhile(s))
           t == Accessed(s, Worthwhile(s))
           e == [d EXCEPT !.stage = "merge", !.todo = read]
<1>1. Keeps(s, t) /\ t \in Stores
  BY KeepsAccessed DEF Keeps, Saves
<1>2. read \in Partial(SUBSET Facts)
  BY ContentsIs
<1>3. ToMerge(d, s) = IF read = Nothing THEN Collected(d, t) ELSE <<t, e>>
  BY DEF ToMerge
<1> HIDE DEF read, t
<1>4. e \in Dreams
  BY <1>2, DreamIs
<1> HIDE DEF e
<1>5. CASE read = Nothing
  <2>1. Result(t, Collected(d, t))
    BY <1>1, CollectedResult
  <2> QED BY <2>1, <1>1, <1>3, <1>5, ResultChain
<1>6. CASE read # Nothing
  BY <1>1, <1>3, <1>4, <1>6 DEF Result
<1> QED BY <1>5, <1>6

LEMMA AfterMergeResult ==
  ASSUME NEW s \in Stores, NEW d \in Dreams, NEW kind
  PROVE  Result(s, AfterMerge(kind, s, d))
<1>1. CASE d.todo # Nothing
  <2>1. AfterMerge(kind, s, d) = <<s, d>>
    BY <1>1 DEF AfterMerge
  <2> QED BY <2>1, KeepsItself DEF Result
<1>2. CASE d.todo = Nothing /\ kind = "night"
  BY <1>2, CollectedResult DEF AfterMerge
<1>3. CASE d.todo = Nothing /\ kind # "night"
  BY <1>3, ToOverviewResult DEF AfterMerge
<1> QED BY <1>1, <1>2, <1>3

\* A consolidated entry is written like any other, and its index entry set.
LEMMA MergedIs ==
  ASSUME NEW s \in Stores, NEW n \in Keys, NEW old \in Partial(SUBSET Facts)
  PROVE  LET new == Merged(s, n, old) IN
         /\ new \in Stores /\ new.file[n] \in SUBSET Facts
         /\ Takes(s, new, Holding(n, new.file[n])) /\ (Lists(s) => Lists(new))
<1> DEFINE X == UNION {old[k] : k \in DOMAIN old}
           h == Holding(n, X)
           p == Put(s, h)
           new == SetMeta(p, n, "long", 2)
<1>1. X \in SUBSET Facts
  BY PartialIs
<1> HIDE DEF X
<1>2. h \in Partial(SUBSET Facts) /\ DOMAIN h = {n} /\ h[n] = X
  BY <1>1, HoldingIs
<1>3. h = Holding(n, X)
  OBVIOUS
<1> HIDE DEF h
<1>4. Takes(s, p, h) /\ (Lists(s) => Lists(p))
  BY <1>2, PutIs
<1>5. p \in Stores /\ p.file = Updated(s.file, h)
  BY <1>4 DEF Takes
<1> HIDE DEF p
<1>6. "long" \in {"short", "long"} /\ 2 \in 0..2
  OBVIOUS
<1>7. Keeps(p, new)
  BY <1>5, <1>6, KeepsSetMeta
<1>8. new.file = p.file /\ new.arch = p.arch
  <2> DEFINE t == WithIndex(p)
  <2>1. t \in Stores /\ t.file = p.file /\ t.arch = p.arch
    BY <1>5, WithIndexIs
  <2>2. new = [t EXCEPT !.index = [t.index EXCEPT ![n].tier = "long", ![n].imp = 2]]
    BY DEF SetMeta
  <2> HIDE DEF t, new
  <2> QED BY <2>1, <2>2 DEF Stores
<1>9. Merged(s, n, old) = new
  BY DEF Merged, X, h, p
<1> HIDE DEF new
<1>10. new.file[n] = X
  <2>1. s.file \in Partial(SUBSET Facts)
    BY StoreIs
  <2>2. n \in DOMAIN h \cup DOMAIN s.file
    BY <1>2
  <2>3. Updated(s.file, h)[n] = h[n]
    BY <1>2, <2>1, <2>2, UpdatedFacts
  <2> QED BY <1>2, <1>5, <1>8, <2>3
<1>11. Takes(s, new, h) /\ (Lists(s) => Lists(new)) /\ new \in Stores
  BY <1>4, <1>7, <1>8 DEF Takes, Keeps, Saves
<1> QED BY <1>1, <1>3, <1>9, <1>10, <1>11

-----------------------------------------------------------------------------
(* The steps of writers and readers. *)

LEMMA MemoryStarts == Init => MemoryInv
<1> SUFFICES ASSUME Init PROVE MemoryInv
  OBVIOUS
<1>1. /\ Nothing \in Partial(SUBSET Facts) /\ Nothing \in Partial(Metas) /\ DOMAIN Nothing = {}
  BY NothingIs
<1> HIDE DEF Nothing
<1>2. mem \in Stores /\ mem.file = Nothing /\ mem.index = Nothing
  BY <1>1 DEF Init, EmptyStore, Stores
<1>3. MemoryTypes
  BY <1>2, AwakeIs DEF Init, MemoryTypes
<1>4. Held(mem, latest) /\ Lists(mem)
  BY <1>1, <1>2 DEF Init, Held, Lists
<1>5. CachedPromptIsCurrent
  BY DEF Init, CachedPromptIsCurrent
<1> QED BY <1>3, <1>4, <1>5 DEF MemoryInv

\* A step of the dreams or of a reader keeps the store and leaves the types.
LEMMA KeepingKept ==
  ASSUME MemoryInv, Keeps(mem, mem'), dream' \in [Kinds -> Dreams],
         writes' \in Nat, nights' \in Nat, faults' \in Nat,
         CachedPromptIsCurrent', latest' = latest, torn' = torn
  PROVE  MemoryInv'
<1>1. mem' \in Stores /\ Saves(mem, mem') /\ (Lists(mem) => Lists(mem'))
  BY DEF Keeps, Saves
<1>2. Held(mem, latest) /\ (~torn => Lists(mem))
  BY DEF MemoryInv
<1>3. Held(mem', latest)
  BY <1>1, <1>2, HeldSaves
<1>4. Held(mem', latest')
  BY <1>3
<1>5. MemoryTypes'
  BY <1>1 DEF MemoryTypes
<1> QED BY <1>1, <1>2, <1>4, <1>5 DEF MemoryInv

\* What is written is held and listed.
LEMMA WritingKept ==
  ASSUME MemoryInv, NEW new \in Partial(SUBSET Facts), Takes(mem, mem', new),
         latest' = Updated(latest, new), dream' \in [Kinds -> Dreams],
         writes' \in Nat, nights' \in Nat, faults' \in Nat,
         CachedPromptIsCurrent', ~torn' => Lists(mem')
  PROVE  MemoryInv'
<1>1. mem \in Stores /\ Held(mem, latest)
  BY DEF MemoryInv, MemoryTypes
<1>2. Held(mem', Updated(latest, new))
  BY <1>1, HeldTakes
<1>3. Held(mem', latest')
  BY <1>2
<1>4. MemoryTypes'
  BY DEF MemoryTypes, Takes
<1> QED BY <1>3, <1>4 DEF MemoryInv

LEMMA FactIs ==
  ASSUME MemoryInv, writes < MaxWrites
  PROVE  Fact \in Facts /\ writes + 1 \in Nat
BY TeamMemoryAssumption DEF MemoryInv, MemoryTypes, Fact

\* The parts of the invariant the steps use.
LEMMA MemoryIs ==
  ASSUME MemoryInv
  PROVE  /\ mem \in Stores /\ dream \in [Kinds -> Dreams] /\ (~torn => Lists(mem))
         /\ writes \in Nat /\ nights \in Nat /\ faults \in Nat /\ CachedPromptIsCurrent
BY DEF MemoryInv, MemoryTypes

LEMMA KeysAreAll ==
  /\ \A k \in UserKeys : k \in Keys
  /\ \A kind \in Kinds : \A n \in Names(kind) : n \in Keys
BY TeamMemoryAssumption DEF Kinds, Names

LEMMA ToolWriteKept ==
  ASSUME MemoryInv, NEW k \in UserKeys, ToolWrite(k)
  PROVE  MemoryInv'
<1> DEFINE new == Holding(k, {Fact})
<1>1. new \in Partial(SUBSET Facts)
  BY FactIs, KeysAreAll, HoldingIs DEF ToolWrite
<1>2. mem' = Put(mem, new) /\ latest' = Updated(latest, new)
  BY DEF ToolWrite
<1> HIDE DEF new
<1>3. Takes(mem, mem', new) /\ (Lists(mem) => Lists(mem'))
  BY <1>1, <1>2, MemoryIs, PutIs
<1>4. CachedPromptIsCurrent'
  BY MemoryIs, PromptsDropped DEF ToolWrite
<1>5. /\ dream' = dream /\ writes' = writes + 1 /\ nights' = nights /\ faults' = faults
      /\ torn' = torn
  BY DEF ToolWrite
<1>6. writes' \in Nat
  BY <1>5, MemoryIs
<1>7. ~torn' => Lists(mem')
  BY <1>3, <1>5, MemoryIs
<1> QED BY <1>1, <1>2, <1>3, <1>4, <1>5, <1>6, <1>7, MemoryIs, WritingKept

LEMMA ManagerWriteKept ==
  ASSUME MemoryInv, NEW k \in UserKeys, ManagerWrite(k)
  PROVE  MemoryInv'
<1> DEFINE new == Appended(mem, k, Fact)
<1>1. new \in Partial(SUBSET Facts)
  BY FactIs, KeysAreAll, MemoryIs, AppendedIs DEF ManagerWrite
<1>2. mem' = Put(mem, new) /\ latest' = Updated(latest, new)
  BY DEF ManagerWrite
<1> HIDE DEF new
<1>3. Takes(mem, mem', new) /\ (Lists(mem) => Lists(mem'))
  BY <1>1, <1>2, MemoryIs, PutIs
<1>4. CachedPromptIsCurrent'
  BY MemoryIs, PromptsDropped DEF ManagerWrite
<1>5. /\ dream' = dream /\ writes' = writes + 1 /\ nights' = nights /\ faults' = faults
      /\ torn' = torn
  BY DEF ManagerWrite
<1>6. writes' \in Nat
  BY <1>5, MemoryIs
<1>7. ~torn' => Lists(mem')
  BY <1>3, <1>5, MemoryIs
<1> QED BY <1>1, <1>2, <1>3, <1>4, <1>5, <1>6, <1>7, MemoryIs, WritingKept

LEMMA WriteLosesIndexKept ==
  ASSUME MemoryInv, NEW k \in UserKeys, WriteLosesIndex(k)
  PROVE  MemoryInv'
<1> DEFINE new == Holding(k, {Fact})
<1>1. new \in Partial(SUBSET Facts)
  BY FactIs, KeysAreAll, HoldingIs DEF WriteLosesIndex
<1>2. mem' = PutFile(mem, new) /\ latest' = Updated(latest, new)
  BY DEF WriteLosesIndex
<1> HIDE DEF new
<1>3. Takes(mem, mem', new)
  BY <1>1, <1>2, MemoryIs, PutFileIs
<1>4. CachedPromptIsCurrent'
  BY MemoryIs, PromptsDropped DEF WriteLosesIndex
<1>5. /\ dream' = dream /\ writes' = writes + 1 /\ nights' = nights /\ faults' = faults + 1
      /\ torn' = TRUE
  BY DEF WriteLosesIndex, Fault
<1>6. writes' \in Nat /\ faults' \in Nat /\ nights' \in Nat /\ dream' \in [Kinds -> Dreams]
  BY <1>5, MemoryIs
<1> QED BY <1>1, <1>2, <1>3, <1>4, <1>5, <1>6, WritingKept

LEMMA ReadKept ==
  ASSUME MemoryInv, NEW k \in Keys, Read(k)
  PROVE  MemoryInv'
<1>1. Keeps(mem, mem')
  BY MemoryIs, KeepsAccessed DEF Read
<1>2. CachedPromptIsCurrent'
  BY MemoryIs, PromptsDropped DEF Read
<1>3. /\ dream' = dream /\ writes' = writes /\ nights' = nights /\ faults' = faults
      /\ latest' = latest /\ torn' = torn
  BY DEF Read, counters
<1> QED BY <1>1, <1>2, <1>3, MemoryIs, KeepingKept

LEMMA RemoveKept ==
  ASSUME MemoryInv, NEW k \in UserKeys, Remove(k)
  PROVE  MemoryInv'
<1>1. mem' = Delete(mem, k) /\ latest' = Without(latest, {k})
  BY DEF Remove
<1>2. mem' \in Stores /\ (Lists(mem) => Lists(mem'))
  BY <1>1, MemoryIs, DeleteIs
<1>3. Held(Delete(mem, k), Without(latest, {k}))
  BY MemoryIs, HeldDelete DEF MemoryInv
<1>4. Held(mem', latest')
  BY <1>1, <1>3
<1>5. CachedPromptIsCurrent'
  BY MemoryIs, PromptsDropped DEF Remove
<1>6. /\ dream' = dream /\ writes' = writes + 1 /\ nights' = nights /\ faults' = faults
      /\ torn' = torn
  BY DEF Remove
<1>7. MemoryTypes'
  BY <1>2, <1>6, MemoryIs DEF MemoryTypes
<1>8. ~torn' => Lists(mem')
  BY <1>2, <1>6, MemoryIs
<1> QED BY <1>4, <1>5, <1>7, <1>8 DEF MemoryInv

LEMMA BuildPromptKept ==
  ASSUME MemoryInv, NEW c, BuildPrompt(c)
  PROVE  MemoryInv'
<1>1. mem' = WithIndex(mem) /\ prompt'.view = View(mem)
  BY DEF BuildPrompt
<1>2. Keeps(mem, mem')
  BY <1>1, MemoryIs, KeepsIndexed
<1>3. View(mem') = View(mem)
  BY <1>1, MemoryIs, ViewIndexed
<1>4. CachedPromptIsCurrent'
  BY <1>1, <1>3 DEF CachedPromptIsCurrent
<1>5. /\ dream' = dream /\ writes' = writes /\ nights' = nights /\ faults' = faults
      /\ latest' = latest /\ torn' = torn
  BY DEF BuildPrompt, counters
<1> QED BY <1>2, <1>4, <1>5, MemoryIs, KeepingKept

\* A night makes the entries old: their files and tiers are as they were.
LEMMA NightFallsKept ==
  ASSUME MemoryInv, NightFalls
  PROVE  MemoryInv'
<1> DEFINE i == [k \in DOMAIN mem.index |-> [mem.index[k] EXCEPT !.old = TRUE]]
           t == [mem EXCEPT !.aged = DOMAIN mem.file, !.index = i]
<1>1. mem.index \in Partial(Metas) /\ \A k \in DOMAIN mem.index : mem.index[k] \in Metas
  BY MemoryIs, StoreIs, PartialIs
<1>2. \A m \in Metas : [m EXCEPT !.old = TRUE] \in Metas /\ [m EXCEPT !.old = TRUE].tier = m.tier
  BY DEF Metas
<1>3. /\ i \in [DOMAIN mem.index -> Metas] /\ DOMAIN i = DOMAIN mem.index
      /\ \A k \in DOMAIN mem.index : i[k].tier = mem.index[k].tier
  BY <1>1, <1>2
<1>4. i \in Partial(Metas)
  BY <1>1, <1>3, PartialIs, PartialHas
<1>5. mem' = t
  BY DEF NightFalls
<1>6. mem \in Stores /\ DOMAIN mem.file \in SUBSET Keys
  BY MemoryIs, StoreIs
<1> HIDE DEF i
<1>7. /\ t \in Stores /\ t.file = mem.file /\ t.arch = mem.arch /\ t.indexed = mem.indexed
      /\ t.index = i
  BY <1>4, <1>6 DEF Stores
<1> HIDE DEF t
<1>8. Keeps(mem, t)
  BY <1>3, <1>6, <1>7, SameFiles DEF Keeps, Lists
<1>9. View(t) = View(mem)
  BY <1>3, <1>6, <1>7, ViewAged
<1>10. /\ dream' = dream /\ prompt' = prompt /\ writes' = writes /\ nights' = nights + 1
       /\ faults' = faults /\ latest' = latest /\ torn' = torn
  BY DEF NightFalls
<1>11. CachedPromptIsCurrent'
  BY <1>5, <1>9, <1>10, MemoryIs DEF CachedPromptIsCurrent
<1>12. nights' \in Nat /\ Keeps(mem, mem')
  BY <1>5, <1>8, <1>10, MemoryIs
<1> QED BY <1>10, <1>11, <1>12, MemoryIs, KeepingKept

-----------------------------------------------------------------------------
(* The steps of the dreams. *)

\* A dream proceeds with a store that is kept, having written nothing.
LEMMA ProceedKept ==
  ASSUME MemoryInv, NEW kind \in Kinds, NEW r, Result(mem, r), Proceed(kind, r),
         latest' = latest, torn' = torn
  PROVE  MemoryInv'
<1>1. mem' = r[1] /\ dream' = [dream EXCEPT ![kind] = r[2]]
  BY DEF Proceed
<1>2. Keeps(mem, mem') /\ r[2] \in Dreams
  BY <1>1 DEF Result
<1>3. dream' \in [Kinds -> Dreams]
  BY <1>1, <1>2, MemoryIs
<1>4. CachedPromptIsCurrent'
  BY MemoryIs, PromptsDropped DEF Proceed
<1>5. writes' = writes /\ nights' = nights /\ faults' = faults
  BY DEF Proceed, counters
<1> QED BY <1>2, <1>3, <1>4, <1>5, MemoryIs, KeepingKept

LEMMA StartNightKept ==
  ASSUME MemoryInv, StartNight
  PROVE  MemoryInv'
<1> DEFINE s == WithIndex(mem)
           K == Unscored(s)
           read == Contents(s, K)
           t == Accessed(s, K)
           d == [Awake EXCEPT !.snap = s.index]
           e == [d EXCEPT !.stage = "score", !.todo = read]
           r == IF read = Nothing THEN ToMerge(d, t) ELSE <<t, e>>
<1>1. Keeps(mem, s) /\ s \in Stores
  BY MemoryIs, KeepsIndexed, WithIndexIs
<1>2. Proceed("night", r) /\ latest' = latest /\ torn' = torn
  BY DEF StartNight
<1> HIDE DEF s, K
<1>3. Keeps(s, t) /\ t \in Stores
  BY <1>1, KeepsAccessed DEF Keeps, Saves
<1>4. Keeps(mem, t)
  BY <1>1, <1>3, KeepsChain
<1>5. read \in Partial(SUBSET Facts)
  BY <1>1, ContentsIs
<1>6. d \in Dreams
  BY <1>1, StoreIs, AwakeIs, DreamIs
<1> HIDE DEF read, t, d
<1>7. e \in Dreams
  BY <1>5, <1>6, DreamIs
<1> HIDE DEF e
<1>8. Result(mem, r)
  <2>1. CASE read = Nothing
    BY <1>3, <1>4, <1>6, <2>1, ToMergeResult, ResultChain
  <2>2. CASE read # Nothing
    BY <1>4, <1>7, <2>2 DEF Result
  <2> QED BY <2>1, <2>2
<1> HIDE DEF r
<1>9. "night" \in Kinds
  BY DEF Kinds
<1> QED BY <1>2, <1>8, <1>9, ProceedKept

LEMMA StartDeepKept ==
  ASSUME MemoryInv, StartDeep
  PROVE  MemoryInv'
<1> DEFINE s == WithIndex(mem)
           K == Entries(s, "long")
           read == Contents(s, K)
           t == Accessed(s, K)
           e == [Awake EXCEPT !.stage = "merge", !.snap = t.index, !.todo = read]
           r == <<t, e>>
<1>1. Keeps(mem, s) /\ s \in Stores
  BY MemoryIs, KeepsIndexed, WithIndexIs
<1>2. Proceed("deep", r) /\ latest' = latest /\ torn' = torn
  BY DEF StartDeep
<1> HIDE DEF s, K
<1>3. Keeps(s, t) /\ t \in Stores
  BY <1>1, KeepsAccessed DEF Keeps, Saves
<1>4. Keeps(mem, t)
  BY <1>1, <1>3, KeepsChain
<1>5. read \in Partial(SUBSET Facts) /\ t.index \in Partial(Metas)
  BY <1>1, <1>3, ContentsIs, StoreIs
<1> HIDE DEF read, t
<1>6. e \in Dreams
  BY <1>5 DEF Awake, Dreams
<1> HIDE DEF e
<1>7. Result(mem, r)
  BY <1>4, <1>6 DEF Result
<1> HIDE DEF r
<1>8. "deep" \in Kinds
  BY DEF Kinds
<1> QED BY <1>2, <1>7, <1>8, ProceedKept

LEMMA ScoreKept ==
  ASSUME MemoryInv, Score
  PROVE  MemoryInv'
<1> DEFINE d == dream["night"]
<1> SUFFICES ASSUME NEW B \in Batches(d), NEW scores \in [B -> 0..2] \cup {Nothing},
                    LET rest == Without(d.todo, B)
                        t == Scored(WithIndex(mem), scores)
                    IN  Proceed("night", IF rest = Nothing THEN ToMerge(d, t)
                                         ELSE <<t, [d EXCEPT !.todo = rest]>>)
             PROVE  MemoryInv'
  BY DEF Score
<1> DEFINE rest == Without(d.todo, B)
           t == Scored(WithIndex(mem), scores)
           e == [d EXCEPT !.todo = rest]
           r == IF rest = Nothing THEN ToMerge(d, t) ELSE <<t, e>>
<1>2. Proceed("night", r) /\ latest' = latest /\ torn' = torn
  BY DEF Score
<1>3. "night" \in Kinds
  BY DEF Kinds
<1>4. d \in Dreams
  BY <1>3, MemoryIs
<1> HIDE DEF d
<1>5. rest \in Partial(SUBSET Facts)
  BY <1>4, DreamIs, WithoutFacts
<1>6. \A k \in DOMAIN scores : scores[k] \in 0..2
  BY NothingIs
<1>7. Keeps(mem, t) /\ t \in Stores
  BY <1>6, MemoryIs, KeepsScored DEF Keeps, Saves
<1> HIDE DEF rest, t
<1>8. e \in Dreams
  BY <1>4, <1>5, DreamIs
<1> HIDE DEF e
<1>9. Result(mem, r)
  <2>1. CASE rest = Nothing
    BY <1>4, <1>7, <2>1, ToMergeResult, ResultChain
  <2>2. CASE rest # Nothing
    BY <1>7, <1>8, <2>2 DEF Result
  <2> QED BY <2>1, <2>2
<1> HIDE DEF r
<1> QED BY <1>2, <1>3, <1>9, ProceedKept

\* The dream of a merge, and what is left of it after a batch.
LEMMA RestIs ==
  ASSUME NEW d \in Dreams, NEW B
  PROVE  LET rest == [d EXCEPT !.todo = Without(d.todo, B)] IN
         /\ rest \in Dreams /\ Only(d.todo, B) \in Partial(SUBSET Facts)
         /\ \A n \in Keys : [rest EXCEPT !.made = {n}] \in Dreams
<1> DEFINE rest == [d EXCEPT !.todo = Without(d.todo, B)]
<1>1. d.todo \in Partial(SUBSET Facts)
  BY DreamIs
<1>2. Without(d.todo, B) \in Partial(SUBSET Facts)
  BY <1>1, WithoutFacts
<1>3. Only(d.todo, B) \in Partial(SUBSET Facts)
  BY <1>1, OnlyIs
<1>4. rest \in Dreams
  BY <1>2, DreamIs
<1> HIDE DEF rest
<1>5. \A n \in Keys : [rest EXCEPT !.made = {n}] \in Dreams
  BY <1>4, DreamIs
<1> QED BY <1>3, <1>4, <1>5 DEF rest

\* The merged entry is written before the originals go.
LEMMA MergeKept ==
  ASSUME MemoryInv, NEW kind \in Kinds, Merge(kind)
  PROVE  MemoryInv'
<1> DEFINE d == dream[kind]
<1>1. PICK B \in Batches(d) :
        LET rest == [d EXCEPT !.todo = Without(d.todo, B)] IN
        \/ \E n \in NewNames(kind, mem) :
             LET new == Merged(mem, n, Only(d.todo, B)) IN
             /\ Proceed(kind, AfterMerge(kind, Archive(new, B), [rest EXCEPT !.made = {n}]))
             /\ latest' = Updated(latest, Holding(n, new.file[n]))
        \/ /\ Proceed(kind, AfterMerge(kind, mem, rest))
           /\ UNCHANGED latest
  BY DEF Merge
<1>2. torn' = torn
  BY DEF Merge
<1>3. d \in Dreams
  BY MemoryIs
<1> DEFINE rest == [d EXCEPT !.todo = Without(d.todo, B)]
<1>4. CASE Proceed(kind, AfterMerge(kind, mem, rest)) /\ latest' = latest
  <2>1. rest \in Dreams
    BY <1>3, RestIs
  <2> HIDE DEF rest
  <2>2. Result(mem, AfterMerge(kind, mem, rest))
    BY <2>1, MemoryIs, AfterMergeResult
  <2> QED BY <1>2, <1>4, <2>2, ProceedKept
<1>5. ASSUME NEW n \in NewNames(kind, mem),
             LET new == Merged(mem, n, Only(d.todo, B)) IN
             /\ Proceed(kind, AfterMerge(kind, Archive(new, B), [rest EXCEPT !.made = {n}]))
             /\ latest' = Updated(latest, Holding(n, new.file[n]))
      PROVE  MemoryInv'
  <2> DEFINE old == Only(d.todo, B)
             new == Merged(mem, n, old)
             e == [rest EXCEPT !.made = {n}]
             t == Archive(new, B)
             r == AfterMerge(kind, t, e)
             h == Holding(n, new.file[n])
  <2>1. Proceed(kind, r) /\ latest' = Updated(latest, h)
    BY <1>5
  <2>2. n \in Keys
    BY KeysAreAll DEF NewNames
  <2>3. old \in Partial(SUBSET Facts) /\ e \in Dreams
    BY <1>3, <2>2, RestIs
  <2> HIDE DEF d, old, e
  <2>4. /\ new \in Stores /\ new.file[n] \in SUBSET Facts
        /\ Takes(mem, new, h) /\ (Lists(mem) => Lists(new))
    BY <2>2, <2>3, MemoryIs, MergedIs
  <2> HIDE DEF new
  <2>5. h \in Partial(SUBSET Facts)
    BY <2>2, <2>4, HoldingIs
  <2> HIDE DEF h
  <2>6. Keeps(new, t) /\ t \in Stores
    BY <2>4, KeepsArchive DEF Keeps, Saves
  <2> HIDE DEF t
  <2>7. Result(new, r)
    BY <2>3, <2>6, AfterMergeResult, ResultChain
  <2> HIDE DEF r
  <2>8. mem' = r[1] /\ dream' = [dream EXCEPT ![kind] = r[2]]
    BY <2>1 DEF Proceed
  <2>9. /\ Saves(new, mem') /\ mem' \in Stores /\ (Lists(new) => Lists(mem'))
        /\ r[2] \in Dreams
    BY <2>7, <2>8 DEF Result, Keeps, Saves
  <2>10. Held(mem, latest)
    BY DEF MemoryInv
  <2>11. Held(new, Updated(latest, h))
    BY <2>4, <2>5, <2>10, MemoryIs, HeldTakes
  <2>12. Held(mem', latest')
    BY <2>1, <2>9, <2>11, HeldSaves
  <2>13. CachedPromptIsCurrent'
    BY <2>1, MemoryIs, PromptsDropped DEF Proceed
  <2>14. writes' = writes /\ nights' = nights /\ faults' = faults
    BY <2>1 DEF Proceed, counters
  <2>15. MemoryTypes'
    BY <2>8, <2>9, <2>14, MemoryIs DEF MemoryTypes
  <2>16. ~torn' => Lists(mem')
    BY <1>2, <2>4, <2>9, MemoryIs
  <2> QED BY <2>12, <2>13, <2>15, <2>16 DEF MemoryInv
<1> HIDE DEF d
<1> QED BY <1>1, <1>4, <1>5

LEMMA OverviewKept ==
  ASSUME MemoryInv, NEW kind \in Kinds, Overview(kind)
  PROVE  MemoryInv'
<1>1. Proceed(kind, <<mem, Awake>>) /\ latest' = latest /\ torn' = torn
  BY DEF Overview
<1>2. Result(mem, <<mem, Awake>>)
  BY MemoryIs, AwakeIs, KeepsItself DEF Result
<1> QED BY <1>1, <1>2, ProceedKept

LEMMA DreamFailsKept ==
  ASSUME MemoryInv, NEW kind \in Kinds, DreamFails(kind)
  PROVE  MemoryInv'
<1> DEFINE i == dream[kind].snap
           t == PutIndex(mem, i)
<1>1. mem' = t /\ dream' = [dream EXCEPT ![kind] = Awake] /\ latest' = latest
  BY DEF DreamFails
<1>2. /\ torn' = (torn \/ DOMAIN mem'.index # DOMAIN mem'.file)
      /\ writes' = writes /\ nights' = nights /\ faults' = faults + 1
  BY DEF DreamFails, Fault
<1>3. i \in Partial(Metas)
  BY MemoryIs, DreamIs
<1>4. t = [mem EXCEPT !.indexed = TRUE, !.index = i]
  BY DEF PutIndex
<1>5. mem \in Stores
  BY MemoryIs
<1> HIDE DEF i, t
<1>6. t \in Stores /\ t.file = mem.file /\ t.arch = mem.arch
  BY <1>3, <1>4, <1>5 DEF Stores
<1>7. Held(mem', latest')
  BY <1>1, <1>5, <1>6, SameFiles, HeldSaves DEF MemoryInv
<1>8. ~torn' => Lists(mem')
  BY <1>2 DEF Lists
<1>9. CachedPromptIsCurrent'
  BY MemoryIs, PromptsDropped DEF DreamFails
<1>10. MemoryTypes'
  BY <1>1, <1>2, <1>6, MemoryIs, AwakeIs DEF MemoryTypes
<1> QED BY <1>7, <1>8, <1>9, <1>10 DEF MemoryInv

-----------------------------------------------------------------------------
(* Crashes. *)

LEMMA RestartKept ==
  ASSUME MemoryInv, NEW s \in Stores, Restart(s), Held(s, latest'), writes' \in Nat
  PROVE  MemoryInv'
<1>1. /\ mem' = s /\ dream' = [kind \in Kinds |-> Awake] /\ prompt' = NoPrompt
      /\ torn' = (torn \/ (s.indexed /\ DOMAIN s.index # DOMAIN s.file))
      /\ nights' = nights /\ faults' = faults + 1
  BY DEF Restart, Fault
<1>2. MemoryTypes'
  BY <1>1, MemoryIs, AwakeIs DEF MemoryTypes
<1>3. ~torn' => Lists(mem')
  BY <1>1 DEF Lists
<1>4. CachedPromptIsCurrent'
  BY <1>1 DEF CachedPromptIsCurrent
<1>5. Held(mem', latest')
  BY <1>1
<1> QED BY <1>2, <1>3, <1>4, <1>5 DEF MemoryInv

LEMMA CrashKept ==
  ASSUME MemoryInv, Crash
  PROVE  MemoryInv'
<1>1. Restart(mem) /\ latest' = latest /\ writes' = writes
  BY DEF Crash
<1>2. Held(mem, latest')
  BY <1>1 DEF MemoryInv
<1> QED BY <1>1, <1>2, MemoryIs, RestartKept

LEMMA CrashInWriteKept ==
  ASSUME MemoryInv, NEW k \in UserKeys, CrashInWrite(k)
  PROVE  MemoryInv'
<1> DEFINE new == Holding(k, {Fact})
           t == PutFile(mem, new)
<1>1. new \in Partial(SUBSET Facts) /\ writes + 1 \in Nat
  BY FactIs, KeysAreAll, HoldingIs DEF CrashInWrite
<1>2. Restart(t) /\ latest' = Updated(latest, new) /\ writes' = writes + 1
  BY DEF CrashInWrite
<1> HIDE DEF new
<1>3. Takes(mem, t, new)
  BY <1>1, MemoryIs, PutFileIs
<1> HIDE DEF t
<1>4. Held(mem, latest)
  BY DEF MemoryInv
<1>5. Held(t, Updated(latest, new)) /\ t \in Stores
  BY <1>1, <1>3, <1>4, MemoryIs, HeldTakes DEF Takes
<1>6. Held(t, latest')
  BY <1>2, <1>5
<1> QED BY <1>1, <1>2, <1>5, <1>6, RestartKept

\* Wherever the archiving of a batch breaks off, every entry is in a directory.
LEMMA CrashInMergeKept ==
  ASSUME MemoryInv, NEW kind \in Kinds, CrashInMerge(kind)
  PROVE  MemoryInv'
<1> DEFINE d == dream[kind]
<1> SUFFICES ASSUME NEW B \in Batches(d), NEW n \in NewNames(kind, mem),
                    NEW D \in SUBSET B, NEW k \in B,
                    LET new == Merged(mem, n, Only(d.todo, B))
                        s == ArchiveMeta(Archive(new, D \ {k}), {k})
                    IN  /\ Restart(s) \/ Restart(ArchiveFile(s, {k}))
                        /\ latest' = Updated(latest, Holding(n, new.file[n]))
             PROVE  MemoryInv'
  BY DEF CrashInMerge
<1> DEFINE old == Only(d.todo, B)
           new == Merged(mem, n, old)
           h == Holding(n, new.file[n])
           a == Archive(new, D \ {k})
           s == ArchiveMeta(a, {k})
           t == ArchiveFile(s, {k})
<1>2. (Restart(s) \/ Restart(t)) /\ latest' = Updated(latest, h)
  OBVIOUS
<1>3. writes' = writes
  BY DEF CrashInMerge
<1>4. n \in Keys
  BY KeysAreAll DEF NewNames
<1>5. old \in Partial(SUBSET Facts)
  BY MemoryIs, RestIs
<1> HIDE DEF d, old
<1>6. new \in Stores /\ new.file[n] \in SUBSET Facts /\ Takes(mem, new, h)
  BY <1>4, <1>5, MemoryIs, MergedIs
<1> HIDE DEF new
<1>7. h \in Partial(SUBSET Facts)
  BY <1>4, <1>6, HoldingIs
<1> HIDE DEF h
<1>8. Saves(new, a) /\ a \in Stores
  BY <1>6, KeepsArchive DEF Keeps, Saves
<1> HIDE DEF a
<1>9. Saves(new, s) /\ s \in Stores
  BY <1>8, KeepsArchiveMeta, SavesChain DEF Keeps, Saves
<1> HIDE DEF s
<1>10. Saves(new, t) /\ t \in Stores
  BY <1>9, ArchiveFileIs, SavesChain
<1> HIDE DEF t
<1>11. Held(mem, latest)
  BY DEF MemoryInv
<1>12. Held(new, latest')
  BY <1>2, <1>6, <1>7, <1>11, MemoryIs, HeldTakes
<1>13. Held(s, latest') /\ Held(t, latest') /\ writes' \in Nat
  BY <1>3, <1>9, <1>10, <1>12, MemoryIs, HeldSaves
<1>14. CASE Restart(s)
  BY <1>9, <1>13, <1>14, RestartKept
<1>15. CASE Restart(t)
  BY <1>10, <1>13, <1>15, RestartKept
<1> QED BY <1>2, <1>14, <1>15

-----------------------------------------------------------------------------
(* The theorems. *)

LEMMA MemoryStutters == ASSUME MemoryInv, UNCHANGED vars PROVE MemoryInv'
<1>1. /\ mem' = mem /\ dream' = dream /\ prompt' = prompt /\ latest' = latest /\ torn' = torn
      /\ writes' = writes /\ nights' = nights /\ faults' = faults
  BY DEF vars
<1> QED BY <1>1 DEF MemoryInv, MemoryTypes, CachedPromptIsCurrent

LEMMA MemoryKept == MemoryInv /\ [Next]_vars => MemoryInv'
<1> SUFFICES ASSUME MemoryInv, [Next]_vars PROVE MemoryInv'
  OBVIOUS
<1>1. ASSUME NEW k \in UserKeys,
             \/ ToolWrite(k) \/ ManagerWrite(k) \/ WriteLosesIndex(k)
             \/ CrashInWrite(k) \/ Remove(k)
      PROVE  MemoryInv'
  BY <1>1, ToolWriteKept, ManagerWriteKept, WriteLosesIndexKept, CrashInWriteKept, RemoveKept
<1>2. ASSUME NEW k \in Keys, Read(k) PROVE MemoryInv'
  BY <1>2, ReadKept
<1>3. ASSUME NEW c, BuildPrompt(c) PROVE MemoryInv'
  BY <1>3, BuildPromptKept
<1>4. CASE NightFalls \/ StartNight \/ StartDeep \/ Score \/ Crash
  BY <1>4, NightFallsKept, StartNightKept, StartDeepKept, ScoreKept, CrashKept
<1>5. ASSUME NEW kind \in Kinds,
             Merge(kind) \/ Overview(kind) \/ DreamFails(kind) \/ CrashInMerge(kind)
      PROVE  MemoryInv'
  BY <1>5, MergeKept, OverviewKept, DreamFailsKept, CrashInMergeKept
<1>6. CASE UNCHANGED vars
  BY <1>6, MemoryStutters
<1> QED BY <1>1, <1>2, <1>3, <1>4, <1>5, <1>6 DEF Next

LEMMA MemoryHolds == Spec => []MemoryInv
BY MemoryStarts, MemoryKept, PTL DEF Spec

\* The files, the index, the archive and the dreams are what the manager's and
\* the dreamer's helpers take them for, on every run.
THEOREM MemoryIsTyped == Spec => []MemoryTypes
<1>1. MemoryInv => MemoryTypes
  BY DEF MemoryInv
<1> QED BY <1>1, MemoryHolds, PTL

\* Whatever the writers, the two dreams, their failures and crashes between two
\* files do, what was last written under a key is in the directory or the archive.
THEOREM NothingIsForgotten == Spec => []NothingForgotten
<1>1. MemoryInv => NothingForgotten
  BY DEF MemoryInv, Held, NothingForgotten
<1> QED BY <1>1, MemoryHolds, PTL

\* The index lists exactly the entries, until an index write is lost or an index
\* that was copied is put back: no interleaving of whole operations breaks it.
THEOREM IndexIsRight == Spec => []IndexListsFiles
<1>1. MemoryInv => IndexListsFiles
  BY DEF MemoryInv, Lists, IndexListsFiles
<1> QED BY <1>1, MemoryHolds, PTL

\* A prompt left in the cache shows the memory as it is: every step that changes
\* the view drops it.
THEOREM CachedPromptsAreCurrent == Spec => []CachedPromptIsCurrent
<1>1. MemoryInv => CachedPromptIsCurrent
  BY DEF MemoryInv
<1> QED BY <1>1, MemoryHolds, PTL
=============================================================================
