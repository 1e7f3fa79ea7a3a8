--------------------------- MODULE ServicesProofs ---------------------------
(***************************************************************************)
(* The services around the teams' memory, for every value of the           *)
(* constants.  Each service has its invariant: that it holds at the start  *)
(* (XStarts), that every action keeps it (XKept), and that it tells what   *)
(* the runs check (XTells).  The last section composes them: whichever of  *)
(* the services a behaviour of ServicesMC chooses, all promises are kept.  *)
(***************************************************************************)
EXTENDS ServicesMC, MemoryStoreProofs, FiniteSetTheorems, SequenceTheorems
-----------------------------------------------------------------------------
(* Facts about numbers and finite sets. *)

\* Induction, for a set of numbers.
LEMMA EveryNumber ==
  ASSUME NEW T \in SUBSET Nat, 0 \in T, \A n \in T : n + 1 \in T
  PROVE  Nat \subseteq T
<1> SUFFICES ASSUME NEW x \in Nat, x \notin T PROVE FALSE
  OBVIOUS
<1> DEFINE M == Nat \ T
<1>1. M \subseteq Nat /\ M # {}
  OBVIOUS
<1>2. PICK m \in M : \A y \in M : <<y, m>> \notin OpToRel(<, Nat)
  BY <1>1, NatLessThanWellFounded, WFMin
<1>3. \A y \in M : ~ (y < m)
  BY <1>1, <1>2 DEF OpToRel
<1>4. m # 0 /\ m - 1 \in Nat /\ m - 1 < m /\ (m - 1) + 1 = m
  OBVIOUS
<1>5. m - 1 \in T
  BY <1>3, <1>4
<1> QED BY <1>4, <1>5

\* One of the latest of finitely many.
LEMMA LatestExists ==
  ASSUME NEW D, IsFiniteSet(D), D # {}, NEW at \in [D -> Nat]
  PROVE  \E d \in D : \A e \in D : at[d] >= at[e]
<1> DEFINE Has(S) == \E d \in S : \A e \in S : at[d] >= at[e]
           T == {n \in Nat : \A S \in SUBSET D : S # {} /\ Cardinality(S) = n => Has(S)}
<1>1. 0 \in T
  <2>1. \A S \in SUBSET D : Cardinality(S) = 0 => S = {}
    BY FS_EmptySet, FS_Subset
  <2> QED BY <2>1
<1>2. ASSUME NEW n \in T PROVE n + 1 \in T
  <2> SUFFICES ASSUME NEW S \in SUBSET D, S # {}, Cardinality(S) = n + 1 PROVE Has(S)
    OBVIOUS
  <2>1. PICK x \in S : TRUE
    OBVIOUS
  <2>2. IsFiniteSet(S)
    BY FS_Subset
  <2>3. Cardinality(S \ {x}) = n
    <3>1. n \in Nat /\ Cardinality(S \ {x}) = Cardinality(S) - 1
      BY <2>1, <2>2, FS_RemoveElement
    <3> QED BY <3>1
  <2>4. CASE S \ {x} = {}
    <3>1. \A e \in S : e = x
      BY <2>4
    <3> QED BY <3>1, <2>1
  <2>5. CASE S \ {x} # {}
    <3>1. Has(S \ {x})
      BY <2>3, <2>5
    <3>2. PICK y \in S \ {x} : \A e \in S \ {x} : at[y] >= at[e]
      BY <3>1
    <3>3. CASE at[x] >= at[y]
      <4>1. \A e \in S : at[x] >= at[e]
        BY <3>2, <3>3
      <4> QED BY <4>1
    <3>4. CASE ~(at[x] >= at[y])
      <4>1. \A e \in S : at[y] >= at[e]
        BY <3>2, <3>4
      <4> QED BY <4>1, <3>2
    <3> QED BY <3>3, <3>4
  <2> QED BY <2>4, <2>5
<1> HIDE DEF T
<1>3. Nat \subseteq T
  BY <1>1, <1>2, EveryNumber DEF T
<1>4. Cardinality(D) \in Nat
  BY FS_CardinalityType
<1>5. Cardinality(D) \in T
  BY <1>3, <1>4
<1> QED BY <1>5 DEF T

\* The n latest of finitely many.
LEMMA LatestOnesExist ==
  ASSUME NEW D, IsFiniteSet(D), NEW at \in [D -> Nat], NEW n \in Nat, n <= Cardinality(D)
  PROVE  \E E \in kSubset(n, D) : \A d \in E, e \in D \ E : at[d] >= at[e]
<1> DEFINE Has(i) == \E E \in SUBSET D : /\ Cardinality(E) = i
                                         /\ \A d \in E, e \in D \ E : at[d] >= at[e]
           T == {i \in Nat : i <= Cardinality(D) => Has(i)}
<1>0. Cardinality(D) \in Nat
  BY FS_CardinalityType
<1>1. 0 \in T
  <2>1. Cardinality({}) = 0 /\ {} \in SUBSET D
    BY FS_EmptySet
  <2> QED BY <2>1
<1>2. ASSUME NEW i \in T PROVE i + 1 \in T
  <2> SUFFICES ASSUME i + 1 <= Cardinality(D) PROVE Has(i + 1)
    OBVIOUS
  <2>1. PICK E \in SUBSET D : /\ Cardinality(E) = i
                              /\ \A d \in E, e \in D \ E : at[d] >= at[e]
    BY <1>0
  <2>2. D \ E # {}
    <3>1. E # D
      BY <1>0, <2>1
    <3> QED BY <3>1
  <2>3. IsFiniteSet(D \ E) /\ IsFiniteSet(E)
    BY FS_Subset
  <2> DEFINE R == D \ E
             f == [x \in R |-> at[x]]
  <2>4. PICK x \in R : \A e \in R : f[x] >= f[e]
    <3>1. f \in [R -> Nat]
      OBVIOUS
    <3> HIDE DEF f
    <3> QED BY <3>1, <2>2, <2>3, LatestExists
  <2> DEFINE F == E \cup {x}
  <2>5. F \in SUBSET D /\ Cardinality(F) = i + 1
    BY <2>1, <2>3, FS_AddElement
  <2>6. \A d \in F, e \in D \ F : at[d] >= at[e]
    BY <2>1, <2>4
  <2> HIDE DEF F
  <2> QED BY <2>5, <2>6
<1> HIDE DEF T
<1>3. Nat \subseteq T
  BY <1>1, <1>2, EveryNumber DEF T
<1>4. n \in T
  BY <1>3
<1>5. Has(n)
  BY <1>4 DEF T
<1> QED BY <1>5 DEF kSubset

-----------------------------------------------------------------------------
(* The shared documents. *)

PKSpec == PKInit /\ [][PKNext]_pkVars

Publishing == [step : {"idle", "put", "read"}, op : {"none", "add", "remove"},
               doc : Docs \cup {"none"}, read : SUBSET Docs, alone : BOOLEAN]

PKTypes ==
  /\ docs \subseteq Docs /\ index \subseteq Docs /\ IsFiniteSet(index)
  /\ pub \in [Publishers -> Publishing] /\ \A p \in Publishers : IsFiniteSet(pub[p].read)
  /\ pkNow \in Nat

\* What a publisher is about, as long as nobody else changes its document.
AloneTells(p) ==
  pub[p].step # "idle" /\ pub[p].alone =>
    /\ pub[p].doc # "none"
    /\ pub[p].doc \in docs <=> pub[p].op = "add"
    /\ \A o \in Publishers \ {p} : pub[o].doc # pub[p].doc

\* A document nobody is about: it is stored if it is listed, and listed if it is
\* stored and was not left out.
DocTells(d) ==
  d \notin dangling /\ (\A p \in Publishers : pub[p].doc # d) /\ Fresh(d) =>
    /\ d \in index => d \in docs
    /\ d \notin dropped /\ d \in docs => d \in index

\* The inductive invariant: a list also never holds what it left out.
PKHolds ==
  /\ PKTypes
  /\ \A p \in Publishers : /\ pub[p].step = "put" => pub[p].op # "none" /\ pub[p].doc \in Docs
                           /\ pub[p].step = "read" => pub[p].op # "none" /\ pub[p].doc \in Docs
                           /\ AloneTells(p)
  /\ \A d \in Docs : DocTells(d)
  /\ dropped \cap index = {}

LEMMA NewestIs ==
  ASSUME NEW D \in SUBSET Docs, IsFiniteSet(D)
  PROVE  Newest(D) \in SUBSET D /\ IsFiniteSet(Newest(D))
<1>1. CASE Cardinality(D) <= IndexCap
  BY <1>1 DEF Newest
<1>2. CASE ~(Cardinality(D) <= IndexCap)
  <2> DEFINE at == [d \in D |-> PublishedAt[d]]
             Good(E) == \A d \in E, e \in D \ E : PublishedAt[d] >= PublishedAt[e]
  <2>1. at \in [D -> Nat]
    BY PublicKnowledgeAssumption
  <2>2. Cardinality(D) \in Nat /\ IndexCap \in Nat /\ IndexCap <= Cardinality(D)
    BY <1>2, FS_CardinalityType, PublicKnowledgeAssumption
  <2>3. \E E \in kSubset(IndexCap, D) : \A d \in E, e \in D \ E : at[d] >= at[e]
    <3> HIDE DEF at
    <3> QED BY <2>1, <2>2, LatestOnesExist
  <2>4. \E E \in kSubset(IndexCap, D) : Good(E)
    BY <2>3 DEF kSubset
  <2> HIDE DEF at
  <2>5. Newest(D) = CHOOSE E \in kSubset(IndexCap, D) : Good(E)
    BY <1>2 DEF Newest
  <2> HIDE DEF Good
  <2>6. Newest(D) \in kSubset(IndexCap, D)
    BY <2>4, <2>5
  <2>7. Newest(D) \in SUBSET D
    BY <2>6 DEF kSubset
  <2> QED BY <2>7, FS_Subset
<1> QED BY <1>1, <1>2

LEMMA WithChangeIs ==
  ASSUME NEW R \in SUBSET Docs, IsFiniteSet(R), NEW op, NEW d \in Docs
  PROVE  /\ WithChange(R, op, d) \in SUBSET Docs /\ IsFiniteSet(WithChange(R, op, d))
         /\ d \in WithChange(R, op, d) <=> op = "add"
         /\ \A e : e # d => (e \in WithChange(R, op, d) <=> e \in R)
<1>1. IsFiniteSet(R \ {d})
  BY FS_RemoveElement
<1>2. IsFiniteSet((R \ {d}) \cup {d})
  BY <1>1, FS_AddElement
<1>3. CASE op = "add"
  BY <1>2, <1>3 DEF WithChange
<1>4. CASE op # "add"
  <2>1. WithChange(R, op, d) = R \ {d}
    BY <1>4 DEF WithChange
  <2> QED BY <1>1, <1>4, <2>1
<1> QED BY <1>3, <1>4

LEMMA PKStarts == PKInit => PKHolds
<1> SUFFICES ASSUME PKInit PROVE PKHolds
  OBVIOUS
<1>1. Off \in Publishing /\ Off.read = {} /\ Off.step = "idle"
  BY DEF Off, Publishing
<1>2. IsFiniteSet({})
  BY FS_EmptySet
<1>3. PKTypes
  BY <1>1, <1>2 DEF PKInit, PKTypes
<1>4. \A p \in Publishers : pub[p].step = "idle"
  BY <1>1 DEF PKInit
<1> QED BY <1>3, <1>4 DEF PKInit, PKHolds, AloneTells, DocTells

LEMMA BeginKept ==
  ASSUME PKHolds, NEW p \in Publishers, NEW d \in Docs, NEW op \in {"add", "remove"},
         Begin(p, d, op), docs' = IF op = "add" THEN docs \cup {d} ELSE docs \ {d}
  PROVE  PKHolds'
<1> DEFINE new == [step |-> "put", op |-> op, doc |-> d, read |-> {},
                   alone |-> \A o \in Publishers : pub[o].doc # d]
<1>1. /\ pub[p] = Off /\ UNCHANGED <<index, pkNow, dangling, dropped>>
      /\ pub' = [q \in Publishers |-> IF q = p THEN new ELSE [pub[q] EXCEPT !.alone = @ /\ pub[q].doc # d]]
  BY DEF Begin
<1>2. new \in Publishing /\ new.step = "put" /\ new.op = op /\ new.doc = d /\ new.read = {}
      /\ new.alone = \A o \in Publishers : pub[o].doc # d
  BY DEF Publishing
<1> HIDE DEF new
<1>3. \A q \in Publishers : pub[q] \in Publishing
  BY DEF PKHolds, PKTypes
<1>4. ASSUME NEW q \in Publishers \ {p}
      PROVE  /\ pub'[q] \in Publishing /\ pub'[q].step = pub[q].step /\ pub'[q].op = pub[q].op
             /\ pub'[q].doc = pub[q].doc /\ pub'[q].read = pub[q].read
             /\ pub'[q].alone => pub[q].alone /\ pub[q].doc # d
  <2>1. pub'[q] = [pub[q] EXCEPT !.alone = @ /\ pub[q].doc # d]
    BY <1>1
  <2>2. pub[q] \in Publishing
    BY <1>3
  <2> QED BY <2>1, <2>2 DEF Publishing
<1>5. pub'[p] = new /\ DOMAIN pub' = Publishers
  BY <1>1
<1>6. PKTypes'
  <2>1. \A q \in Publishers : pub'[q] \in Publishing /\ IsFiniteSet(pub'[q].read)
    BY <1>2, <1>4, <1>5, FS_EmptySet DEF PKHolds, PKTypes
  <2>2. pub' \in [Publishers -> Publishing]
    BY <2>1, <1>1
  <2> QED BY <2>1, <2>2, <1>1 DEF PKHolds, PKTypes
<1>7. ASSUME NEW q \in Publishers PROVE AloneTells(q)'
  <2>1. CASE q = p
    <3>0. d # "none"
      BY PublicKnowledgeAssumption
    <3>1. new.alone => \A o \in Publishers \ {p} : pub'[o].doc # d
      BY <1>2, <1>4
    <3>2. d \in docs' <=> op = "add"
      OBVIOUS
    <3> QED BY <2>1, <3>0, <3>1, <3>2, <1>2, <1>5 DEF AloneTells
  <2>2. CASE q # p
    <3>1. AloneTells(q)
      BY DEF PKHolds
    <3>2. pub'[q].alone => pub[q].alone /\ pub[q].doc # d
      BY <2>2, <1>4
    <3>3. pub[q].doc # d => (pub[q].doc \in docs' <=> pub[q].doc \in docs)
      OBVIOUS
    <3>4. pub[q].doc # d /\ (\A o \in Publishers \ {q} : pub[o].doc # pub[q].doc)
            => \A o \in Publishers \ {q} : pub'[o].doc # pub[q].doc
      BY <1>2, <1>4, <1>5
    <3> QED BY <2>2, <3>1, <3>2, <3>3, <3>4, <1>4 DEF AloneTells
  <2> QED BY <2>1, <2>2
<1>8. ASSUME NEW e \in Docs PROVE DocTells(e)'
  <2>1. CASE e = d
    BY <2>1, <1>2, <1>5 DEF DocTells
  <2>2. CASE e # d
    <3>1. DocTells(e)
      BY DEF PKHolds
    <3>2. e \in docs' <=> e \in docs
      BY <2>2
    <3>3. pub[p].doc = "none" /\ e # "none"
      BY <1>1, PublicKnowledgeAssumption DEF Off
    <3>4. (\A q \in Publishers : pub'[q].doc # e) => \A q \in Publishers : pub[q].doc # e
      BY <1>4, <3>3
    <3>5. Fresh(e)' => Fresh(e)
      BY <1>1 DEF Fresh
    <3> QED BY <3>1, <3>2, <3>4, <3>5, <1>1 DEF DocTells
  <2> QED BY <2>1, <2>2
<1>9. \A q \in Publishers : pub'[q].step \in {"put", "read"} => pub'[q].op # "none" /\ pub'[q].doc \in Docs
  BY <1>2, <1>4, <1>5 DEF PKHolds
<1> QED BY <1>1, <1>6, <1>7, <1>8, <1>9 DEF PKHolds

LEMMA LoadIndexKept ==
  ASSUME PKHolds, NEW p \in Publishers, LoadIndex(p)
  PROVE  PKHolds'
<1>1. PICK R \in SUBSET index : pub' = [pub EXCEPT ![p].step = "read", ![p].read = R]
  BY DEF LoadIndex
<1>2. /\ pub[p].step = "put" /\ UNCHANGED <<docs, index, pkNow, dropped>>
      /\ dangling \subseteq dangling'
  BY DEF LoadIndex
<1>3. R \in SUBSET Docs /\ IsFiniteSet(R)
  BY FS_Subset DEF PKHolds, PKTypes
<1>4. pub \in [Publishers -> Publishing]
  BY DEF PKHolds, PKTypes
<1>5. ASSUME NEW q \in Publishers
      PROVE  /\ pub'[q] \in Publishing /\ pub'[q].op = pub[q].op /\ pub'[q].doc = pub[q].doc
             /\ pub'[q].alone = pub[q].alone
             /\ pub'[q].step = IF q = p THEN "read" ELSE pub[q].step
             /\ pub'[q].read = IF q = p THEN R ELSE pub[q].read
  <2>1. pub[q] \in Publishing
    BY <1>4
  <2>2. CASE q = p
    BY <2>1, <2>2, <1>1, <1>3, <1>4 DEF Publishing
  <2>3. CASE q # p
    BY <2>1, <2>3, <1>1, <1>4 DEF Publishing
  <2> QED BY <2>2, <2>3
<1>6. PKTypes'
  <2>1. pub' \in [Publishers -> Publishing]
    BY <1>1, <1>4, <1>5
  <2>2. \A q \in Publishers : IsFiniteSet(pub'[q].read)
    BY <1>3, <1>5 DEF PKHolds, PKTypes
  <2> QED BY <2>1, <2>2, <1>2 DEF PKHolds, PKTypes
<1>7. ASSUME NEW q \in Publishers PROVE AloneTells(q)'
  <2>1. AloneTells(q)
    BY DEF PKHolds
  <2>2. pub'[q].step # "idle" => pub[q].step # "idle"
    BY <1>2, <1>5
  <2> QED BY <2>1, <2>2, <1>2, <1>5 DEF AloneTells
<1>8. ASSUME NEW e \in Docs PROVE DocTells(e)'
  <2>1. DocTells(e)
    BY DEF PKHolds
  <2> QED BY <2>1, <1>2, <1>5 DEF DocTells, Fresh
<1>9. \A q \in Publishers : pub'[q].step \in {"put", "read"} => pub'[q].op # "none" /\ pub'[q].doc \in Docs
  BY <1>2, <1>5 DEF PKHolds
<1> QED BY <1>2, <1>6, <1>7, <1>8, <1>9 DEF PKHolds

\* The list is written, or its write fails: what has changed since it was read, and
\* what could not be written, is counted among the dangling.
LEMMA SaveIndexKept ==
  ASSUME PKHolds, NEW p \in Publishers, SaveIndex(p)
  PROVE  PKHolds'
<1> DEFINE d == pub[p].doc
           op == pub[p].op
           R == pub[p].read
           changed == WithChange(R, op, d)
           fresh == {e \in changed : Fresh(e)}
           missed == (index \ R) \cup (R \ index)
<1>1. /\ pub[p].step = "read" /\ pub' = [pub EXCEPT ![p] = Off]
      /\ UNCHANGED <<docs, pkNow>>
  BY DEF SaveIndex
<1>2. \/ /\ index' = Newest(fresh)
         /\ dropped' = (dropped \ Newest(fresh)) \cup (fresh \ Newest(fresh))
         /\ dangling' = IF pub[p].alone THEN (dangling \ {d}) \cup missed
                        ELSE dangling \cup {d} \cup missed
      \/ dangling' = dangling \cup {d} /\ UNCHANGED <<index, dropped>>
  BY DEF SaveIndex
<1>3. pub \in [Publishers -> Publishing]
  BY DEF PKHolds, PKTypes
<1>4. /\ d \in Docs /\ op \in {"add", "remove"} /\ R \in SUBSET Docs /\ IsFiniteSet(R)
      /\ pub[p].alone \in BOOLEAN
  <2>1. pub[p] \in Publishing /\ IsFiniteSet(R)
    BY DEF PKHolds, PKTypes
  <2>2. d \in Docs /\ op # "none"
    BY <1>1 DEF PKHolds
  <2> QED BY <2>1, <2>2 DEF Publishing
<1>5. /\ changed \in SUBSET Docs /\ IsFiniteSet(changed)
      /\ d \in changed <=> op = "add"
      /\ \A e : e # d => (e \in changed <=> e \in R)
  BY <1>4, WithChangeIs
<1>6. AloneTells(p)
  BY DEF PKHolds
<1>7. \A o \in Publishers \ {p} : pub'[o] = pub[o]
  BY <1>1, <1>3
<1>8. pub'[p] = Off /\ Off.doc = "none" /\ Off.step = "idle" /\ Off.read = {} /\ Off \in Publishing
  BY <1>1, <1>3 DEF Off, Publishing
<1> HIDE DEF changed
<1>9. fresh \in SUBSET Docs /\ IsFiniteSet(fresh)
  BY <1>5, FS_Subset
<1>10. \A e : e \in fresh <=> e \in changed /\ Fresh(e)
  OBVIOUS
<1> DEFINE new == Newest(fresh)
<1> HIDE DEF fresh
<1>11. new \in SUBSET fresh /\ IsFiniteSet(new)
  BY <1>9, NewestIs
<1>12. \A e : e \in missed <=> ~(e \in index <=> e \in R)
  OBVIOUS
<1> HIDE DEF new, missed
<1>13. \/ /\ index' = new
          /\ dropped' = (dropped \ new) \cup (fresh \ new)
          /\ dangling' = IF pub[p].alone THEN (dangling \ {d}) \cup missed
                         ELSE dangling \cup {d} \cup missed
       \/ dangling' = dangling \cup {d} /\ UNCHANGED <<index, dropped>>
  BY <1>2 DEF new, missed
<1>14. PKTypes'
  <2>1. index' \subseteq Docs /\ IsFiniteSet(index')
    BY <1>9, <1>11, <1>13 DEF PKHolds, PKTypes
  <2>2. pub' \in [Publishers -> Publishing]
    BY <1>1, <1>3, <1>8
  <2>3. \A q \in Publishers : IsFiniteSet(pub'[q].read)
    BY <1>7, <1>8, FS_EmptySet DEF PKHolds, PKTypes
  <2> QED BY <2>1, <2>2, <2>3, <1>1 DEF PKHolds, PKTypes
<1>15. ASSUME NEW q \in Publishers PROVE AloneTells(q)'
  <2>1. CASE q = p
    BY <2>1, <1>8 DEF AloneTells
  <2>2. CASE q # p
    <3>1. AloneTells(q) /\ pub'[q] = pub[q]
      BY <2>2, <1>7 DEF PKHolds
    <3>2. \A o \in Publishers \ {q} : pub'[o].doc = pub[o].doc \/ pub'[o].doc = "none"
      BY <1>7, <1>8
    <3> QED BY <3>1, <3>2, <1>1 DEF AloneTells
  <2> QED BY <2>1, <2>2
<1>16. ASSUME NEW e \in Docs PROVE DocTells(e)'
  <2> SUFFICES ASSUME e \notin dangling', \A q \in Publishers : pub'[q].doc # e, Fresh(e)
               PROVE  /\ e \in index' => e \in docs
                      /\ e \notin dropped' /\ e \in docs => e \in index'
    BY <1>1 DEF DocTells, Fresh
  <2>1. DocTells(e) /\ dropped \cap index = {}
    BY DEF PKHolds
  <2>2. CASE e = d
    <3>1. pub[p].alone /\ e \notin missed /\ index' = new /\ dropped' = (dropped \ new) \cup (fresh \ new)
      BY <2>2, <1>4, <1>13
    <3>2. e \in docs <=> op = "add"
      BY <2>2, <3>1, <1>1, <1>6 DEF AloneTells
    <3> QED BY <2>2, <3>1, <3>2, <1>5, <1>10, <1>11
  <2>3. CASE e # d
    <3>1. e \notin dangling /\ \A q \in Publishers : pub[q].doc # e
      BY <2>3, <1>4, <1>7, <1>13
    <3>2. CASE UNCHANGED <<index, dropped>>
      BY <2>1, <3>1, <3>2 DEF DocTells
    <3>3. CASE index' = new /\ dropped' = (dropped \ new) \cup (fresh \ new) /\ e \notin missed
      <4>1. e \in index <=> e \in fresh
        BY <2>3, <3>3, <1>5, <1>10, <1>12
      <4>2. e \in new => e \in index /\ e \notin dropped
        BY <2>1, <4>1, <1>11
      <4>3. e \notin dropped' => (e \in fresh <=> e \in new) /\ e \notin dropped
        BY <3>3, <4>2, <1>11
      <4> QED BY <2>1, <3>1, <3>3, <4>1, <4>2, <4>3 DEF DocTells
    <3> QED BY <3>2, <3>3, <1>4, <1>13
  <2> QED BY <2>2, <2>3
<1>17. dropped' \cap index' = {}
  BY <1>13 DEF PKHolds
<1>18. \A q \in Publishers : pub'[q].step \in {"put", "read"} => pub'[q].op # "none" /\ pub'[q].doc \in Docs
  BY <1>7, <1>8 DEF PKHolds
<1> QED BY <1>14, <1>15, <1>16, <1>17, <1>18 DEF PKHolds

LEMMA PKKept == PKHolds /\ [PKNext]_pkVars => PKHolds'
<1> SUFFICES ASSUME PKHolds, [PKNext]_pkVars PROVE PKHolds'
  OBVIOUS
<1>1. ASSUME NEW p \in Publishers, NEW d \in Docs, BeginPublish(p, d) PROVE PKHolds'
  BY <1>1, BeginKept DEF BeginPublish
<1>2. ASSUME NEW p \in Publishers, NEW d \in Docs, BeginUnpublish(p, d) PROVE PKHolds'
  BY <1>2, BeginKept DEF BeginUnpublish
<1>3. ASSUME NEW p \in Publishers, LoadIndex(p) PROVE PKHolds'
  BY <1>3, LoadIndexKept
<1>4. ASSUME NEW p \in Publishers, SaveIndex(p) PROVE PKHolds'
  BY <1>4, SaveIndexKept
<1>5. CASE PKTick
  <2>1. pkNow' = pkNow + 1 /\ UNCHANGED <<docs, index, pub, dangling, dropped>> /\ pkNow \in Nat
    BY <1>5 DEF PKTick, PKHolds, PKTypes
  <2>2. \A d \in Docs : Fresh(d)' => Fresh(d)
    BY <2>1, PublicKnowledgeAssumption DEF Fresh
  <2>3. \A d \in Docs : DocTells(d)'
    BY <2>1, <2>2 DEF PKHolds, DocTells
  <2> QED BY <2>1, <2>3 DEF PKHolds, PKTypes, AloneTells
<1>6. CASE UNCHANGED pkVars
  BY <1>6 DEF pkVars, PKHolds, PKTypes, AloneTells, DocTells, Fresh
<1> QED BY <1>1, <1>2, <1>3, <1>4, <1>5, <1>6 DEF PKNext

\* A search for one document finds it if it is listed.
LEMMA SearchIs ==
  ASSUME NEW d
  PROVE  d \in SearchIndex(TRUE, {d}) <=> d \in index /\ Fresh(d)
<1> DEFINE hits == {e \in index : e \in {d} /\ (TRUE => Fresh(e))}
<1>1. hits \in SUBSET {d}
  OBVIOUS
<1>2. IsFiniteSet({d}) /\ Cardinality({d}) = 1
  BY FS_Singleton
<1>3. IsFiniteSet(hits) /\ Cardinality(hits) <= 1
  <2> HIDE DEF hits
  <2> QED BY <1>1, <1>2, FS_Subset
<1>4. Cardinality(hits) \in Nat
  <2> HIDE DEF hits
  <2> QED BY <1>3, FS_CardinalityType
<1>5. Cardinality(hits) <= SearchLimit
  <2> HIDE DEF hits
  <2> QED BY <1>3, <1>4, PublicKnowledgeAssumption
<1>6. SearchIndex(TRUE, {d}) = hits
  <2>1. ~Mixed(hits)
    <3> HIDE DEF hits
    <3> QED BY <1>1 DEF Mixed
  <2> QED BY <2>1, <1>5 DEF SearchIndex
<1>7. d \in hits <=> d \in index /\ Fresh(d)
  OBVIOUS
<1> QED BY <1>6, <1>7

LEMMA PKTells == PKHolds => IndexFollowsDocs
<1> SUFFICES ASSUME PKHolds,
                    NEW d \in Docs \ (dangling \cup dropped \cup {pub[p].doc : p \in Publishers}),
                    Fresh(d)
             PROVE  d \in docs <=> d \in SearchIndex(TRUE, {d})
  BY DEF IndexFollowsDocs
<1>1. DocTells(d)
  BY DEF PKHolds
<1> QED BY <1>1, SearchIs DEF DocTells

\* Whatever publishers there are and whatever they publish and take back, through
\* failing requests and lists that others overwrite: a document nobody is about is
\* found exactly if it is stored, but for the losses that are named.
THEOREM IndexStaysInSync == PKSpec => []IndexFollowsDocs
BY PKStarts, PKKept, PKTells, PTL DEF PKSpec
-----------------------------------------------------------------------------
(* The digests. *)

DigestSpec == DigestInit /\ [][DigestNext]_digestVars

\* What was ever answered otherwise than with nothing may be the latest; what is
\* remembered as stored is stored, and so is what was answered as accepted; a digest
\* that is not remembered was not stored since the process started.
DigestHolds ==
  /\ answered \in [Digest -> {"none", "accepted", "refused"}]
  /\ puts \in [Digest -> 0..1]
  /\ objects \in [Digest -> Digest \cup {NoDigest}]
  /\ \A d \in Digest :
       /\ answered[d] = "accepted" \/ d \in seen =>
            objects[KeyLatest] # NoDigest /\ (d # KeyLatest => objects[d] = d)
       /\ d \notin seen => puts[d] = 0
       /\ objects[KeyLatest] = d => answered[d] # "none" /\ objects[d] = d

LEMMA DigestStarts == DigestInit => DigestHolds
BY DigestAssumption DEF DigestInit, DigestHolds

LEMMA IngestKept ==
  ASSUME DigestHolds, NEW d \in Digest, Ingest(d)
  PROVE  DigestHolds'
<1> USE DigestAssumption
<1>1. CASE d \in seen /\ answered' = [answered EXCEPT ![d] = "accepted"]
           /\ UNCHANGED <<seen, objects, puts>>
  BY <1>1 DEF DigestHolds
<1>2. CASE /\ d \notin seen /\ objects' = BothPut(d)
           /\ seen' = seen \cup {d}
           /\ answered' = [answered EXCEPT ![d] = "accepted"]
           /\ puts' = [puts EXCEPT ![d] = @ + 1]
  BY <1>2 DEF DigestHolds, BothPut
<1>3. CASE /\ d \notin seen /\ objects' \in {objects, FirstPut(d), BothPut(d)}
           /\ answered' = [answered EXCEPT ![d] = "refused"]
           /\ UNCHANGED <<seen, puts>>
  <2>1. CASE objects' = objects
    BY <1>3, <2>1 DEF DigestHolds
  <2>2. CASE objects' = FirstPut(d)
    BY <1>3, <2>2 DEF DigestHolds, FirstPut
  <2>3. CASE objects' = BothPut(d)
    BY <1>3, <2>3 DEF DigestHolds, BothPut
  <2> QED BY <1>3, <2>1, <2>2, <2>3
<1> QED BY <1>1, <1>2, <1>3 DEF Ingest

LEMMA DigestKept == DigestHolds /\ [DigestNext]_digestVars => DigestHolds'
<1> SUFFICES ASSUME DigestHolds, [DigestNext]_digestVars PROVE DigestHolds'
  OBVIOUS
<1>1. ASSUME NEW d \in Digest, Ingest(d) PROVE DigestHolds'
  BY <1>1, IngestKept
<1>2. CASE DigestRestart
  BY <1>2 DEF DigestRestart, DigestHolds
<1>3. CASE UNCHANGED digestVars
  BY <1>3 DEF digestVars, DigestHolds
<1> QED BY <1>1, <1>2, <1>3 DEF DigestNext

LEMMA DigestTells == DigestHolds => AcceptedIsStored
BY DigestAssumption DEF DigestHolds, AcceptedIsStored

\* Whatever digests are delivered, in any order and again, through any failed
\* writes and restarts: what was accepted can be read, but for the key "latest", and
\* is stored once; and the latest can be read under its own key.
THEOREM AcceptedStaysStored == DigestSpec => []AcceptedIsStored
BY DigestStarts, DigestKept, DigestTells, PTL DEF DigestSpec
-----------------------------------------------------------------------------
(* The vectors and the backups of a team's memory. *)

BackendsSpec == BackendsInit /\ [][VectorsNext \/ BackupNext]_backendVars

BackendTypes ==
  /\ mem \in Stores /\ DOMAIN vec \subseteq Keys /\ writes \in Nat
  /\ remote.entries \in Partial(SUBSET Facts)

\* The inductive invariant.
BackendsHold == BackendTypes /\ CopiesFollow

\* Every key is found if and only if it is listed, but for those of the set S.
InStep(S, v, l) == \A x \in Keys \ S : x \in v <=> x \in l

LEMMA InStepIs == VectorsFollowIndex <=> InStep(strayed, DOMAIN vec, Listed(mem))
BY DEF VectorsFollowIndex, InStep, Listed

LEMMA NothingFacts == Nothing \in Partial(SUBSET Facts)
<1> DEFINE F == SUBSET Facts
<1> HIDE DEF F
<1>1. Nothing \in Partial(F)
  BY NothingIs
<1> QED BY <1>1 DEF F

LEMMA HoldingFact ==
  ASSUME NEW x \in Keys, NEW f \in Facts
  PROVE  Holding(x, {f}) \in Partial(SUBSET Facts) /\ DOMAIN Holding(x, {f}) = {x}
<1> DEFINE S == SUBSET Facts
<1>1. {f} \in S
  OBVIOUS
<1> HIDE DEF S
<1>2. Holding(x, {f}) \in Partial(S)
  BY <1>1, HoldingIs
<1> QED BY <1>2 DEF S, Holding

LEMMA BackendsStart == BackendsInit => BackendsHold
<1> SUFFICES ASSUME BackendsInit PROVE BackendsHold
  OBVIOUS
<1>1. DOMAIN Nothing = {}
  BY NothingIs
<1>2. BackendTypes
  BY <1>1, EmptyIs, NothingFacts DEF BackendsInit, BackendTypes
<1>3. Listed(mem) = {}
  <2>1. mem = EmptyStore /\ EmptyStore.file = Nothing /\ EmptyStore.indexed = FALSE
    BY DEF BackendsInit, EmptyStore
  <2> QED BY <2>1, <1>1, EmptyIs, ListedIs
<1>4. VectorsFollowIndex
  BY <1>1, <1>3, InStepIs DEF BackendsInit, InStep
<1>5. BackupFollowsHashes
  BY <1>1 DEF BackendsInit, BackupFollowsHashes
<1> QED BY <1>2, <1>4, <1>5 DEF BackendsHold, CopiesFollow

LEMMA BackendIs ==
  ASSUME BackendsHold
  PROVE  /\ mem \in Stores /\ DOMAIN vec \subseteq Keys /\ writes \in Nat
         /\ remote.entries \in Partial(SUBSET Facts)
         /\ InStep(strayed, DOMAIN vec, Listed(mem)) /\ BackupFollowsHashes
         /\ Listed(mem) \subseteq Keys
<1>1. mem \in Stores
  BY DEF BackendsHold, BackendTypes
<1>2. Listed(mem) \subseteq Keys
  BY <1>1, WithIndexIs, StoreIs DEF Listed
<1> QED BY <1>1, <1>2, InStepIs DEF BackendsHold, BackendTypes, CopiesFollow

\* A step that leaves the backups alone and keeps the vectors in step.
LEMMA VectorStepKept ==
  ASSUME BackendsHold, mem' \in Stores, DOMAIN vec' \subseteq Keys, writes' \in Nat,
         remote'.entries \in Partial(SUBSET Facts), UNCHANGED <<hashes, backup, unsaved>>,
         InStep(strayed', DOMAIN vec', Listed(mem'))
  PROVE  BackendsHold'
<1>1. BackendTypes'
  BY DEF BackendTypes
<1>2. VectorsFollowIndex'
  BY DEF VectorsFollowIndex, InStep, Listed
<1>3. BackupFollowsHashes'
  BY BackendIs DEF BackupFollowsHashes
<1> QED BY <1>1, <1>2, <1>3 DEF BackendsHold, CopiesFollow

LEMMA FactIsNew == ASSUME BackendsHold, NewFact PROVE Fact \in Facts /\ writes' \in Nat
BY BackendIs, MemoryBackendsAssumption DEF NewFact, Fact

LEMMA EmbeddedIs ==
  ASSUME NEW v, NEW s, NEW K
  PROVE  DOMAIN Updated(v, Embedded(s, K)) = K \cup DOMAIN v
BY DEF Updated, Embedded

LEMMA BackendWriteKept ==
  ASSUME BackendsHold, NEW x \in Keys, BackendWrite(x)
  PROVE  BackendsHold'
<1>1. /\ NewFact /\ UNCHANGED <<remote, hashes, backup, unsaved>>
      /\ mem' \in {Put(mem, Holding(x, {Fact})), Put(mem, Appended(mem, x, Fact))}
      /\ \/ vec' = Updated(vec, Embedded(mem', {x})) /\ strayed' = strayed \ {x}
         \/ vec' = Updated(vec, Embedded(mem', {x} \ {x})) /\ strayed' = (strayed \ {x}) \cup {x}
  BY DEF BackendWrite, Upserted, UpsertFails, copies
<1>2. Fact \in Facts /\ writes' \in Nat
  BY <1>1, FactIsNew
<1>3. \A new \in {Holding(x, {Fact}), Appended(mem, x, Fact)} :
        new \in Partial(SUBSET Facts) /\ DOMAIN new = {x}
  <2>1. Appended(mem, x, Fact) \in Partial(SUBSET Facts)
    BY <1>2, BackendIs, AppendedIs
  <2>2. DOMAIN Appended(mem, x, Fact) = {x}
    BY DEF Appended, Holding
  <2> QED BY <1>2, <2>1, <2>2, HoldingFact
<1>4. Relists(mem, mem', {}, {x})
  BY <1>1, <1>3, BackendIs, PutRelists
<1>5. \/ DOMAIN vec' = {x} \cup DOMAIN vec /\ strayed' = strayed \ {x}
      \/ DOMAIN vec' = DOMAIN vec /\ strayed' = strayed \cup {x}
  <2>1. DOMAIN Updated(vec, Embedded(mem', {x})) = {x} \cup DOMAIN vec
    BY EmbeddedIs
  <2>2. DOMAIN Updated(vec, Embedded(mem', {x} \ {x})) = ({x} \ {x}) \cup DOMAIN vec
    BY EmbeddedIs
  <2>3. ({x} \ {x}) \cup DOMAIN vec = DOMAIN vec /\ (strayed \ {x}) \cup {x} = strayed \cup {x}
    OBVIOUS
  <2> QED BY <1>1, <2>1, <2>2, <2>3
<1>6. InStep(strayed', DOMAIN vec', Listed(mem'))
  BY <1>4, <1>5, BackendIs DEF Relists, InStep
<1>7. DOMAIN vec' \subseteq Keys
  BY <1>5, BackendIs
<1> QED BY <1>1, <1>2, <1>4, <1>6, <1>7, BackendIs, VectorStepKept DEF Relists

LEMMA BackendDropKept ==
  ASSUME BackendsHold, NEW x \in Keys, BackendDrop(x)
  PROVE  BackendsHold'
<1>1. /\ mem' \in {Delete(mem, x), Archive(mem, {x})} /\ UNCHANGED <<writes, remote, hashes, backup, unsaved>>
      /\ \/ ready /\ vec' = Without(vec, {x}) /\ strayed' = strayed \ {x}
         \/ /\ ~ready /\ vec' = vec
            /\ strayed' = IF x \in DOMAIN vec THEN strayed \cup {x} ELSE strayed
         \/ vec' = vec /\ strayed' = strayed \cup {x}
  BY DEF BackendDrop, Forgotten, copies
<1>2. Relists(mem, mem', {x}, {})
  BY <1>1, BackendIs, DeleteRelists, ArchiveRelists
<1>3. \/ DOMAIN vec' = DOMAIN vec \ {x} /\ strayed' = strayed \ {x}
      \/ DOMAIN vec' = DOMAIN vec /\ strayed' = strayed \cup {x}
      \/ DOMAIN vec' = DOMAIN vec /\ strayed' = strayed /\ x \notin DOMAIN vec
  BY <1>1 DEF Without
<1>4. InStep(strayed', DOMAIN vec', Listed(mem'))
  BY <1>2, <1>3, BackendIs DEF Relists, InStep
<1>5. DOMAIN vec' \subseteq Keys
  BY <1>3, BackendIs
<1> QED BY <1>1, <1>2, <1>4, <1>5, BackendIs, VectorStepKept DEF Relists

LEMMA DirectWriteKept ==
  ASSUME BackendsHold, NEW x \in Keys, DirectWrite(x)
  PROVE  BackendsHold'
<1>1. /\ NewFact /\ mem' = Put(mem, Holding(x, {Fact})) /\ UNCHANGED <<vec, remote, hashes, backup, unsaved>>
      /\ strayed' = IF x \in DOMAIN vec THEN strayed ELSE strayed \cup {x}
  BY DEF DirectWrite, copies
<1>2. Fact \in Facts /\ writes' \in Nat
  BY <1>1, FactIsNew
<1>3. Holding(x, {Fact}) \in Partial(SUBSET Facts) /\ DOMAIN Holding(x, {Fact}) = {x}
  BY <1>2, HoldingFact
<1>4. Relists(mem, mem', {}, {x})
  BY <1>1, <1>3, BackendIs, PutRelists
<1>5. InStep(strayed', DOMAIN vec', Listed(mem'))
  BY <1>1, <1>4, BackendIs DEF Relists, InStep
<1> QED BY <1>1, <1>2, <1>4, <1>5, BackendIs, VectorStepKept DEF Relists

LEMMA DirectArchiveKept ==
  ASSUME BackendsHold, NEW x \in Keys, DirectArchive(x)
  PROVE  BackendsHold'
<1>1. /\ mem' = Archive(mem, {x}) /\ UNCHANGED <<vec, writes, remote, hashes, backup, unsaved>>
      /\ strayed' = IF x \in DOMAIN vec THEN strayed \cup {x} ELSE strayed
  BY DEF DirectArchive, copies
<1>2. Relists(mem, mem', {x}, {})
  BY <1>1, BackendIs, ArchiveRelists
<1>3. InStep(strayed', DOMAIN vec', Listed(mem'))
  BY <1>1, <1>2, BackendIs DEF Relists, InStep
<1> QED BY <1>1, <1>2, <1>3, BackendIs, VectorStepKept DEF Relists

\* What is only read, scored or given an index is listed as before.
LEMMA SameListedKept ==
  ASSUME BackendsHold, Relists(mem, mem', {}, {}), remote'.entries \in Partial(SUBSET Facts),
         UNCHANGED <<vec, strayed, writes, hashes, backup, unsaved>>
  PROVE  BackendsHold'
<1>1. InStep(strayed', DOMAIN vec', Listed(mem'))
  BY BackendIs DEF Relists, InStep
<1> QED BY <1>1, BackendIs, VectorStepKept DEF Relists

LEMMA DirectScoreKept ==
  ASSUME BackendsHold, NEW x \in Keys, DirectScore(x)
  PROVE  BackendsHold'
<1>1. /\ x \in DOMAIN mem.index /\ mem' = SetMeta(mem, x, mem.index[x].tier, 2)
      /\ UNCHANGED <<vec, strayed, writes, remote, hashes, backup, unsaved>>
  BY DEF DirectScore, copies
<1>2. mem.index[x] \in Metas
  BY <1>1, BackendIs, StoreIs, PartialIs
<1>3. mem.index[x].tier \in {"short", "long"}
  BY <1>2 DEF Metas
<1>4. Relists(mem, mem', {}, {})
  BY <1>1, <1>3, BackendIs, SetMetaRelists
<1> QED BY <1>1, <1>4, BackendIs, SameListedKept

\* Every listed entry is embedded, or those of L are not.
LEMMA EmbeddingKept ==
  ASSUME BackendsHold, mem' \in Stores, Listed(mem) \subseteq Listed(mem'),
         NEW L \in SUBSET Listed(mem'),
         vec' = Updated(vec, Embedded(mem', Listed(mem') \ L)),
         strayed' = (strayed \ Listed(mem')) \cup L,
         UNCHANGED <<writes, remote, hashes, backup, unsaved>>
  PROVE  BackendsHold'
<1>1. DOMAIN vec' = (Listed(mem') \ L) \cup DOMAIN vec
  BY EmbeddedIs
<1>2. Listed(mem') \subseteq Keys
  BY WithIndexIs, StoreIs DEF Listed
<1>3. InStep(strayed', DOMAIN vec', Listed(mem'))
  BY <1>1, BackendIs DEF InStep
<1> QED BY <1>1, <1>2, <1>3, BackendIs, VectorStepKept

LEMMA UpsertedIs ==
  ASSUME NEW K, \/ Upserted(mem', K)
                \/ \E L \in SUBSET K \ {{}} : UpsertFails(mem', K, L)
  PROVE  \E L \in SUBSET K : /\ vec' = Updated(vec, Embedded(mem', K \ L))
                             /\ strayed' = (strayed \ K) \cup L
<1>1. CASE Upserted(mem', K)
  <2>1. K \ {} = K /\ (strayed \ K) \cup {} = strayed \ K /\ {} \in SUBSET K
    OBVIOUS
  <2> QED BY <1>1, <2>1 DEF Upserted
<1>2. CASE \E L \in SUBSET K \ {{}} : UpsertFails(mem', K, L)
  BY <1>2 DEF UpsertFails
<1> QED BY <1>1, <1>2

\* A store with an index lists what its index does.
LEMMA OwnIndex ==
  ASSUME NEW s \in Stores
  PROVE  WithIndex(s) \in Stores /\ Listed(WithIndex(s)) = Listed(s) /\ DOMAIN WithIndex(s).index = Listed(s)
BY WithIndexRelists DEF Relists, Listed

LEMMA ReindexKept ==
  ASSUME BackendsHold, Reindex
  PROVE  BackendsHold'
<1>1. /\ mem' = WithIndex(mem) /\ Upserted(mem', DOMAIN mem'.index)
      /\ UNCHANGED <<writes, remote, hashes, backup, unsaved>>
  BY DEF Reindex, copies
<1>2. mem' \in Stores /\ Listed(mem') = Listed(mem) /\ DOMAIN mem'.index = Listed(mem')
  BY <1>1, BackendIs, OwnIndex
<1>3. PICK L \in SUBSET Listed(mem') : /\ vec' = Updated(vec, Embedded(mem', Listed(mem') \ L))
                                       /\ strayed' = (strayed \ Listed(mem')) \cup L
  BY <1>1, <1>2, UpsertedIs
<1> QED BY <1>1, <1>2, <1>3, EmbeddingKept

LEMMA RestoreKept ==
  ASSUME BackendsHold, RestoreFromS3
  PROVE  BackendsHold'
<1> DEFINE t == Restored(mem, remote.entries)
<1>1. /\ mem' = WithIndex(t) /\ UNCHANGED <<writes, remote, hashes, backup, unsaved>>
      /\ \/ Upserted(mem', DOMAIN mem'.index)
         \/ \E L \in SUBSET DOMAIN mem'.index \ {{}} : UpsertFails(mem', DOMAIN mem'.index, L)
  BY DEF RestoreFromS3, RestoreEntries, copies
<1>2. t \in Stores /\ Listed(mem) \subseteq Listed(t)
  <2>1. CASE remote.entries = Nothing
    BY <2>1, BackendIs DEF Restored
  <2>2. CASE remote.entries # Nothing
    BY <2>2, BackendIs, PutRelists DEF Restored, Relists
  <2> QED BY <2>1, <2>2
<1> HIDE DEF t
<1>3. mem' \in Stores /\ Listed(mem') = Listed(t) /\ DOMAIN mem'.index = Listed(mem')
  BY <1>1, <1>2, OwnIndex
<1>4. PICK L \in SUBSET Listed(mem') : /\ vec' = Updated(vec, Embedded(mem', Listed(mem') \ L))
                                       /\ strayed' = (strayed \ Listed(mem')) \cup L
  BY <1>1, <1>3, UpsertedIs
<1> QED BY <1>1, <1>2, <1>3, <1>4, EmbeddingKept

LEMMA RecallKept ==
  ASSUME BackendsHold, NEW task, Recall(task)
  PROVE  BackendsHold'
<1>1. Relists(mem, mem', {}, {})
  BY BackendIs, AccessedRelists DEF Recall
<1> QED BY <1>1, BackendIs, SameListedKept DEF Recall, copies

LEMMA UploadKept ==
  ASSUME BackendsHold, UploadSnapshot
  PROVE  BackendsHold'
<1>1. Relists(mem, mem', {}, {})
  BY BackendIs, AccessedRelists DEF UploadSnapshot
<1>2. remote'.entries \in Partial(SUBSET Facts)
  BY BackendIs, StoreIs DEF UploadSnapshot, Exported
<1> QED BY <1>1, <1>2, SameListedKept DEF UploadSnapshot

\* What changed is uploaded, or its upload failed; the rest is as it was.
LEMMA BackupKept ==
  ASSUME BackendsHold, BackupIncremental
  PROVE  BackendsHold'
<1>1. /\ hashes' = mem.file /\ UNCHANGED <<mem, vec, strayed, remote, writes>>
      /\ \E L \in SUBSET Changed : /\ backup' = BackedUp(Changed \ L)
                                  /\ unsaved' = (unsaved \ Changed) \cup L
  <2>1. Changed \ {} = Changed /\ (unsaved \ Changed) \cup {} = unsaved \ Changed /\ {} \in SUBSET Changed
    OBVIOUS
  <2> QED BY <2>1 DEF BackupIncremental
<1>2. PICK L \in SUBSET Changed : backup' = BackedUp(Changed \ L) /\ unsaved' = (unsaved \ Changed) \cup L
  BY <1>1
<1>3. BackendTypes' /\ VectorsFollowIndex'
  BY <1>1 DEF BackendsHold, BackendTypes, CopiesFollow, VectorsFollowIndex
<1>4. ASSUME NEW x \in DOMAIN hashes', x \notin unsaved'
      PROVE  x \in DOMAIN backup' /\ backup'[x] = hashes'[x]
  <2>1. x \in DOMAIN mem.file /\ x \notin L /\ hashes'[x] = mem.file[x]
    BY <1>1, <1>2, <1>4
  <2>2. CASE x \in Changed
    <3>1. x \in DOMAIN Only(mem.file, Changed \ L) /\ Only(mem.file, Changed \ L)[x] = mem.file[x]
      BY <2>1, <2>2 DEF Only
    <3> QED BY <2>1, <3>1, <1>2 DEF BackedUp, Updated
  <2>3. CASE x \notin Changed
    <3>1. x \in DOMAIN hashes /\ hashes[x] = mem.file[x] /\ x \notin unsaved
      BY <2>1, <2>3, <1>2, <1>4 DEF Changed
    <3>2. x \in DOMAIN backup /\ backup[x] = mem.file[x]
      BY <3>1, BackendIs DEF BackupFollowsHashes
    <3>3. x \notin DOMAIN Only(mem.file, Changed \ L)
      BY <2>3 DEF Only
    <3> QED BY <2>1, <3>2, <3>3, <1>2 DEF BackedUp, Updated
  <2> QED BY <2>2, <2>3
<1>5. BackupFollowsHashes'
  BY <1>4 DEF BackupFollowsHashes
<1> QED BY <1>3, <1>5 DEF BackendsHold, CopiesFollow

LEMMA BackendsKept == BackendsHold /\ [VectorsNext \/ BackupNext]_backendVars => BackendsHold'
<1> SUFFICES ASSUME BackendsHold, [VectorsNext \/ BackupNext]_backendVars PROVE BackendsHold'
  OBVIOUS
<1>1. CASE VectorsNext
  <2>1. CASE Fault /\ BackendsRestart
    <3>1. Relists(mem, mem', {}, {})
      BY <2>1, BackendIs DEF BackendsRestart, Relists
    <3> QED BY <2>1, <3>1, BackendIs, SameListedKept DEF BackendsRestart, copies
  <2> QED BY <1>1, <2>1, BackendWriteKept, BackendDropKept, DirectWriteKept, DirectArchiveKept,
             DirectScoreKept, ReindexKept, RecallKept, UploadKept, RestoreKept DEF VectorsNext
<1>2. CASE BackupNext
  BY <1>2, DirectWriteKept, DirectArchiveKept, BackupKept DEF BackupNext
<1>3. CASE UNCHANGED backendVars
  <2>1. Relists(mem, mem', {}, {})
    BY <1>3, BackendIs DEF backendVars, Relists
  <2> QED BY <1>3, <2>1, BackendIs, SameListedKept DEF backendVars
<1> QED BY <1>1, <1>2, <1>3

\* Whatever is written to a team's memory by its backend or past it, archived,
\* scored, restored and restarted, and whichever calls fail: a key has a vector
\* exactly if the index lists it, and what counts as backed up is, but for the
\* keys a named cause left behind.
THEOREM CopiesKeepFollowing == BackendsSpec => []CopiesFollow
<1>1. BackendsHold => CopiesFollow
  BY DEF BackendsHold
<1> QED BY <1>1, BackendsStart, BackendsKept, PTL DEF BackendsSpec
-----------------------------------------------------------------------------
(* What a Pi is given of its memory. *)

\* A loop over the numbers up to N, and that it has a result.
Loops(f, V, v, N, step) ==
  f \in [0..N -> V] /\ f[0] = v /\ \A n \in 1..N : f[n] = step[<<f[n - 1], n>>]

LEMMA LoopExists ==
  ASSUME NEW V, NEW v \in V, NEW N \in Nat, NEW step \in [V \X (1..N) -> V]
  PROVE  \E f : Loops(f, V, v, N, step)
<1> DEFINE Goes(f, m) == \A n \in 0..m : f[n] = IF n = 0 THEN v ELSE step[<<f[n - 1], n>>]
           T == {m \in Nat : m <= N => \E f \in [0..m -> V] : Goes(f, m)}
<1>1. 0 \in T
  <2>1. [n \in 0..0 |-> v] \in [0..0 -> V] /\ Goes([n \in 0..0 |-> v], 0)
    OBVIOUS
  <2> QED BY <2>1
<1>2. ASSUME NEW m \in T PROVE m + 1 \in T
  <2> SUFFICES ASSUME m + 1 <= N PROVE \E f \in [0..(m + 1) -> V] : Goes(f, m + 1)
    OBVIOUS
  <2>1. PICK f \in [0..m -> V] : Goes(f, m)
    OBVIOUS
  <2> DEFINE w == step[<<f[m], m + 1>>]
             g == [n \in 0..(m + 1) |-> IF n <= m THEN f[n] ELSE w]
  <2>2. f[m] \in V /\ m + 1 \in 1..N
    OBVIOUS
  <2>3. <<f[m], m + 1>> \in V \X (1..N)
    BY <2>2
  <2>4. w \in V
    BY <2>3
  <2> HIDE DEF w
  <2>5. g \in [0..(m + 1) -> V]
    BY <2>4
  <2>6. \A n \in 0..m : g[n] = f[n]
    OBVIOUS
  <2>7. g[m + 1] = w
    OBVIOUS
  <2>8. ASSUME NEW n \in 0..(m + 1)
        PROVE  g[n] = IF n = 0 THEN v ELSE step[<<g[n - 1], n>>]
    <3>1. CASE n \in 0..m
      <4>1. n # 0 => n - 1 \in 0..m
        BY <3>1
      <4> HIDE DEF g
      <4> QED BY <3>1, <4>1, <2>1, <2>6
    <3>2. CASE n = m + 1
      <4>1. n # 0 /\ n - 1 = m /\ m \in 0..m
        BY <3>2
      <4>2. g[n - 1] = f[m]
        BY <4>1, <2>6
      <4> QED BY <3>2, <4>1, <4>2, <2>7 DEF w
    <3> QED BY <3>1, <3>2
  <2> HIDE DEF g
  <2> QED BY <2>5, <2>8
<1> HIDE DEF T
<1>3. N \in T
  BY <1>1, <1>2, EveryNumber DEF T
<1>4. PICK f \in [0..N -> V] : Goes(f, N)
  BY <1>3 DEF T
<1>5. f[0] = v /\ \A n \in 1..N : f[n] = step[<<f[n - 1], n>>]
  <2>1. 0 \in 0..N /\ \A n \in 1..N : n \in 0..N /\ n # 0
    OBVIOUS
  <2> HIDE DEF Goes
  <2>2. \A n \in 0..N : f[n] = IF n = 0 THEN v ELSE step[<<f[n - 1], n>>]
    BY <1>4 DEF Goes
  <2> QED BY <2>1, <2>2
<1> QED BY <1>5 DEF Loops

Snippet == [key : Keys, size : Nat]

\* The running sums of the sizes of a selection.
Sums(f, sel) ==
  /\ f \in [0..Len(sel) -> Nat]
  /\ \A n \in 0..Len(sel) : f[n] = IF n = 0 THEN 0 ELSE f[n - 1] + sel[n].size

LEMMA SizeSums ==
  ASSUME NEW sel \in Seq(Snippet)
  PROVE  \E f : Sums(f, sel) /\ Size(sel) = f[Len(sel)]
<1> DEFINE N == Len(sel)
           step == [x \in Nat \X (1..N) |-> x[1] + sel[x[2]].size]
           sum[n \in 0..N] == IF n = 0 THEN 0 ELSE sum[n - 1] + sel[n].size
<1>1. N \in Nat /\ \A n \in 1..N : sel[n].size \in Nat
  <2>1. N \in Nat /\ \A n \in 1..N : sel[n] \in Snippet
    OBVIOUS
  <2> QED BY <2>1 DEF Snippet
<1>2. step \in [Nat \X (1..N) -> Nat]
  BY <1>1
<1>3. \A a \in Nat, n \in 1..N : step[<<a, n>>] = a + sel[n].size
  OBVIOUS
<1> HIDE DEF step
<1>4. PICK f : Loops(f, Nat, 0, N, step)
  BY <1>1, <1>2, LoopExists
<1>5. ASSUME NEW n \in 0..N PROVE f[n] = IF n = 0 THEN 0 ELSE f[n - 1] + sel[n].size
  <2>1. CASE n = 0
    BY <2>1, <1>4 DEF Loops
  <2>2. CASE n # 0
    <3>1. n \in 1..N /\ n - 1 \in 0..N
      BY <2>2, <1>1
    <3>2. f[n - 1] \in Nat
      BY <3>1, <1>4 DEF Loops
    <3>3. f[n] = step[<<f[n - 1], n>>]
      BY <3>1, <1>4 DEF Loops
    <3> QED BY <2>2, <3>1, <3>2, <3>3, <1>3
  <2> QED BY <2>1, <2>2
<1>6. f = [n \in 0..N |-> IF n = 0 THEN 0 ELSE f[n - 1] + sel[n].size]
  BY <1>4, <1>5 DEF Loops
<1>7. sum = [n \in 0..N |-> IF n = 0 THEN 0 ELSE sum[n - 1] + sel[n].size]
  BY <1>6 DEF sum
<1> HIDE DEF sum
<1>8. \A n \in 0..N : sum[n] = IF n = 0 THEN 0 ELSE sum[n - 1] + sel[n].size
  BY <1>7
<1>9. Size(sel) = sum[N]
  BY DEF Size, sum
<1>10. Sums(sum, sel)
  <2>1. \A n \in 0..N : sum[n] = f[n]
    <3> DEFINE T == {n \in Nat : n <= N => sum[n] = f[n]}
    <3>1. 0 \in T
      BY <1>1, <1>5, <1>8
    <3>2. ASSUME NEW n \in T PROVE n + 1 \in T
      <4> SUFFICES ASSUME n + 1 <= N PROVE sum[n + 1] = f[n + 1]
        OBVIOUS
      <4>1. n \in Nat /\ sum[n] = f[n] /\ n + 1 \in 0..N /\ n + 1 # 0 /\ (n + 1) - 1 = n
        BY <1>1
      <4> QED BY <4>1, <1>5, <1>8
    <3> HIDE DEF T
    <3>3. Nat \subseteq T
      BY <3>1, <3>2, EveryNumber DEF T
    <3> QED BY <3>3, <1>1 DEF T
  <2>2. sum \in [0..N -> Nat]
    BY <2>1, <1>4, <1>7 DEF Loops
  <2> QED BY <2>2, <1>8 DEF Sums
<1> QED BY <1>9, <1>10

\* A snippet more, and the sum is its size more.
LEMMA SizeGrows ==
  ASSUME NEW sel \in Seq(Snippet), NEW e \in Snippet
  PROVE  Size(sel) \in Nat /\ Size(Append(sel, e)) = Size(sel) + e.size
<1> DEFINE N == Len(sel)
           more == Append(sel, e)
<1>1. N \in Nat /\ more \in Seq(Snippet) /\ Len(more) = N + 1 /\ more[N + 1] = e
      /\ \A n \in 1..N : more[n] = sel[n]
  BY AppendProperties
<1> HIDE DEF more
<1>2. PICK f : Sums(f, sel) /\ Size(sel) = f[N]
  BY SizeSums
<1>3. PICK g : Sums(g, more) /\ Size(more) = g[N + 1]
  BY <1>1, SizeSums
<1> DEFINE T == {n \in Nat : n <= N => f[n] = g[n]}
<1>4. 0 \in T
  BY <1>1, <1>2, <1>3 DEF Sums
<1>5. ASSUME NEW n \in T PROVE n + 1 \in T
  <2> SUFFICES ASSUME n + 1 <= N PROVE f[n + 1] = g[n + 1]
    OBVIOUS
  <2>1. /\ n \in Nat /\ f[n] = g[n] /\ n + 1 \in 0..N /\ n + 1 \in 0..Len(more) /\ n + 1 # 0
        /\ (n + 1) - 1 = n /\ more[n + 1] = sel[n + 1]
    BY <1>1
  <2>2. f[n + 1] = f[n] + sel[n + 1].size
    BY <2>1, <1>2 DEF Sums
  <2>3. g[n + 1] = g[n] + more[n + 1].size
    BY <2>1, <1>3 DEF Sums
  <2> QED BY <2>1, <2>2, <2>3
<1> HIDE DEF T
<1>6. f[N] = g[N]
  <2>1. N \in T
    BY <1>1, <1>4, <1>5, EveryNumber DEF T
  <2> QED BY <2>1, <1>1 DEF T
<1>7. f[N] \in Nat
  BY <1>1, <1>2 DEF Sums
<1>8. g[N + 1] = g[N] + more[N + 1].size
  <2>1. N + 1 \in 0..Len(more) /\ N + 1 # 0 /\ (N + 1) - 1 = N
    BY <1>1
  <2> QED BY <2>1, <1>3 DEF Sums
<1> QED BY <1>1, <1>2, <1>3, <1>6, <1>7, <1>8 DEF more

LEMMA NoSize == Size(<< >>) = 0
<1>1. << >> \in Seq(Snippet) /\ Len(<< >>) = 0
  OBVIOUS
<1>2. PICK f : Sums(f, << >>) /\ Size(<< >>) = f[Len(<< >>)]
  BY <1>1, SizeSums
<1> QED BY <1>1, <1>2 DEF Sums

\* What the loop over the candidates has put together.
Accs == [sel : Seq(Snippet), used : Nat, read : SUBSET Keys, done : BOOLEAN]

\* After n of the ranked candidates it fits.
Fits(acc, ranked, n) ==
  /\ acc.used <= Budget /\ Size(acc.sel) = acc.used
  /\ Len(acc.sel) <= Limit /\ (~acc.done => Len(acc.sel) < Limit)
  /\ \A i \in DOMAIN acc.sel : \E j \in 1..n : acc.sel[i].key = ranked[j].key
  /\ \A i, j \in DOMAIN acc.sel : acc.sel[i].key = acc.sel[j].key => i = j

\* What Taken makes of what there is: nothing more, a snippet of some size, or the end.
TakenOf(acc, c, u) ==
  /\ u.read \in {acc.read, acc.read \cup {c.key}}
  /\ \/ u.sel = acc.sel /\ u.used = acc.used /\ (acc.done => u.done)
     \/ \E n \in Nat : /\ ~acc.done /\ n <= Budget - acc.used
                       /\ u.sel = Append(acc.sel, [key |-> c.key, size |-> n])
                       /\ u.used = acc.used + n
                       /\ u.done = (Len(acc.sel) + 1 >= Limit)

LEMMA TakenIs ==
  ASSUME NEW s, NEW acc \in Accs, NEW c, c.key \in Keys, SnippetLen(s, c) \in Nat
  PROVE  Taken(s, acc, c) \in Accs /\ TakenOf(acc, c, Taken(s, acc, c))
<1> DEFINE len == SnippetLen(s, c)
           size == Overhead[c.key] + len
           left == Budget - acc.used
           noted == IF c.summary \/ acc.done THEN acc ELSE [acc EXCEPT !.read = @ \cup {c.key}]
           put(n) == [noted EXCEPT !.sel = Append(@, [key |-> c.key, size |-> n]), !.used = @ + n,
                                  !.done = Len(acc.sel) + 1 >= Limit]
<1>1. /\ acc.sel \in Seq(Snippet) /\ acc.used \in Nat /\ acc.read \in SUBSET Keys
      /\ acc.done \in BOOLEAN
  BY DEF Accs
<1>2. Budget \in Nat /\ Limit \in Nat /\ MinLeft \in Nat /\ Overhead[c.key] \in Nat
  BY MemorySearchAssumption
<1>3. /\ noted \in Accs /\ noted.sel = acc.sel /\ noted.used = acc.used /\ noted.done = acc.done
      /\ noted.read \in {acc.read, acc.read \cup {c.key}}
  BY DEF Accs
<1> HIDE DEF noted
<1>4. ASSUME NEW n \in Nat, n <= left, ~acc.done
      PROVE  put(n) \in Accs /\ TakenOf(acc, c, put(n))
  <2> DEFINE e == [key |-> c.key, size |-> n]
             b == (Len(acc.sel) + 1 >= Limit)
  <2>1. e \in Snippet
    BY <1>4 DEF Snippet
  <2>2. Append(acc.sel, e) \in Seq(Snippet)
    BY <1>1, <2>1, AppendProperties
  <2>3. acc.used + n \in Nat /\ b \in BOOLEAN
    BY <1>1, <1>4
  <2> HIDE DEF e, b
  <2> DEFINE u1 == [noted EXCEPT !.sel = Append(acc.sel, e)]
             u2 == [u1 EXCEPT !.used = acc.used + n]
             u3 == [u2 EXCEPT !.done = b]
  <2>4. put(n) = u3
    BY <1>3 DEF e, b
  <2>5. u1 \in Accs /\ u1.sel = Append(acc.sel, e) /\ u1.read = noted.read
    BY <1>3, <2>2 DEF Accs
  <2> HIDE DEF u1
  <2>6. u2 \in Accs /\ u2.sel = u1.sel /\ u2.read = u1.read /\ u2.used = acc.used + n
    BY <2>3, <2>5 DEF Accs
  <2> HIDE DEF u2
  <2>7. u3 \in Accs /\ u3.sel = u2.sel /\ u3.read = u2.read /\ u3.used = u2.used /\ u3.done = b
    BY <2>3, <2>6 DEF Accs
  <2> HIDE DEF u3
  <2> QED BY <1>3, <1>4, <2>4, <2>5, <2>6, <2>7 DEF TakenOf, e, b
<1>5. noted \in Accs /\ TakenOf(acc, c, noted)
  BY <1>3 DEF TakenOf
<1>6. [noted EXCEPT !.done = TRUE] \in Accs /\ TakenOf(acc, c, [noted EXCEPT !.done = TRUE])
  BY <1>3 DEF TakenOf, Accs
<1> DEFINE whole == put(size)
           cut == put(left)
<1>7. Taken(s, acc, c) =
        IF acc.done \/ len = 0 THEN noted
        ELSE IF size <= left THEN whole
        ELSE IF acc.sel = << >> /\ left >= MinLeft /\ left > Overhead[c.key] THEN cut
        ELSE [noted EXCEPT !.done = TRUE]
  BY DEF Taken, noted
<1>8. size \in Nat /\ left \in Int
  BY <1>1, <1>2
<1>20. len \in Nat
  OBVIOUS
<1>21. acc.done \in BOOLEAN
  BY <1>1
<1> HIDE DEF size, left, len, put, whole, cut
<1>9. CASE acc.done \/ len = 0
  <2>1. Taken(s, acc, c) = noted
    BY <1>7, <1>9, <1>20, <1>21
  <2> QED BY <2>1, <1>5
<1>10. CASE ~(acc.done \/ len = 0) /\ size <= left
  <2>1. Taken(s, acc, c) = whole
    BY <1>7, <1>10
  <2> QED BY <2>1, <1>4, <1>8, <1>10 DEF whole
<1>11. CASE ~(acc.done \/ len = 0) /\ ~(size <= left) /\ left >= MinLeft /\ acc.sel = << >>
            /\ left > Overhead[c.key]
  <2>1. Taken(s, acc, c) = cut
    BY <1>7, <1>11
  <2>2. left \in Nat /\ left <= left
    BY <1>2, <1>8, <1>11
  <2> QED BY <2>1, <2>2, <1>4, <1>11 DEF cut
<1>12. CASE ~(acc.done \/ len = 0) /\ ~(size <= left)
            /\ ~(acc.sel = << >> /\ left >= MinLeft /\ left > Overhead[c.key])
  <2>1. Taken(s, acc, c) = [noted EXCEPT !.done = TRUE]
    BY <1>7, <1>12
  <2> QED BY <2>1, <1>6
<1> QED BY <1>9, <1>10, <1>11, <1>12

\* Fitting is kept from one candidate to the next.
LEMMA TakenFits ==
  ASSUME NEW acc \in Accs, NEW ranked, NEW n \in Nat, Fits(acc, ranked, n),
         ranked[n + 1].key \in Keys,
         \A i \in 1..n : ranked[i].key # ranked[n + 1].key,
         NEW u \in Accs, TakenOf(acc, ranked[n + 1], u)
  PROVE  Fits(u, ranked, n + 1)
<1> DEFINE c == ranked[n + 1]
<1>1. /\ acc.sel \in Seq(Snippet) /\ acc.used \in Nat /\ u.sel \in Seq(Snippet) /\ u.used \in Nat
      /\ Budget \in Nat /\ Limit \in Nat
  BY MemorySearchAssumption DEF Accs
<1>2. CASE u.sel = acc.sel /\ u.used = acc.used /\ (acc.done => u.done)
  BY <1>1, <1>2 DEF Fits
<1>3. ASSUME NEW m \in Nat, ~acc.done, m <= Budget - acc.used,
             u.sel = Append(acc.sel, [key |-> c.key, size |-> m]),
             u.used = acc.used + m, u.done = (Len(acc.sel) + 1 >= Limit)
      PROVE  Fits(u, ranked, n + 1)
  <2> DEFINE e == [key |-> c.key, size |-> m]
             L == Len(acc.sel)
  <2>1. e \in Snippet /\ e.key = c.key /\ e.size = m
    BY <1>3 DEF Snippet
  <2> HIDE DEF e
  <2>2. u.sel = Append(acc.sel, e)
    BY <1>3 DEF e
  <2>3. /\ L \in Nat /\ Len(u.sel) = L + 1 /\ u.sel[L + 1] = e
        /\ \A i \in 1..L : u.sel[i] = acc.sel[i]
    BY <1>1, <2>1, <2>2, AppendProperties
  <2>4. DOMAIN acc.sel = 1..L /\ DOMAIN u.sel = 1..(L + 1)
    BY <1>1, <2>3
  <2>5. u.used <= Budget /\ Size(u.sel) = u.used
    <3>1. Size(u.sel) = Size(acc.sel) + m
      BY <1>1, <2>1, <2>2, SizeGrows
    <3> QED BY <3>1, <1>1, <1>3 DEF Fits
  <2>6. Len(u.sel) <= Limit /\ (~u.done => Len(u.sel) < Limit)
    <3>1. L < Limit
      BY <1>3 DEF Fits
    <3>2. ~u.done => ~(L + 1 >= Limit)
      BY <1>3
    <3>3. L + 1 <= Limit /\ (~(L + 1 >= Limit) => L + 1 < Limit)
      BY <3>1, <2>3, <1>1
    <3> HIDE DEF L
    <3> QED BY <3>2, <3>3, <2>3
  <2>7. \A i \in 1..L : \E j \in 1..n : u.sel[i].key = ranked[j].key
    BY <2>3, <2>4 DEF Fits
  <2>8. u.sel[L + 1].key = ranked[n + 1].key
    BY <2>1, <2>3
  <2>9. \A i \in DOMAIN u.sel : \E j \in 1..(n + 1) : u.sel[i].key = ranked[j].key
    <3> TAKE i \in DOMAIN u.sel
    <3>1. CASE i \in 1..L
      BY <3>1, <2>7
    <3>2. CASE i = L + 1
      BY <3>2, <2>8
    <3> QED BY <3>1, <3>2, <2>3, <2>4
  <2>10. ASSUME NEW i \in DOMAIN u.sel, NEW j \in DOMAIN u.sel, u.sel[i].key = u.sel[j].key
         PROVE  i = j
    <3>1. CASE i \in 1..L /\ j \in 1..L
      BY <3>1, <2>3, <2>4, <2>10 DEF Fits
    <3>2. CASE i = L + 1 /\ j = L + 1
      BY <3>2
    <3>3. ASSUME NEW a \in 1..L PROVE u.sel[a].key # u.sel[L + 1].key
      <4>1. PICK l \in 1..n : u.sel[a].key = ranked[l].key
        BY <2>7
      <4>2. ranked[l].key # ranked[n + 1].key
        OBVIOUS
      <4> QED BY <4>1, <4>2, <2>8
    <3>4. ~(i \in 1..L /\ j = L + 1) /\ ~(i = L + 1 /\ j \in 1..L)
      BY <3>3, <2>10
    <3>5. (i \in 1..L \/ i = L + 1) /\ (j \in 1..L \/ j = L + 1)
      BY <2>3, <2>4
    <3> QED BY <3>1, <3>2, <3>4, <3>5
  <2> QED BY <2>5, <2>6, <2>9, <2>10 DEF Fits
<1> QED BY <1>2, <1>3 DEF TakenOf

\* The start of the loop, as a record of these.
LEMMA StartFits ==
  ASSUME NEW ranked
  PROVE  LET start == [sel |-> << >>, used |-> 0, read |-> {}, done |-> FALSE]
         IN  start \in Accs /\ Fits(start, ranked, 0)
<1> DEFINE start == [sel |-> << >>, used |-> 0, read |-> {}, done |-> FALSE]
<1>1. start \in Accs
  BY DEF Accs
<1>2. Fits(start, ranked, 0)
  BY NoSize, MemorySearchAssumption DEF Fits
<1> QED BY <1>1, <1>2

\* Whatever is found, in whatever order it is ranked, what the loop puts together fits.
LEMMA ChosenFits ==
  ASSUME NEW s, NEW ranked, NEW C, ranked \in Seq(C),
         \A c \in C : c.key \in Keys /\ SnippetLen(s, c) \in Nat,
         \A i, j \in DOMAIN ranked : ranked[i].key = ranked[j].key => i = j
  PROVE  Chosen(s, ranked) \in Accs /\ Fits(Chosen(s, ranked), ranked, Len(ranked))
<1> DEFINE N == Len(ranked)
           start == [sel |-> << >>, used |-> 0, read |-> {}, done |-> FALSE]
           step == [x \in Accs \X (1..N) |-> Taken(s, x[1], ranked[x[2]])]
<1>1. N \in Nat /\ DOMAIN ranked = 1..N
      /\ \A n \in 1..N : ranked[n] \in C
  OBVIOUS
<1>2. \A n \in 1..N : ranked[n].key \in Keys /\ SnippetLen(s, ranked[n]) \in Nat
  BY <1>1
<1>3. start \in Accs /\ Fits(start, ranked, 0)
  BY StartFits
<1> HIDE DEF start
<1>4. \A a \in Accs, n \in 1..N :
        Taken(s, a, ranked[n]) \in Accs /\ TakenOf(a, ranked[n], Taken(s, a, ranked[n]))
  BY <1>2, TakenIs
<1>5. step \in [Accs \X (1..N) -> Accs] /\ \A a \in Accs, n \in 1..N : step[<<a, n>>] = Taken(s, a, ranked[n])
  BY <1>4
<1> HIDE DEF step
<1>6. PICK f : Loops(f, Accs, start, N, step)
  BY <1>1, <1>3, <1>5, LoopExists
<1>7. ASSUME NEW n \in 0..N
      PROVE  f[n] = IF n = 0 THEN start ELSE Taken(s, f[n - 1], ranked[n])
  <2>1. CASE n = 0
    BY <2>1, <1>6 DEF Loops
  <2>2. CASE n # 0
    <3>1. n \in 1..N /\ n - 1 \in 0..N
      BY <2>2, <1>1
    <3>2. f[n - 1] \in Accs
      BY <3>1, <1>6 DEF Loops
    <3>3. f[n] = step[<<f[n - 1], n>>]
      BY <3>1, <1>6 DEF Loops
    <3> QED BY <2>2, <3>1, <3>2, <3>3, <1>5
  <2> QED BY <2>1, <2>2
<1>8. f = [n \in 0..N |-> IF n = 0 THEN start ELSE Taken(s, f[n - 1], ranked[n])]
  BY <1>6, <1>7 DEF Loops
<1> DEFINE loop[n \in 0..N] == IF n = 0 THEN start ELSE Taken(s, loop[n - 1], ranked[n])
<1>9. loop = [n \in 0..N |-> IF n = 0 THEN start ELSE Taken(s, loop[n - 1], ranked[n])]
  BY <1>8 DEF loop
<1>10. Chosen(s, ranked) = loop[N]
  BY DEF Chosen, loop, start
<1> HIDE DEF loop
<1>11. \A n \in 0..N : loop[n] = IF n = 0 THEN start ELSE Taken(s, loop[n - 1], ranked[n])
  BY <1>9
<1> DEFINE T == {n \in Nat : n <= N => loop[n] \in Accs /\ Fits(loop[n], ranked, n)}
<1>12. 0 \in T
  BY <1>1, <1>3, <1>11
<1>13. ASSUME NEW n \in T PROVE n + 1 \in T
  <2> SUFFICES ASSUME n + 1 <= N PROVE loop[n + 1] \in Accs /\ Fits(loop[n + 1], ranked, n + 1)
    OBVIOUS
  <2>1. /\ n \in Nat /\ loop[n] \in Accs /\ Fits(loop[n], ranked, n)
        /\ n + 1 \in 0..N /\ n + 1 \in 1..N /\ n + 1 # 0 /\ (n + 1) - 1 = n
    BY <1>1
  <2>2. loop[n + 1] = Taken(s, loop[n], ranked[n + 1])
    BY <2>1, <1>11
  <2>3. \A i \in 1..n : ranked[i].key # ranked[n + 1].key
    BY <2>1, <1>1
  <2> QED BY <2>1, <2>2, <2>3, <1>2, <1>4, TakenFits
<1> HIDE DEF T
<1>14. N \in T
  BY <1>1, <1>12, <1>13, EveryNumber DEF T
<1> QED BY <1>1, <1>10, <1>14 DEF T

-----------------------------------------------------------------------------
(* The candidates. *)

LEMMA HitKeys ==
  ASSUME NEW s \in Stores, NEW query, NEW requested, NEW semantic,
         DOMAIN vec \subseteq Keys
  PROVE  \A h \in Search(s, vec, query, requested, semantic, FALSE) : h.key \in Keys
<1>1. WithIndex(s) \in Stores
  BY WithIndexIs
<1> DEFINE entries == WithIndex(s).index
<1>2. DOMAIN entries \subseteq Keys
  <2>1. entries \in Partial(Metas)
    BY <1>1 DEF Stores
  <2> QED BY <2>1, PartialIs
<1> HIDE DEF entries
<1>3. \A h \in ExactHits(s, query, FALSE) : h.key \in Keys
  <2> SUFFICES ASSUME NEW h \in ExactHits(s, query, FALSE) PROVE h.key \in Keys
    OBVIOUS
  <2>1. \E x \in DOMAIN entries : \E a, b, d, e : h = Hit(x, a, b, d, e)
    BY DEF ExactHits, entries
  <2> QED BY <2>1, <1>2 DEF Hit
<1>4. \A h \in SemanticHits(vec, query) : h.key \in Keys
  <2> SUFFICES ASSUME NEW h \in SemanticHits(vec, query) PROVE h.key \in Keys
    OBVIOUS
  <2>1. PICK x \in DOMAIN vec :
          h = Hit(x, "active", Similar(query, x), "semantic", [imp |-> vec[x]])
    BY DEF SemanticHits
  <2>2. h.key = x
    BY <2>1 DEF Hit
  <2> QED BY <2>2
<1> QED BY <1>3, <1>4 DEF Search

LEMMA CandidatesAre ==
  ASSUME NEW s \in Stores, NEW task, NEW semantic, DOMAIN vec \subseteq Keys
  PROVE  /\ \A c \in Candidates(s, vec, task, semantic) : c.key \in Keys
         /\ \A c, d \in Candidates(s, vec, task, semantic) : c.key = d.key => c = d
         /\ IsFiniteSet(Candidates(s, vec, task, semantic))
<1> DEFINE cands == Candidates(s, vec, task, semantic)
           whole == Search(s, vec, task, "auto", semantic, FALSE)
           byWord == [w \in ToSet(task) |-> Search(s, vec, <<w>>, "exact", semantic, FALSE)]
           all == whole \cup UNION {byWord[w] : w \in ToSet(task)}
           found == {h.key : h \in all}
<1>1. \A h \in whole : h.key \in Keys
  BY HitKeys
<1>2. \A w \in ToSet(task) : \A h \in byWord[w] : h.key \in Keys
  BY HitKeys
<1> HIDE DEF whole, byWord
<1>3. found \subseteq Keys
  BY <1>1, <1>2
<1>4. \E f : cands = {f[x] : x \in found} /\ \A x \in found : f[x].key = x
  <2> DEFINE of(x) == {h \in all : h.key = x}
             best(x) == CHOOSE h \in of(x) :
                          \A g \in of(x) \ {h} :
                            \/ h.score > g.score
                            \/ h.score = g.score /\ (g \in whole => h \in whole)
             cand(x) == [key |-> x, score |-> best(x).score, mode |-> best(x).mode,
                         summary |-> \E h \in of(x) : h.summary,
                         words |-> Cardinality({w \in ToSet(task) : \E h \in byWord[w] : h.key = x})]
             f == [x \in found |-> cand(x)]
  <2>1. cands = {cand(x) : x \in found}
    BY DEF Candidates, whole, byWord
  <2>2. \A x \in found : cand(x).key = x
    OBVIOUS
  <2> HIDE DEF cand
  <2>3. cands = {f[x] : x \in found} /\ \A x \in found : f[x].key = x
    BY <2>1, <2>2
  <2> QED BY <2>3
<1> HIDE DEF cands, found
<1>5. PICK f : cands = {f[x] : x \in found} /\ \A x \in found : f[x].key = x
  BY <1>4
<1>6. \A c \in cands : c.key \in found /\ c = f[c.key]
  BY <1>5
<1>7. IsFiniteSet(found)
  BY <1>3, MemorySearchAssumption, FS_Subset
<1> DEFINE g == [c \in cands |-> c.key]
<1>8. g \in [cands -> found] /\ \A c, d \in cands : g[c] = g[d] => c = d
  BY <1>6
<1>9. g \in Injection(cands, found)
  BY <1>8 DEF Injection, IsInjective
<1>10. IsFiniteSet(cands)
  BY <1>7, <1>9, FS_Injection
<1> QED BY <1>3, <1>6, <1>10 DEF cands

LEMMA SnippetLenIs ==
  ASSUME NEW s \in Stores, NEW c, c.key \in Keys
  PROVE  SnippetLen(s, c) \in Nat
<1>1. SummaryLen \in Nat /\ FactLen \in Nat
  BY MemorySearchAssumption
<1>2. ASSUME c.key \in DOMAIN s.file PROVE Cardinality(s.file[c.key]) \in Nat
  <2> DEFINE S == SUBSET Facts
  <2>1. s.file \in Partial(S)
    BY DEF Stores
  <2> HIDE DEF S
  <2>2. s.file[c.key] \in S
    BY <2>1, <1>2, PartialIs
  <2>3. IsFiniteSet(Facts)
    BY MemoryBackendsAssumption, FS_Interval
  <2> QED BY <2>2, <2>3, FS_Subset, FS_CardinalityType DEF S
<1> QED BY <1>1, <1>2 DEF SnippetLen

LEMMA BackendsFit == BackendTypes => RecallFits
<1> SUFFICES ASSUME BackendTypes, NEW task \in Tasks, NEW semantic \in BOOLEAN,
                    NEW recall \in Retrievals(mem, vec, task, semantic)
             PROVE  /\ Size(recall.sel) = recall.used /\ recall.used <= Budget
                    /\ Len(recall.sel) <= Limit
                    /\ \A i, j \in 1..Len(recall.sel) :
                         recall.sel[i].key = recall.sel[j].key => i = j
  BY DEF RecallFits
<1> DEFINE C == Candidates(mem, vec, task, semantic)
<1>1. mem \in Stores /\ DOMAIN vec \subseteq Keys
  BY DEF BackendTypes
<1>2. PICK ranked \in Rankings(C) : recall = Chosen(mem, ranked)
  BY DEF Retrievals
<1>3. (\A c \in C : c.key \in Keys) /\ (\A c, d \in C : c.key = d.key => c = d) /\ IsFiniteSet(C)
  BY <1>1, CandidatesAre
<1> HIDE DEF C
<1>4. Cardinality(C) \in Nat /\ ranked \in [1..Cardinality(C) -> C] /\ IsInjective(ranked)
  BY <1>2, <1>3, FS_CardinalityType DEF Rankings
<1>5. ranked \in Seq(C)
  BY <1>4
<1>6. \A i, j \in DOMAIN ranked : ranked[i].key = ranked[j].key => i = j
  BY <1>3, <1>4 DEF IsInjective
<1>7. \A c \in C : c.key \in Keys /\ SnippetLen(mem, c) \in Nat
  BY <1>1, <1>3, SnippetLenIs
<1>8. recall \in Accs /\ Fits(recall, ranked, Len(ranked))
  BY <1>2, <1>5, <1>6, <1>7, ChosenFits
<1>9. DOMAIN recall.sel = 1..Len(recall.sel)
  BY <1>8 DEF Accs
<1> QED BY <1>8, <1>9 DEF Fits

\* Whatever is stored, found and ranked, and however stale the vectors are: what
\* a Pi is given of its memory fits its prompt, and names no entry twice.
THEOREM RecallStaysInBudget == BackendsSpec => []RecallFits
<1>1. BackendsHold => RecallFits
  BY BackendsFit DEF BackendsHold
<1> QED BY <1>1, BackendsStart, BackendsKept, PTL DEF BackendsSpec
-----------------------------------------------------------------------------
(* The canaries. *)

CanarySpec == CanaryInit /\ [][CanaryNext]_canaryVars

Stages == {"canary_running", "canary_passed", "canary_failed", "promoting", "promoted", "rolled_back"}
Snapshots == [any : BOOLEAN, entries : Partial(SUBSET Facts)]
Trials == [stage : Stages, checks : Seq(BOOLEAN), snap : Snapshots]
TrialLists == UNION {[D -> Trials] : D \in SUBSET Deployments}

CanaryTypes ==
  /\ ceo \in Stores /\ deployments \in TrialLists /\ saved \in TrialLists
  /\ caWrites \in Nat

\* The saved list may lag behind the one in memory, but has no other rollbacks.
SavedLags ==
  \A d \in DOMAIN saved : /\ d \in DOMAIN deployments
                          /\ saved[d].stage = "rolled_back" => deployments[d].stage = "rolled_back"

\* The inductive invariant.
CanaryHolds == CanaryTypes /\ SavedLags /\ AnnouncedStaysPromoted

LEMMA TrialListIs ==
  ASSUME NEW l \in TrialLists
  PROVE  DOMAIN l \in SUBSET Deployments /\ l \in [DOMAIN l -> Trials] /\ \A d \in DOMAIN l : l[d] \in Trials
<1>1. PICK D \in SUBSET Deployments : l \in [D -> Trials]
  BY DEF TrialLists
<1> QED BY <1>1

\* A trial at another stage.
LEMMA AtIs ==
  ASSUME CanaryTypes, NEW d \in DOMAIN deployments, NEW stage \in Stages
  PROVE  /\ At(d, stage) \in TrialLists /\ DOMAIN At(d, stage) = DOMAIN deployments
         /\ At(d, stage)[d].stage = stage
         /\ \A e \in DOMAIN deployments \ {d} : At(d, stage)[e] = deployments[e]
<1>1. deployments \in [DOMAIN deployments -> Trials] /\ DOMAIN deployments \in SUBSET Deployments
  BY TrialListIs DEF CanaryTypes
<1>2. [deployments[d] EXCEPT !.stage = stage] \in Trials
  BY <1>1 DEF Trials
<1>3. At(d, stage) = [deployments EXCEPT ![d] = [deployments[d] EXCEPT !.stage = stage]]
  BY DEF At
<1>4. At(d, stage) \in [DOMAIN deployments -> Trials]
  BY <1>1, <1>2, <1>3
<1>5. At(d, stage)[d].stage = stage
  BY <1>1, <1>3 DEF Trials
<1> QED BY <1>1, <1>3, <1>4, <1>5 DEF TrialLists

\* The list of a new, healthy or judged trial: nothing that was rolled back or
\* promoted is touched, and nothing is rolled back.
Goes(l, m) ==
  /\ m \in TrialLists /\ DOMAIN l \subseteq DOMAIN m
  /\ \A d \in DOMAIN l :
       \/ m[d].stage = l[d].stage
       \/ l[d].stage \in {"canary_running", "canary_passed"} /\ m[d].stage # "rolled_back"

\* A step that moves trials on, and saves where they are or leaves the saved list.
LEMMA GoingKept ==
  ASSUME CanaryHolds, Goes(deployments, deployments'), saved' = deployments' \/ saved' = saved,
         ceo' \in Stores, caWrites' \in Nat, announced' = announced
  PROVE  CanaryHolds' /\ PutBackInFull
<1>1. CanaryTypes'
  BY DEF CanaryHolds, CanaryTypes, Goes
<1>2. SavedLags'
  BY DEF CanaryHolds, SavedLags, Goes
<1>3. ASSUME NEW d \in announced
      PROVE  /\ d \in DOMAIN deployments' /\ deployments'[d].stage \in {"promoted", "rolled_back"}
             /\ d \in DOMAIN saved' /\ saved'[d].stage \in {"promoted", "rolled_back"}
  <2>1. /\ d \in DOMAIN deployments /\ deployments[d].stage \in {"promoted", "rolled_back"}
        /\ d \in DOMAIN saved /\ saved[d].stage \in {"promoted", "rolled_back"}
    BY DEF CanaryHolds, AnnouncedStaysPromoted
  <2> QED BY <2>1 DEF Goes
<1>4. AnnouncedStaysPromoted'
  BY <1>3 DEF AnnouncedStaysPromoted
<1>5. PutBackInFull
  BY DEF PutBackInFull, Goes
<1> QED BY <1>1, <1>2, <1>4, <1>5 DEF CanaryHolds

LEMMA SameGoes == ASSUME CanaryTypes PROVE Goes(deployments, deployments)
BY DEF Goes, CanaryTypes

LEMMA CanaryStarts == CanaryInit => CanaryHolds
<1> SUFFICES ASSUME CanaryInit PROVE CanaryHolds
  OBVIOUS
<1>1. Nothing \in TrialLists /\ DOMAIN Nothing = {}
  <2>1. DOMAIN Nothing = {}
    BY NothingIs
  <2>2. Nothing \in [{} -> Trials]
    BY <2>1 DEF Nothing
  <2> QED BY <2>1, <2>2 DEF TrialLists
<1> QED BY <1>1, EmptyIs DEF CanaryInit, CanaryHolds, CanaryTypes, SavedLags, AnnouncedStaysPromoted

LEMMA CaFactIs == ASSUME CanaryHolds, NewCaFact PROVE CaFact \in Facts /\ caWrites' \in Nat
<1>1. CaFact \in 1..CaMaxWrites /\ caWrites' \in Nat
  BY CanaryAssumption DEF CanaryHolds, CanaryTypes, NewCaFact, CaFact
<1> QED BY <1>1, CanaryAssumption

LEMMA CeoKept ==
  ASSUME CanaryHolds, \/ \E ok \in BOOLEAN : CeoCycleEnds(ok)
                      \/ \E x \in Keys \ {Results} : CompanyWrites(x)
  PROVE  CanaryHolds' /\ PutBackInFull
<1>1. /\ NewCaFact /\ UNCHANGED <<deployments, saved, announced>>
      /\ \/ ceo' = Put(ceo, Appended(ceo, Results, CaFact))
         \/ \E x \in Keys : ceo' = Put(ceo, Holding(x, {CaFact}))
  BY DEF CeoCycleEnds, CompanyWrites
<1>2. CaFact \in Facts /\ caWrites' \in Nat
  BY <1>1, CaFactIs
<1>3. ceo \in Stores
  BY DEF CanaryHolds, CanaryTypes
<1>4. Appended(ceo, Results, CaFact) \in Partial(SUBSET Facts)
  BY <1>2, <1>3, AppendedIs, CanaryAssumption
<1>5. \A x \in Keys : Holding(x, {CaFact}) \in Partial(SUBSET Facts)
  <2> DEFINE S == SUBSET Facts
  <2>1. {CaFact} \in S
    BY <1>2
  <2> HIDE DEF S
  <2>2. \A x \in Keys : Holding(x, {CaFact}) \in Partial(S)
    BY <2>1, HoldingIs
  <2> QED BY <2>2 DEF S
<1>6. ceo' \in Stores
  BY <1>1, <1>3, <1>4, <1>5, PutIs DEF Takes
<1>7. Goes(deployments, deployments')
  BY <1>1, SameGoes DEF CanaryHolds
<1> QED BY <1>1, <1>2, <1>6, <1>7, GoingKept

LEMMA AccessedIs == ASSUME NEW s \in Stores, NEW K PROVE Accessed(s, K) \in Stores
BY KeepsAccessed DEF Keeps, Saves

LEMMA PersistIs == ASSUME NEW l, Persist(l) PROVE deployments' = l /\ (saved' = deployments' \/ saved' = saved)
BY DEF Persist

LEMMA StartCanaryKept ==
  ASSUME CanaryHolds, NEW d \in Deployments, StartCanary(d)
  PROVE  CanaryHolds' /\ PutBackInFull
<1>1. PICK snap \in {[any |-> TRUE, entries |-> Exported(ceo)], [any |-> FALSE, entries |-> Nothing]} :
        /\ ceo' = IF snap.any THEN Accessed(ceo, DOMAIN ceo.file) ELSE ceo
        /\ Persist(Updated(deployments, Holding(d, [stage |-> "canary_running", checks |-> << >>, snap |-> snap])))
  BY DEF StartCanary
<1>2. d \notin DOMAIN deployments /\ UNCHANGED <<caWrites, announced>>
  BY DEF StartCanary
<1>3. ceo \in Stores /\ caWrites \in Nat
  BY DEF CanaryHolds, CanaryTypes
<1>4. snap \in Snapshots
  <2>1. Exported(ceo) \in Partial(SUBSET Facts)
    BY <1>3, StoreIs DEF Exported
  <2>2. Nothing \in Partial(SUBSET Facts)
    <3> DEFINE F == SUBSET Facts
    <3> HIDE DEF F
    <3>1. Nothing \in Partial(F)
      BY NothingIs
    <3> QED BY <3>1 DEF F
  <2> DEFINE P == Partial(SUBSET Facts)
  <2>3. Exported(ceo) \in P /\ Nothing \in P
    BY <2>1, <2>2
  <2>4. Snapshots = [any : BOOLEAN, entries : P]
    BY DEF Snapshots
  <2>5. snap = [any |-> TRUE, entries |-> Exported(ceo)] \/ snap = [any |-> FALSE, entries |-> Nothing]
    BY <1>1
  <2> HIDE DEF P
  <2>6. \A b \in BOOLEAN, e \in P : [any |-> b, entries |-> e] \in Snapshots
    BY <2>4
  <2> QED BY <2>3, <2>5, <2>6
<1>5. ceo' \in Stores
  BY <1>1, <1>3, AccessedIs
<1> DEFINE new == [stage |-> "canary_running", checks |-> << >>, snap |-> snap]
<1>6. new \in Trials /\ new.stage = "canary_running"
  BY <1>4 DEF Trials, Stages
<1> HIDE DEF new
<1> DEFINE m == Updated(deployments, Holding(d, new))
<1>7. deployments \in [DOMAIN deployments -> Trials] /\ DOMAIN deployments \in SUBSET Deployments
  BY TrialListIs DEF CanaryHolds, CanaryTypes
<1>8. DOMAIN Holding(d, new) = {d} /\ Holding(d, new)[d] = new
  BY DEF Holding
<1>9. /\ m \in [{d} \cup DOMAIN deployments -> Trials] /\ DOMAIN m = {d} \cup DOMAIN deployments
      /\ \A e \in DOMAIN deployments : m[e] = deployments[e]
  BY <1>2, <1>6, <1>7, <1>8 DEF Updated
<1>10. m \in TrialLists
  BY <1>7, <1>9 DEF TrialLists
<1> HIDE DEF m
<1>11. Goes(deployments, m)
  BY <1>9, <1>10 DEF Goes
<1>12. Persist(m)
  BY <1>1 DEF m, new
<1>13. deployments' = m /\ (saved' = deployments' \/ saved' = saved)
  BY <1>12, PersistIs
<1> QED BY <1>2, <1>3, <1>5, <1>11, <1>13, GoingKept

LEMMA CheckHealthKept ==
  ASSUME CanaryHolds, NEW d \in Deployments, CheckHealth(d)
  PROVE  CanaryHolds' /\ PutBackInFull
<1> DEFINE checks == Recent(deployments[d].checks, ~Unhealthy(ceo))
           m == [deployments EXCEPT ![d].checks = checks, ![d].stage = Judged(checks)]
           one == [[deployments[d] EXCEPT !.checks = checks] EXCEPT !.stage = Judged(checks)]
<1>1. /\ d \in DOMAIN deployments /\ deployments[d].stage = "canary_running" /\ Persist(m)
      /\ ceo' = Accessed(ceo, {Results}) /\ UNCHANGED <<caWrites, announced>>
  BY DEF CheckHealth
<1>2. ceo \in Stores /\ caWrites \in Nat
  BY DEF CanaryHolds, CanaryTypes
<1>3. ceo' \in Stores
  BY <1>1, <1>2, AccessedIs
<1>4. deployments \in [DOMAIN deployments -> Trials] /\ DOMAIN deployments \in SUBSET Deployments
  BY TrialListIs DEF CanaryHolds, CanaryTypes
<1>5. checks \in Seq(BOOLEAN)
  <2> DEFINE ok == ~Unhealthy(ceo)
             before == deployments[d].checks
             all == Append(before, ok)
  <2>1. ok \in BOOLEAN
    BY DEF Unhealthy
  <2>2. before \in Seq(BOOLEAN)
    BY <1>1, <1>4 DEF Trials
  <2>3. checks = IF Len(all) <= MinHealthy THEN all ELSE Tail(all)
    BY DEF Recent
  <2> HIDE DEF ok, before
  <2>4. all \in Seq(BOOLEAN) /\ Len(all) = Len(before) + 1 /\ Len(before) \in Nat
    BY <2>1, <2>2, AppendProperties, LenProperties
  <2>5. all # << >>
    BY <2>4
  <2>6. Tail(all) \in Seq(BOOLEAN)
    <3> HIDE DEF all
    <3> QED BY <2>4, <2>5, HeadTailProperties
  <2> QED BY <2>3, <2>4, <2>6
<1>6. Judged(checks) \in {"canary_running", "canary_passed", "canary_failed"}
  BY DEF Judged
<1> HIDE DEF checks
<1>7. one \in Trials /\ one.stage = Judged(checks)
  BY <1>1, <1>4, <1>5, <1>6 DEF Trials, Stages
<1>8. m = [deployments EXCEPT ![d] = one]
  BY <1>1, <1>4
<1> HIDE DEF one, m
<1>9. /\ m \in [DOMAIN deployments -> Trials] /\ DOMAIN m = DOMAIN deployments /\ m[d] = one
      /\ \A e \in DOMAIN deployments \ {d} : m[e] = deployments[e]
  BY <1>1, <1>4, <1>7, <1>8
<1>10. m \in TrialLists
  BY <1>4, <1>9 DEF TrialLists
<1>11. Goes(deployments, m)
  BY <1>1, <1>6, <1>7, <1>9, <1>10 DEF Goes
<1>12. deployments' = m /\ (saved' = deployments' \/ saved' = saved)
  BY <1>1, PersistIs
<1> QED BY <1>1, <1>2, <1>3, <1>11, <1>12, GoingKept

\* Either write of promote may fail; nobody is told before both are done.
LEMMA PromoteKept ==
  ASSUME CanaryHolds, NEW d \in Deployments, Promote(d)
  PROVE  CanaryHolds' /\ PutBackInFull
<1> DEFINE done == At(d, "promoted")
           doing == At(d, "promoting")
<1>1. d \in DOMAIN deployments /\ deployments[d].stage = "canary_passed" /\ UNCHANGED <<ceo, caWrites>>
  BY DEF Promote
<1>2. \/ deployments' = done /\ saved' = deployments' /\ announced' = announced \cup {d}
      \/ deployments' = doing /\ saved' = saved /\ announced' = announced
      \/ deployments' = done /\ saved' = doing /\ announced' = announced
  BY DEF Promote
<1>3. CanaryTypes
  BY DEF CanaryHolds
<1>4. /\ done \in TrialLists /\ DOMAIN done = DOMAIN deployments /\ done[d].stage = "promoted"
      /\ \A e \in DOMAIN deployments \ {d} : done[e] = deployments[e]
  BY <1>1, <1>3, AtIs DEF Stages
<1>5. /\ doing \in TrialLists /\ DOMAIN doing = DOMAIN deployments /\ doing[d].stage = "promoting"
      /\ \A e \in DOMAIN deployments \ {d} : doing[e] = deployments[e]
  BY <1>1, <1>3, AtIs DEF Stages
<1> HIDE DEF done, doing
<1>6. CanaryTypes'
  BY <1>1, <1>2, <1>3, <1>4, <1>5 DEF CanaryTypes
<1>7. SavedLags'
  BY <1>1, <1>2, <1>4, <1>5 DEF CanaryHolds, SavedLags
<1>8. \A e \in announced : /\ e # d /\ e \in DOMAIN deployments /\ e \in DOMAIN saved
                           /\ deployments[e].stage \in {"promoted", "rolled_back"}
                           /\ saved[e].stage \in {"promoted", "rolled_back"}
  BY <1>1 DEF CanaryHolds, AnnouncedStaysPromoted
<1>9. AnnouncedStaysPromoted'
  BY <1>1, <1>2, <1>4, <1>5, <1>8 DEF AnnouncedStaysPromoted
<1>10. PutBackInFull
  BY <1>1, <1>2, <1>4, <1>5 DEF PutBackInFull
<1> QED BY <1>6, <1>7, <1>9, <1>10 DEF CanaryHolds

LEMMA RestoredIs ==
  ASSUME NEW s \in Stores, NEW e \in Partial(SUBSET Facts)
  PROVE  /\ Restored(s, e) \in Stores
         /\ \A x \in DOMAIN e : x \in DOMAIN Restored(s, e).file /\ Restored(s, e).file[x] = e[x]
<1>1. CASE e = Nothing
  BY <1>1, NothingIs DEF Restored
<1>2. CASE e # Nothing
  <2>1. Restored(s, e) \in Stores /\ Restored(s, e).file = Updated(s.file, e)
    BY <1>2, PutIs DEF Restored, Takes
  <2>2. \A x \in DOMAIN e : x \in DOMAIN Updated(s.file, e) /\ Updated(s.file, e)[x] = e[x]
    BY DEF Updated
  <2> QED BY <2>1, <2>2
<1> QED BY <1>1, <1>2

LEMMA RollbackKept ==
  ASSUME CanaryHolds, NEW d \in Deployments, Rollback(d)
  PROVE  CanaryHolds' /\ PutBackInFull
<1> DEFINE entries == deployments[d].snap.entries
           back == At(d, "rolled_back")
<1>1. d \in DOMAIN deployments /\ UNCHANGED <<caWrites, announced>>
  BY DEF Rollback
<1>2. \/ ceo' = Restored(ceo, entries) /\ Persist(back)
      \/ /\ \E S \in SUBSET DOMAIN entries \ {DOMAIN entries} : ceo' = Restored(ceo, Only(entries, S))
         /\ UNCHANGED <<deployments, saved>>
  BY DEF Rollback
<1>3. CanaryTypes /\ ceo \in Stores /\ caWrites \in Nat
  BY DEF CanaryHolds, CanaryTypes
<1>4. entries \in Partial(SUBSET Facts)
  BY <1>1, <1>3, TrialListIs DEF CanaryTypes, Trials, Snapshots
<1>5. /\ back \in TrialLists /\ DOMAIN back = DOMAIN deployments /\ back[d].stage = "rolled_back"
      /\ \A e \in DOMAIN deployments \ {d} : back[e] = deployments[e]
  BY <1>1, <1>3, AtIs DEF Stages
<1> HIDE DEF back
<1>6. CASE ceo' = Restored(ceo, entries) /\ Persist(back)
  <2>1. deployments' = back /\ (saved' = deployments' \/ saved' = saved)
    BY <1>6, PersistIs
  <2>2. /\ ceo' \in Stores
        /\ \A x \in DOMAIN entries : x \in DOMAIN ceo'.file /\ ceo'.file[x] = entries[x]
    <3> HIDE DEF entries
    <3> QED BY <1>3, <1>4, <1>6, RestoredIs
  <2>3. CanaryTypes'
    BY <1>1, <1>3, <1>5, <2>1, <2>2 DEF CanaryTypes
  <2>4. SavedLags'
    BY <1>5, <2>1 DEF CanaryHolds, SavedLags
  <2>5. \A e \in announced : /\ e \in DOMAIN deployments /\ e \in DOMAIN saved
                             /\ deployments[e].stage \in {"promoted", "rolled_back"}
                             /\ saved[e].stage \in {"promoted", "rolled_back"}
    BY DEF CanaryHolds, AnnouncedStaysPromoted
  <2>6. AnnouncedStaysPromoted'
    BY <1>1, <1>5, <2>1, <2>5 DEF AnnouncedStaysPromoted
  <2>7. PutBackInFull
    BY <1>5, <2>1, <2>2 DEF PutBackInFull
  <2> QED BY <2>3, <2>4, <2>6, <2>7 DEF CanaryHolds
<1>7. CASE /\ \E S \in SUBSET DOMAIN entries \ {DOMAIN entries} : ceo' = Restored(ceo, Only(entries, S))
           /\ UNCHANGED <<deployments, saved>>
  <2>1. PICK S : ceo' = Restored(ceo, Only(entries, S))
    BY <1>7
  <2> HIDE DEF entries
  <2>2. Only(entries, S) \in Partial(SUBSET Facts)
    <3> DEFINE F == SUBSET Facts
    <3>1. entries \in Partial(F)
      BY <1>4
    <3> HIDE DEF F
    <3>2. Only(entries, S) \in Partial(F)
      BY <3>1, OnlyIs
    <3> QED BY <3>2 DEF F
  <2>3. ceo' \in Stores
    BY <1>3, <2>1, <2>2, RestoredIs
  <2>4. Goes(deployments, deployments')
    BY <1>3, <1>7, SameGoes
  <2> QED BY <1>1, <1>3, <1>7, <2>3, <2>4, GoingKept
<1> QED BY <1>2, <1>6, <1>7

\* What the next process loads: the list that was saved, or that of a promotion
\* that was cut short.
LEMMA CanaryRestartKept ==
  ASSUME CanaryHolds, CanaryRestart
  PROVE  CanaryHolds' /\ PutBackInFull
<1>1. /\ deployments' = saved' /\ UNCHANGED <<ceo, announced, caWrites>>
      /\ \/ saved' = saved
         \/ \E d \in DOMAIN deployments : \E stage \in {"promoting", "promoted"} :
              deployments[d].stage = "canary_passed" /\ saved' = At(d, stage)
  BY DEF CanaryRestart
<1>2. CanaryTypes /\ ceo \in Stores /\ caWrites \in Nat
  BY DEF CanaryHolds, CanaryTypes
<1>3. CASE saved' = saved
  <2>1. CanaryTypes' /\ SavedLags'
    BY <1>1, <1>3 DEF CanaryHolds, CanaryTypes, SavedLags
  <2>2. AnnouncedStaysPromoted' /\ PutBackInFull
    BY <1>1, <1>3 DEF CanaryHolds, AnnouncedStaysPromoted, PutBackInFull, SavedLags
  <2> QED BY <2>1, <2>2 DEF CanaryHolds
<1>4. CASE \E d \in DOMAIN deployments : \E stage \in {"promoting", "promoted"} :
              deployments[d].stage = "canary_passed" /\ saved' = At(d, stage)
  <2>1. PICK d \in DOMAIN deployments, stage \in {"promoting", "promoted"} :
          deployments[d].stage = "canary_passed" /\ saved' = At(d, stage)
    BY <1>4
  <2>2. stage \in Stages
    BY DEF Stages
  <2>3. Goes(deployments, saved')
    BY <1>2, <2>1, <2>2, AtIs DEF Goes
  <2> QED BY <1>1, <1>2, <2>3, GoingKept
<1> QED BY <1>1, <1>3, <1>4

LEMMA CanaryKept == CanaryHolds /\ [CanaryNext]_canaryVars => CanaryHolds' /\ PutBackInFull
<1> SUFFICES ASSUME CanaryHolds, [CanaryNext]_canaryVars PROVE CanaryHolds' /\ PutBackInFull
  OBVIOUS
<1>1. CASE UNCHANGED canaryVars
  <2>1. /\ UNCHANGED <<ceo, deployments, saved, announced, caWrites>>
    BY <1>1 DEF canaryVars
  <2>2. ceo \in Stores /\ caWrites \in Nat /\ Goes(deployments, deployments)
    BY SameGoes DEF CanaryHolds, CanaryTypes
  <2> QED BY <2>1, <2>2, GoingKept
<1>2. CASE CanaryNext
  BY <1>2, CeoKept, StartCanaryKept, CheckHealthKept, PromoteKept, RollbackKept, CanaryRestartKept
     DEF CanaryNext
<1> QED BY <1>1, <1>2

\* However many canaries are tried and promoted at once, whichever writes fail and
\* whenever the process ends: what was announced stays promoted, and what counts
\* as rolled back was put back.
THEOREM CanariesKeepTheirWord == CanarySpec => CanaryKeepsWord
<1>1. CanarySpec => []CanaryHolds
  BY CanaryStarts, CanaryKept, PTL DEF CanarySpec
<1>2. CanaryHolds => AnnouncedStaysPromoted
  BY DEF CanaryHolds
<1>3. CanaryHolds /\ [CanaryNext]_canaryVars => [PutBackInFull]_<<ceo, deployments>>
  BY CanaryKept
<1> QED BY <1>1, <1>2, <1>3, PTL DEF CanarySpec, CanaryKeepsWord, RolledBackIsRestored
-----------------------------------------------------------------------------
(* The evolution engine. *)

\* A finite set as a sequence: every member once.
LEMMA SetToSeqIs ==
  ASSUME NEW S, IsFiniteSet(S)
  PROVE  /\ SetToSeq(S) \in Seq(S)
         /\ \A i, j \in DOMAIN SetToSeq(S) : i # j => SetToSeq(S)[i] # SetToSeq(S)[j]
         /\ \A x \in S : \E i \in DOMAIN SetToSeq(S) : SetToSeq(S)[i] = x
<1> DEFINE n == Cardinality(S)
           f == SetToSeq(S)
<1>1. n \in Nat /\ ExistsBijection(1..n, S)
  BY FS_CardinalityType
<1>2. \E h \in [1..n -> S] : IsInjective(h)
  BY <1>1 DEF ExistsBijection, Bijection, Injection, IsInjective
<1>3. f \in [1..n -> S] /\ IsInjective(f)
  BY <1>2 DEF SetToSeq
<1> HIDE DEF f
<1>4. f \in Injection(1..n, S)
  BY <1>3 DEF Injection, IsInjective
<1>5. Cardinality(1..n) = n
  BY <1>1, FS_Interval
<1>6. f \in Surjection(1..n, S)
  BY <1>4, <1>5, FS_Injection
<1>7. f \in Seq(S) /\ DOMAIN f = 1..n
  BY <1>1, <1>3
<1>8. \A i, j \in DOMAIN f : i # j => f[i] # f[j]
  BY <1>3 DEF IsInjective
<1>9. \A x \in S : \E i \in DOMAIN f : f[i] = x
  BY <1>6, <1>7 DEF Surjection
<1> QED BY <1>7, <1>8, <1>9 DEF f

Obs == [cycle : Nat, source : DOMAIN SourceType, nr : Nat]
Status == {"pending", "approved", "rejected"}
Proposal == [obs : SUBSET Obs, status : Status]

LEMMA TierOfIs == \A o \in Obs : TierOf(o) \in {"A", "B", "C"}
BY EvolutionAssumption DEF Obs, TierOf

\* What a proposal may hold together.
Alike1(o, p) ==
  /\ TierOf(o) = TierOf(p)
  /\ TierOf(o) = "A" => o = p
  /\ TierOf(o) = "B" => SourceType[o.source] = SourceType[p.source]

\* The groups part the observations: all are in one, none in two, and two are
\* in the same one as the tiers say.
LEMMA GroupedIs ==
  ASSUME NEW got \in SUBSET Obs
  PROVE  /\ Grouped(got) \subseteq SUBSET got
         /\ \A o \in got : \E g \in Grouped(got) : o \in g
         /\ \A g, h \in Grouped(got) : g # h => g \cap h = {}
         /\ \A g \in Grouped(got) : \A o, p \in g : Alike1(o, p)
         /\ \A o, p \in got :
              TierOf(o) # "A" /\ SourceType[o.source] = SourceType[p.source] =>
                \E g \in Grouped(got) : {o, p} \subseteq g
<1> DEFINE tier(t) == {o \in got : TierOf(o) = t}
           ofType(t) == {o \in tier("B") : SourceType[o.source] = t}
           As == {{o} : o \in tier("A")}
           Bs == {ofType(t) : t \in {SourceType[o.source] : o \in tier("B")}}
           Cs == {tier("C")} \ {{}}
<1>1. Grouped(got) = As \cup Bs \cup Cs
  BY DEF Grouped
<1>2. \A o \in got : TierOf(o) \in {"A", "B", "C"}
  BY TierOfIs
<1>3. \A g \in As : \E o \in got : TierOf(o) = "A" /\ g = {o}
  OBVIOUS
<1>4. \A g \in Bs : \E t : /\ g = ofType(t)
                           /\ \E o \in got : TierOf(o) = "B" /\ SourceType[o.source] = t
  OBVIOUS
<1>5. \A g \in Cs : g = tier("C") /\ g # {}
  OBVIOUS
<1>6. \A o \in got : TierOf(o) = "A" => {o} \in As
  OBVIOUS
<1>7. \A o \in got : TierOf(o) = "B" => ofType(SourceType[o.source]) \in Bs
  OBVIOUS
<1>8. \A o \in got : TierOf(o) = "C" => tier("C") \in Cs
  OBVIOUS
<1>9. \A t : \A o \in ofType(t) : o \in got /\ TierOf(o) = "B" /\ SourceType[o.source] = t
  OBVIOUS
<1>10. \A o \in got : TierOf(o) = "B" => o \in ofType(SourceType[o.source])
  OBVIOUS
<1>11. \A o \in tier("C") : o \in got /\ TierOf(o) = "C"
  OBVIOUS
<1>12. \A o \in got : TierOf(o) = "C" => o \in tier("C")
  OBVIOUS
<1> HIDE DEF As, Bs, Cs, ofType, tier
<1>13. ASSUME NEW g \in Grouped(got)
       PROVE  \/ \E o \in got : TierOf(o) = "A" /\ g = {o}
              \/ \E t : g = ofType(t)
              \/ g = tier("C")
  BY <1>1, <1>3, <1>4, <1>5
<1>20. Grouped(got) \subseteq SUBSET got
  BY <1>13, <1>9, <1>11
<1>21. \A o \in got : \E g \in Grouped(got) : o \in g
  <2> SUFFICES ASSUME NEW o \in got PROVE \E g \in Grouped(got) : o \in g
    OBVIOUS
  <2>1. CASE TierOf(o) = "A"
    BY <2>1, <1>1, <1>6
  <2>2. CASE TierOf(o) = "B"
    BY <2>2, <1>1, <1>7, <1>10
  <2>3. CASE TierOf(o) = "C"
    BY <2>3, <1>1, <1>8, <1>12
  <2> QED BY <2>1, <2>2, <2>3, <1>2
<1>22. \A g \in Grouped(got) : \A o, p \in g : Alike1(o, p)
  <2> SUFFICES ASSUME NEW g \in Grouped(got), NEW o \in g, NEW p \in g PROVE Alike1(o, p)
    OBVIOUS
  <2>1. CASE \E x \in got : TierOf(x) = "A" /\ g = {x}
    BY <2>1 DEF Alike1
  <2>2. CASE \E t : g = ofType(t)
    BY <2>2, <1>9 DEF Alike1
  <2>3. CASE g = tier("C")
    BY <2>3, <1>11 DEF Alike1
  <2> QED BY <1>13, <2>1, <2>2, <2>3
<1>23. \A g, h \in Grouped(got) : g # h => g \cap h = {}
  <2> SUFFICES ASSUME NEW g \in Grouped(got), NEW h \in Grouped(got), NEW o \in g, o \in h
               PROVE  g = h
    OBVIOUS
  <2>1. CASE TierOf(o) = "A"
    <3>1. \A e \in Grouped(got) : o \in e => e = {o}
      BY <2>1, <1>13, <1>9, <1>11
    <3> QED BY <3>1
  <2>2. CASE TierOf(o) = "B"
    <3>1. \A e \in Grouped(got) : o \in e => e = ofType(SourceType[o.source])
      BY <2>2, <1>13, <1>9, <1>11
    <3> QED BY <3>1
  <2>3. CASE TierOf(o) = "C"
    <3>1. \A e \in Grouped(got) : o \in e => e = tier("C")
      BY <2>3, <1>13, <1>9, <1>11
    <3> QED BY <3>1
  <2>4. o \in got
    BY <1>20
  <2> QED BY <2>1, <2>2, <2>3, <2>4, <1>2
<1>24. ASSUME NEW o \in got, NEW p \in got,
              TierOf(o) # "A", SourceType[o.source] = SourceType[p.source]
       PROVE  \E g \in Grouped(got) : {o, p} \subseteq g
  <2>1. TierOf(p) = TierOf(o)
    BY <1>24 DEF TierOf
  <2>2. CASE TierOf(o) = "B"
    <3>1. o \in ofType(SourceType[o.source]) /\ p \in ofType(SourceType[o.source])
      BY <1>24, <2>1, <2>2, <1>10
    <3>2. ofType(SourceType[o.source]) \in Grouped(got)
      BY <2>2, <1>1, <1>7
    <3> QED BY <3>1, <3>2
  <2>3. CASE TierOf(o) = "C"
    <3>1. o \in tier("C") /\ p \in tier("C") /\ tier("C") \in Grouped(got)
      BY <2>1, <2>3, <1>1, <1>8, <1>12
    <3> QED BY <3>1
  <2> QED BY <2>2, <2>3, <1>24, <1>2
<1> QED BY <1>20, <1>21, <1>22, <1>23, <1>24

\* Every observation of rep is in exactly one of the proposals ps, with those it belongs to.
Sorted(ps, rep) ==
  /\ UNION {ps[i].obs : i \in DOMAIN ps} = rep
  /\ \A i, j \in DOMAIN ps : i # j => ps[i].obs \cap ps[j].obs = {}
  /\ \A i \in DOMAIN ps : \A o, p \in ps[i].obs : Alike1(o, p) /\ o.cycle = p.cycle
  /\ \A o, p \in rep :
       o.cycle = p.cycle /\ TierOf(o) # "A" /\ SourceType[o.source] = SourceType[p.source] =>
         \E i \in DOMAIN ps : {o, p} \subseteq ps[i].obs

LEMMA GroupsAreFinite ==
  ASSUME NEW got \in SUBSET Obs, IsFiniteSet(got)
  PROVE  IsFiniteSet(Grouped(got))
<1>1. IsFiniteSet(SUBSET got)
  BY FS_SUBSET
<1>2. Grouped(got) \in SUBSET (SUBSET got)
  BY GroupedIs
<1> QED BY <1>1, <1>2, FS_Subset

\* The proposals of a cycle follow those of the file.
LEMMA ExtendedIs ==
  ASSUME proposals \in Seq(Proposal), NEW got \in SUBSET Obs, IsFiniteSet(got),
         NEW ps, ps = Extended(SetToSeq(Grouped(got)))
  PROVE  /\ ps \in Seq(Proposal) /\ DOMAIN proposals \subseteq DOMAIN ps
         /\ \A i \in DOMAIN proposals : ps[i] = proposals[i]
         /\ \A i \in DOMAIN ps \ DOMAIN proposals : ps[i].obs \in Grouped(got)
         /\ \A i, j \in DOMAIN ps \ DOMAIN proposals : i # j => ps[i].obs # ps[j].obs
         /\ \A g \in Grouped(got) : \E i \in DOMAIN ps \ DOMAIN proposals : ps[i].obs = g
<1> DEFINE gs == SetToSeq(Grouped(got))
           new == [i \in 1..Len(gs) |-> [obs |-> gs[i], status |-> "pending"]]
           m == Len(proposals)
<1>1. /\ gs \in Seq(Grouped(got))
      /\ \A i, j \in DOMAIN gs : i # j => gs[i] # gs[j]
      /\ \A g \in Grouped(got) : \E i \in DOMAIN gs : gs[i] = g
  BY GroupsAreFinite, SetToSeqIs, Zenon
<1>2. ps = proposals \o new
  BY DEF Extended
<1> HIDE DEF gs
<1>3. Len(gs) \in Nat /\ DOMAIN gs = 1..Len(gs) /\ \A i \in 1..Len(gs) : gs[i] \in Grouped(got)
  BY <1>1
<1>4. \A i \in 1..Len(gs) : [obs |-> gs[i], status |-> "pending"] \in Proposal
  BY <1>3, GroupedIs DEF Proposal, Status
<1>5. new \in Seq(Proposal) /\ Len(new) = Len(gs)
  BY <1>3, <1>4
<1>6. \A i \in 1..Len(gs) : new[i].obs = gs[i]
  BY <1>3
<1> HIDE DEF new
<1>7. /\ ps \in Seq(Proposal) /\ Len(ps) = m + Len(gs) /\ DOMAIN ps = 1..(m + Len(gs))
      /\ \A i \in 1..(m + Len(gs)) : ps[i] = IF i <= m THEN proposals[i] ELSE new[i - m]
  <2>1. /\ proposals \o new \in Seq(Proposal) /\ Len(proposals \o new) = m + Len(new)
        /\ \A i \in 1..(m + Len(new)) :
             (proposals \o new)[i] = IF i <= m THEN proposals[i] ELSE new[i - m]
    BY <1>5, ConcatProperties
  <2>2. ps \in Seq(Proposal) /\ Len(ps) = m + Len(gs)
    BY <1>2, <1>5, <2>1
  <2>3. DOMAIN ps = 1..(m + Len(gs))
    BY <2>2
  <2> QED BY <1>2, <1>5, <2>1, <2>2, <2>3
<1>8. m \in Nat /\ DOMAIN proposals = 1..m
  OBVIOUS
<1>9. DOMAIN proposals \subseteq DOMAIN ps /\ \A i \in DOMAIN proposals : ps[i] = proposals[i]
  BY <1>3, <1>7, <1>8
<1>10. \A i \in DOMAIN ps \ DOMAIN proposals : i - m \in 1..Len(gs) /\ ps[i] = new[i - m]
  BY <1>3, <1>7, <1>8
<1>11. \A i \in DOMAIN ps \ DOMAIN proposals : i - m \in DOMAIN gs /\ ps[i].obs = gs[i - m]
  BY <1>3, <1>6, <1>10
<1>12. \A i \in DOMAIN ps \ DOMAIN proposals : ps[i].obs \in Grouped(got)
  BY <1>3, <1>11
<1>13. \A i, j \in DOMAIN ps \ DOMAIN proposals : i # j => ps[i].obs # ps[j].obs
  <2> SUFFICES ASSUME NEW i \in DOMAIN ps \ DOMAIN proposals,
                      NEW j \in DOMAIN ps \ DOMAIN proposals, i # j
               PROVE  ps[i].obs # ps[j].obs
    OBVIOUS
  <2>1. i - m # j - m
    BY <1>7, <1>8
  <2> QED BY <2>1, <1>11, <1>1
<1>14. ASSUME NEW g \in Grouped(got)
       PROVE  \E i \in DOMAIN ps \ DOMAIN proposals : ps[i].obs = g
  <2>1. PICK j \in DOMAIN gs : gs[j] = g
    BY <1>1
  <2>2. m + j \in DOMAIN ps \ DOMAIN proposals /\ (m + j) - m = j
    BY <1>3, <1>7, <1>8, <2>1
  <2> QED BY <2>1, <2>2, <1>11
<1> QED BY <1>7, <1>9, <1>12, <1>13, <1>14

LEMMA CycleSorts ==
  ASSUME proposals \in Seq(Proposal), reported \subseteq Obs, NEW got \in SUBSET Obs,
         IsFiniteSet(got), NEW c, \A o \in got : o.cycle = c, \A o \in reported : o.cycle # c,
         NEW ps, ps = Extended(SetToSeq(Grouped(got))), Sorted(proposals, reported)
  PROVE  Sorted(ps, reported \cup got)
<1> DEFINE Old == DOMAIN proposals
           New == DOMAIN ps \ DOMAIN proposals
<1>1. /\ DOMAIN ps = Old \cup New /\ Old \cap New = {}
      /\ \A i \in Old : ps[i] = proposals[i]
      /\ \A i \in New : ps[i].obs \in Grouped(got)
      /\ \A i, j \in New : i # j => ps[i].obs # ps[j].obs
      /\ \A g \in Grouped(got) : \E i \in New : ps[i].obs = g
  <2>1. /\ DOMAIN proposals \subseteq DOMAIN ps
        /\ \A i \in DOMAIN proposals : ps[i] = proposals[i]
        /\ \A i \in DOMAIN ps \ DOMAIN proposals : ps[i].obs \in Grouped(got)
        /\ \A i, j \in DOMAIN ps \ DOMAIN proposals : i # j => ps[i].obs # ps[j].obs
        /\ \A g \in Grouped(got) : \E i \in DOMAIN ps \ DOMAIN proposals : ps[i].obs = g
    <3>1. proposals \in Seq(Proposal) /\ got \in SUBSET Obs /\ IsFiniteSet(got)
          /\ ps = Extended(SetToSeq(Grouped(got)))
      OBVIOUS
    <3> QED BY ONLY <3>1, ExtendedIs
  <2> QED BY <2>1
<1> HIDE DEF Old, New
<1>2. \A i \in Old : ps[i].obs \subseteq reported
  BY <1>1 DEF Sorted, Old
<1>3. \A i \in New : ps[i].obs \subseteq got
  BY <1>1, GroupedIs
<1>4. reported \cap got = {}
  OBVIOUS
<1>5. UNION {ps[i].obs : i \in DOMAIN ps} = reported \cup got
  <2>1. UNION {ps[i].obs : i \in DOMAIN ps} \subseteq reported \cup got
    BY <1>1, <1>2, <1>3
  <2>2. \A o \in reported : \E i \in Old : o \in proposals[i].obs
    BY DEF Sorted, Old
  <2>3. \A o \in reported : \E i \in Old : o \in ps[i].obs
    BY <1>1, <2>2
  <2>4. \A o \in got : \E i \in New : o \in ps[i].obs
    <3> TAKE o \in got
    <3>1. PICK g \in Grouped(got) : o \in g
      BY GroupedIs
    <3> QED BY <3>1, <1>1
  <2> QED BY <2>1, <2>3, <2>4, <1>1
<1>6. \A i, j \in DOMAIN ps : i # j => ps[i].obs \cap ps[j].obs = {}
  <2> SUFFICES ASSUME NEW i \in DOMAIN ps, NEW j \in DOMAIN ps, i # j
               PROVE  ps[i].obs \cap ps[j].obs = {}
    OBVIOUS
  <2>1. CASE i \in Old /\ j \in Old
    BY <2>1, <1>1 DEF Sorted, Old
  <2>2. CASE i \in New /\ j \in New
    BY <2>2, <1>1, GroupedIs
  <2>3. CASE (i \in Old /\ j \in New) \/ (i \in New /\ j \in Old)
    BY <2>3, <1>2, <1>3, <1>4
  <2> QED BY <2>1, <2>2, <2>3, <1>1
<1>7. \A i \in DOMAIN ps : \A o, p \in ps[i].obs : Alike1(o, p) /\ o.cycle = p.cycle
  <2> SUFFICES ASSUME NEW i \in DOMAIN ps, NEW o \in ps[i].obs, NEW p \in ps[i].obs
               PROVE  Alike1(o, p) /\ o.cycle = p.cycle
    OBVIOUS
  <2>1. CASE i \in Old
    BY <2>1, <1>1 DEF Sorted, Old
  <2>2. CASE i \in New
    <3>1. Alike1(o, p)
      BY <2>2, <1>1, GroupedIs
    <3>2. o \in got /\ p \in got
      BY <2>2, <1>3
    <3> QED BY <3>1, <3>2
  <2> QED BY <2>1, <2>2, <1>1
<1>8. ASSUME NEW o \in reported \cup got, NEW p \in reported \cup got,
             o.cycle = p.cycle, TierOf(o) # "A", SourceType[o.source] = SourceType[p.source]
      PROVE  \E i \in DOMAIN ps : {o, p} \subseteq ps[i].obs
  <2>1. CASE o \in reported /\ p \in reported
    <3>1. PICK i \in Old : {o, p} \subseteq proposals[i].obs
      BY <1>8, <2>1 DEF Sorted, Old
    <3> QED BY <3>1, <1>1
  <2>2. CASE o \in got /\ p \in got
    <3>1. PICK g \in Grouped(got) : {o, p} \subseteq g
      BY <1>8, <2>2, GroupedIs
    <3>2. PICK i \in New : ps[i].obs = g
      BY <1>1
    <3> QED BY <3>1, <3>2, <1>1
  <2> QED BY <1>8, <2>1, <2>2
<1> QED BY <1>5, <1>6, <1>7, <1>8 DEF Sorted

DecisionsStand ==
  \A i \in DOMAIN decided : i \in DOMAIN proposals /\ proposals[i].status = decided[i]

LEMMA CompleteIs == ProposalsComplete <=> Sorted(proposals, reported) /\ DecisionsStand
BY DEF ProposalsComplete, Sorted, DecisionsStand, Alike1

EvolutionTypes ==
  /\ cycles \in Nat /\ proposals \in Seq(Proposal) /\ reported \subseteq Obs
  /\ cycle \in [asks : Seq(DOMAIN SourceType), got : SUBSET Obs] /\ IsFiniteSet(cycle.got)

\* What the running cycle was told is of this cycle; what was reported before is not.
CyclesApart ==
  /\ \A o \in cycle.got : o.cycle = cycles
  /\ \A o \in reported : o.cycle <= cycles /\ (cycle # NoCycle => o.cycle < cycles)

EvolutionHolds ==
  EvolutionTypes /\ CyclesApart /\ Sorted(proposals, reported) /\ DecisionsStand

EvolutionSpec == EvolutionInit /\ [][EvolutionNext]_evolutionVars

LEMMA EvolutionStarts == EvolutionInit => EvolutionHolds
<1> SUFFICES ASSUME EvolutionInit PROVE EvolutionHolds
  OBVIOUS
<1>1. EvolutionTypes
  BY FS_EmptySet DEF EvolutionInit, EvolutionTypes, NoCycle
<1>2. CyclesApart
  BY DEF EvolutionInit, CyclesApart, NoCycle
<1>3. Sorted(proposals, reported)
  BY DEF EvolutionInit, Sorted
<1>4. DecisionsStand
  BY DEF EvolutionInit, DecisionsStand
<1> QED BY <1>1, <1>2, <1>3, <1>4 DEF EvolutionHolds

LEMMA BeginsKept == EvolutionHolds /\ CycleBegins => EvolutionHolds'
<1> SUFFICES ASSUME EvolutionHolds, CycleBegins PROVE EvolutionHolds'
  OBVIOUS
<1>1. cycle = NoCycle /\ cycles' = cycles + 1 /\ cycle' = [asks |-> Sources, got |-> {}]
      /\ UNCHANGED <<proposals, decided, reported>>
  BY DEF CycleBegins
<1>2. EvolutionTypes'
  BY <1>1, FS_EmptySet, EvolutionAssumption DEF EvolutionHolds, EvolutionTypes
<1>3. CyclesApart'
  <2>1. \A o \in reported : o.cycle \in Nat /\ o.cycle <= cycles
    BY DEF EvolutionHolds, EvolutionTypes, CyclesApart, Obs
  <2>2. \A o \in reported : o.cycle <= cycles + 1 /\ o.cycle < cycles + 1
    BY <2>1 DEF EvolutionHolds, EvolutionTypes
  <2> QED BY <1>1, <2>2 DEF CyclesApart
<1>4. Sorted(proposals, reported)' /\ DecisionsStand'
  BY <1>1 DEF EvolutionHolds, Sorted, DecisionsStand, TierOf, Alike1
<1> QED BY <1>2, <1>3, <1>4 DEF EvolutionHolds

LEMMA SightingsFinite ==
  ASSUME NEW n \in Nat, NEW x, NEW s
  PROVE  IsFiniteSet({[cycle |-> x, source |-> s, nr |-> i] : i \in 1..n})
<1> DEFINE S == {[cycle |-> x, source |-> s, nr |-> i] : i \in 1..n}
           f == [o \in S |-> o.nr]
<1>1. f \in [S -> 1..n] /\ \A a, b \in S : f[a] = f[b] => a = b
  OBVIOUS
<1>2. f \in Injection(S, 1..n)
  BY <1>1 DEF Injection, IsInjective
<1>3. IsFiniteSet(1..n)
  BY FS_Interval
<1> QED BY <1>2, <1>3, FS_Injection

LEMMA AnswersKept == EvolutionHolds /\ SourceAnswers => EvolutionHolds'
<1> SUFFICES ASSUME EvolutionHolds, SourceAnswers PROVE EvolutionHolds'
  OBVIOUS
<1>1. PICK n \in 0..MaxReports :
        cycle' = [asks |-> Tail(cycle.asks),
                  got |-> cycle.got \cup
                    {[cycle |-> cycles, source |-> Head(cycle.asks), nr |-> i] : i \in 1..n}]
  BY DEF SourceAnswers
<1>2. cycle.asks # << >> /\ UNCHANGED <<proposals, decided, reported, cycles>>
  BY DEF SourceAnswers
<1> DEFINE S == {[cycle |-> cycles, source |-> Head(cycle.asks), nr |-> i] : i \in 1..n}
<1>3. n \in Nat
  BY EvolutionAssumption
<1>4. /\ cycles \in Nat /\ cycle.asks \in Seq(DOMAIN SourceType) /\ cycle.got \subseteq Obs
      /\ IsFiniteSet(cycle.got)
  BY DEF EvolutionHolds, EvolutionTypes
<1>5. Head(cycle.asks) \in DOMAIN SourceType /\ Tail(cycle.asks) \in Seq(DOMAIN SourceType)
  BY <1>2, <1>4, HeadTailProperties
<1>6. S \subseteq Obs /\ (\A o \in S : o.cycle = cycles)
  BY <1>3, <1>4, <1>5 DEF Obs
<1>7. IsFiniteSet(S)
  BY <1>3, SightingsFinite
<1> HIDE DEF S
<1>8. cycle'.asks = Tail(cycle.asks) /\ cycle'.got = cycle.got \cup S
      /\ cycle' = [asks |-> cycle'.asks, got |-> cycle'.got]
  BY <1>1 DEF S
<1>9. EvolutionTypes'
  <2>1. IsFiniteSet(cycle'.got)
    BY <1>4, <1>7, <1>8, FS_Union
  <2>2. cycle'.asks \in Seq(DOMAIN SourceType) /\ cycle'.got \subseteq Obs
    BY <1>4, <1>5, <1>6, <1>8
  <2>3. cycle' \in [asks : Seq(DOMAIN SourceType), got : SUBSET Obs]
    BY <2>2, <1>8
  <2> QED BY <2>1, <2>3, <1>2 DEF EvolutionHolds, EvolutionTypes
<1>10. CyclesApart'
  <2>1. cycle # NoCycle
    BY <1>2 DEF NoCycle
  <2>2. \A o \in reported : o.cycle <= cycles /\ o.cycle < cycles
    BY <2>1 DEF EvolutionHolds, CyclesApart
  <2>3. \A o \in cycle'.got : o.cycle = cycles
    BY <1>6, <1>8 DEF EvolutionHolds, CyclesApart
  <2> QED BY <1>2, <2>2, <2>3 DEF CyclesApart
<1>11. Sorted(proposals, reported)' /\ DecisionsStand'
  BY <1>2 DEF EvolutionHolds, Sorted, DecisionsStand, TierOf, Alike1
<1> QED BY <1>9, <1>10, <1>11 DEF EvolutionHolds

LEMMA EndsKept == EvolutionHolds /\ CycleEnds => EvolutionHolds'
<1> SUFFICES ASSUME EvolutionHolds, CycleEnds PROVE EvolutionHolds'
  OBVIOUS
<1>1. /\ cycle # NoCycle /\ reported' = reported \cup cycle.got /\ cycle' = NoCycle
      /\ UNCHANGED <<decided, cycles>>
      /\ proposals' = IF cycle.got = {} THEN proposals
                      ELSE Extended(SetToSeq(Grouped(cycle.got)))
  BY DEF CycleEnds
<1>2. /\ cycles \in Nat /\ proposals \in Seq(Proposal) /\ reported \subseteq Obs
      /\ cycle.got \subseteq Obs /\ IsFiniteSet(cycle.got)
      /\ Sorted(proposals, reported)
  BY DEF EvolutionHolds, EvolutionTypes
<1>3. /\ \A o \in cycle.got : o.cycle = cycles
      /\ \A o \in reported : o.cycle \in Nat /\ o.cycle <= cycles /\ o.cycle < cycles
  BY <1>1, <1>2 DEF EvolutionHolds, CyclesApart, Obs
<1>4. CyclesApart'
  BY <1>1, <1>2, <1>3 DEF CyclesApart, NoCycle
<1>5. CASE cycle.got = {}
  <2>1. UNCHANGED <<proposals, reported>>
    BY <1>1, <1>5
  <2>2. EvolutionTypes'
    BY <2>1, <1>1, <1>2, FS_EmptySet DEF EvolutionTypes, NoCycle
  <2>3. Sorted(proposals, reported)' /\ DecisionsStand'
    BY <1>1, <2>1 DEF EvolutionHolds, Sorted, DecisionsStand, TierOf, Alike1
  <2> QED BY <2>2, <2>3, <1>4 DEF EvolutionHolds
<1>6. CASE cycle.got # {}
  <2>1. proposals' = Extended(SetToSeq(Grouped(cycle.got)))
    BY <1>1, <1>6
  <2>2. /\ proposals' \in Seq(Proposal) /\ DOMAIN proposals \subseteq DOMAIN proposals'
        /\ \A i \in DOMAIN proposals : proposals'[i] = proposals[i]
    BY <1>2, <2>1, ExtendedIs
  <2>3. \A o \in reported : o.cycle # cycles
    BY <1>2, <1>3
  <2>4. Sorted(proposals', reported \cup cycle.got)
    BY <1>2, <1>3, <2>1, <2>3, CycleSorts
  <2>5. Sorted(proposals, reported)'
    BY <1>1, <2>4 DEF Sorted, TierOf, Alike1
  <2>6. EvolutionTypes'
    BY <1>1, <1>2, <2>2, FS_EmptySet DEF EvolutionTypes, NoCycle
  <2>7. DecisionsStand'
    BY <1>1, <2>2 DEF EvolutionHolds, DecisionsStand
  <2> QED BY <2>5, <2>6, <2>7, <1>4 DEF EvolutionHolds
<1> QED BY <1>5, <1>6

LEMMA DecideKept ==
  ASSUME EvolutionHolds, NEW i \in DOMAIN proposals, NEW status \in {"approved", "rejected"},
         Decide(i, status)
  PROVE  EvolutionHolds'
<1>1. /\ proposals' = [proposals EXCEPT ![i].status = status]
      /\ decided' = [j \in DOMAIN decided \cup {i} |-> IF j = i THEN status ELSE decided[j]]
      /\ UNCHANGED <<cycle, reported, cycles>>
  BY DEF Decide
<1>2. proposals \in Seq(Proposal)
  BY DEF EvolutionHolds, EvolutionTypes
<1>3. \A j \in DOMAIN proposals : proposals[j] \in Proposal
  BY <1>2
<1>4. /\ DOMAIN proposals' = DOMAIN proposals
      /\ \A j \in DOMAIN proposals : /\ proposals'[j] \in Proposal
                                     /\ proposals'[j].obs = proposals[j].obs
                                     /\ j # i => proposals'[j] = proposals[j]
      /\ proposals'[i].status = status
  BY <1>1, <1>3 DEF Proposal, Status
<1>5. proposals' \in Seq(Proposal)
  BY <1>1, <1>2, <1>4
<1>6. EvolutionTypes' /\ CyclesApart'
  BY <1>1, <1>5 DEF EvolutionHolds, EvolutionTypes, CyclesApart
<1>7. Sorted(proposals, reported)'
  <2>1. Sorted(proposals, reported)
    BY DEF EvolutionHolds
  <2>2. UNION {proposals'[j].obs : j \in DOMAIN proposals'} = reported
    BY <2>1, <1>4 DEF Sorted
  <2>3. \A a, b \in DOMAIN proposals' : a # b => proposals'[a].obs \cap proposals'[b].obs = {}
    BY <2>1, <1>4 DEF Sorted
  <2>4. \A j \in DOMAIN proposals' : \A o, p \in proposals'[j].obs :
          Alike1(o, p) /\ o.cycle = p.cycle
    BY <2>1, <1>4 DEF Sorted
  <2>5. \A o, p \in reported :
          o.cycle = p.cycle /\ TierOf(o) # "A" /\ SourceType[o.source] = SourceType[p.source] =>
            \E j \in DOMAIN proposals' : {o, p} \subseteq proposals'[j].obs
    BY <2>1, <1>4 DEF Sorted
  <2> QED BY <2>2, <2>3, <2>4, <2>5, <1>1 DEF Sorted, Alike1, TierOf
<1>8. DecisionsStand'
  BY <1>1, <1>4 DEF EvolutionHolds, DecisionsStand
<1> QED BY <1>6, <1>7, <1>8 DEF EvolutionHolds

LEMMA EvolutionKept == EvolutionHolds /\ [EvolutionNext]_evolutionVars => EvolutionHolds'
<1> SUFFICES ASSUME EvolutionHolds, [EvolutionNext]_evolutionVars PROVE EvolutionHolds'
  OBVIOUS
<1>1. CASE CycleBegins
  BY <1>1, BeginsKept
<1>2. CASE SourceAnswers
  BY <1>2, AnswersKept
<1>3. CASE CycleEnds
  BY <1>3, EndsKept
<1>4. CASE EvolutionCrash
  <2>1. cycle' = NoCycle /\ UNCHANGED <<proposals, decided, reported, cycles>>
    BY <1>4 DEF EvolutionCrash
  <2>2. EvolutionTypes'
    BY <2>1, FS_EmptySet DEF EvolutionHolds, EvolutionTypes, NoCycle
  <2>3. CyclesApart'
    BY <2>1 DEF EvolutionHolds, CyclesApart, NoCycle
  <2>4. Sorted(proposals, reported)' /\ DecisionsStand'
    BY <2>1 DEF EvolutionHolds, Sorted, DecisionsStand, TierOf, Alike1
  <2> QED BY <2>2, <2>3, <2>4 DEF EvolutionHolds
<1>5. ASSUME NEW i \in DOMAIN proposals, NEW status \in {"approved", "rejected"},
             Decide(i, status)
      PROVE  EvolutionHolds'
  BY <1>5, DecideKept
<1>6. CASE UNCHANGED evolutionVars
  BY <1>6 DEF evolutionVars, EvolutionHolds, EvolutionTypes, CyclesApart, Sorted, DecisionsStand,
              TierOf, Alike1
<1> QED BY <1>1, <1>2, <1>3, <1>4, <1>5, <1>6 DEF EvolutionNext

LEMMA EvolutionTells == EvolutionHolds => ProposalsComplete
BY CompleteIs DEF EvolutionHolds

\* Whatever the sources report, whichever cycles end with a crash and whatever is
\* decided meanwhile: every observation of a finished cycle is in exactly one
\* proposal, with those its tier says, and what was decided stays.
THEOREM ProposalsStayComplete == EvolutionSpec => []ProposalsComplete
BY EvolutionStarts, EvolutionKept, EvolutionTells, PTL DEF EvolutionSpec
-----------------------------------------------------------------------------
(* The feeds. *)

FeedsSpec == FeedsInit /\ [][FeedsNext]_feedVars

CallSteps == {"idle", "waits", "sent", "sent2", "done"}
Answers == [source : FeedSource \cup {"none"}, query : Queries \cup {"none"}, born : Int]
FeedCalls == [step : CallSteps, source : FeedSource \cup {"none"}, query : Queries \cup {"none"},
              due : Int, answer : Answers, at : Int]

FeedTypes == fdNow \in Nat /\ lastRequest \in [FeedSource -> Int] /\ calls \in [Callers -> FeedCalls]

\* A call under way knows what it asks and has no answer; an answer is its own, and
\* was given no longer ago than the cache may keep it.
CallTells(a) ==
  /\ a.step \in {"waits", "sent", "sent2"} => a.source \in FeedSource /\ a.query \in Queries
  /\ a.step # "done" => a.answer = Error
  /\ a.step = "done" /\ a.answer # Error =>
       a.answer.source = a.source /\ a.answer.query = a.query /\ a.at - a.answer.born <= TTL

\* What is cached was said by the key's source to the key's query, when it was kept.
EntryTells(key) ==
  /\ key.source \in FeedSource /\ key.query \in Queries /\ fdCache[key].at \in Nat
  /\ fdCache[key].answer = [source |-> key.source, query |-> key.query, born |-> fdCache[key].at]

\* The inductive invariant.
FeedsHold ==
  /\ FeedTypes
  /\ \A c \in Callers : CallTells(calls[c])
  /\ \A key \in DOMAIN fdCache : EntryTells(key)

LEMMA ErrorIs == Error \in Answers /\ Error.source = "none" /\ "none" \notin FeedSource
BY DEF Error, Answers, Never, FeedSource

LEMMA RestingIs == Resting \in FeedCalls /\ CallTells(Resting) /\ Resting.step = "idle" /\ Resting.answer = Error
BY ErrorIs DEF Resting, FeedCalls, CallTells, CallSteps

LEMMA FeedsStart == FeedsInit => FeedsHold
<1> SUFFICES ASSUME FeedsInit PROVE FeedsHold
  OBVIOUS
<1>1. DOMAIN fdCache = {}
  BY DEF FeedsInit
<1>2. FeedTypes
  BY RestingIs DEF FeedsInit, FeedTypes, Never
<1>3. \A c \in Callers : CallTells(calls[c])
  BY RestingIs DEF FeedsInit
<1> QED BY <1>1, <1>2, <1>3 DEF FeedsHold

\* A call that is answered with n at time t.
Answering(b, n, t) == [b EXCEPT !.step = "done", !.answer = n, !.at = t]

LEMMA AnsweringIs ==
  ASSUME NEW b \in FeedCalls, NEW n \in Answers, NEW t \in Nat, NEW u, u = Answering(b, n, t)
  PROVE  /\ u \in FeedCalls /\ u.step = "done" /\ u.source = b.source /\ u.query = b.query
         /\ u.answer = n /\ u.at = t
<1> DEFINE v == [b EXCEPT !.step = "done"]
           w == [v EXCEPT !.answer = n]
           a == [w EXCEPT !.at = t]
<1>1. v \in FeedCalls /\ v.step = "done" /\ v.source = b.source /\ v.query = b.query
  BY DEF FeedCalls, CallSteps
<1> HIDE DEF v
<1>2. w \in FeedCalls /\ w.step = "done" /\ w.source = b.source /\ w.query = b.query /\ w.answer = n
  BY <1>1 DEF FeedCalls
<1> HIDE DEF w
<1>3. /\ a \in FeedCalls /\ a.step = "done" /\ a.source = b.source /\ a.query = b.query
      /\ a.answer = n /\ a.at = t
  BY <1>2 DEF FeedCalls
<1> QED BY <1>3 DEF w, v, Answering

\* What a fetcher knows when it has looked in the cache.
LEMMA AsksIs ==
  ASSUME FeedsHold, NEW c, NEW s \in FeedSource, NEW q \in Queries, NEW refused
  PROVE  Asks(c, s, q, refused) \in FeedCalls /\ CallTells(Asks(c, s, q, refused))
<1> DEFINE asked == [Resting EXCEPT !.source = s, !.query = q]
           key == CacheKey(s, q)
           a == Asks(c, s, q, refused)
<1>1. /\ asked \in FeedCalls /\ asked.source = s /\ asked.query = q /\ asked.answer = Error
      /\ asked.step = "idle"
  BY RestingIs, ErrorIs DEF Resting, FeedCalls
<1>2. key.source = s /\ key.query = q
  BY DEF CacheKey
<1>3. a = IF refused THEN [asked EXCEPT !.step = "done"]
          ELSE IF CacheGet(key) # {}
               THEN [asked EXCEPT !.step = "done", !.answer = CHOOSE x \in CacheGet(key) : TRUE, !.at = fdNow]
               ELSE [asked EXCEPT !.step = "waits", !.due = Due(s)]
  BY DEF Asks
<1> HIDE DEF asked, key, a
<1>4. CASE refused
  <2>1. a = [asked EXCEPT !.step = "done"]
    BY <1>3, <1>4
  <2>2. a \in FeedCalls /\ a.step = "done" /\ a.answer = Error
    BY <2>1, <1>1 DEF FeedCalls, CallSteps
  <2> QED BY <2>2 DEF CallTells, a
<1>5. CASE ~refused /\ CacheGet(key) # {}
  <2> DEFINE e == fdCache[key]
  <2>1. key \in DOMAIN fdCache /\ fdNow - e.at <= TTL /\ CacheGet(key) = {e.answer}
    BY <1>5 DEF CacheGet
  <2>2. e.at \in Nat /\ e.answer = [source |-> s, query |-> q, born |-> e.at]
    BY <2>1, <1>2 DEF FeedsHold, EntryTells
  <2>3. fdNow \in Nat
    BY DEF FeedsHold, FeedTypes
  <2> HIDE DEF e
  <2>4. (CHOOSE x \in CacheGet(key) : TRUE) = e.answer
    BY <2>1
  <2>5. a = [asked EXCEPT !.step = "done", !.answer = e.answer, !.at = fdNow]
    BY <1>3, <1>5, <2>4
  <2>6. e.answer \in Answers /\ e.answer.source = s /\ e.answer.query = q /\ e.answer.born = e.at
    BY <2>2 DEF Answers
  <2>7. /\ a \in FeedCalls /\ a.step = "done" /\ a.source = s /\ a.query = q
        /\ a.answer = e.answer /\ a.at = fdNow
    <3>1. a = Answering(asked, e.answer, fdNow)
      BY <2>5 DEF Answering
    <3> QED BY <3>1, <2>3, <2>6, <1>1, AnsweringIs
  <2> QED BY <2>1, <2>6, <2>7 DEF CallTells, a
<1>6. CASE ~refused /\ CacheGet(key) = {}
  <2>1. a = [asked EXCEPT !.step = "waits", !.due = Due(s)]
    BY <1>3, <1>6
  <2>2. Due(s) \in Int
    BY DEF FeedsHold, FeedTypes, Due, Interval
  <2>3. a \in FeedCalls /\ a.step = "waits" /\ a.source = s /\ a.query = q /\ a.answer = Error
    BY <2>1, <2>2, <1>1 DEF FeedCalls, CallSteps
  <2> QED BY <2>3 DEF CallTells, a
<1> QED BY <1>4, <1>5, <1>6

\* A step that changes some calls, and the cache if at all by dropping entries.
LEMMA CallsKept ==
  ASSUME FeedsHold, fdNow' \in Nat, lastRequest' \in [FeedSource -> Int],
         calls' \in [Callers -> FeedCalls], \A c \in Callers : CallTells(calls'[c]),
         DOMAIN fdCache' \subseteq DOMAIN fdCache, \A key \in DOMAIN fdCache' : fdCache'[key] = fdCache[key]
  PROVE  FeedsHold'
<1>1. FeedTypes'
  BY DEF FeedTypes
<1>2. \A c \in Callers : CallTells(calls[c])'
  BY DEF CallTells
<1>3. \A key \in DOMAIN fdCache' : EntryTells(key)'
  BY DEF FeedsHold, EntryTells
<1> QED BY <1>1, <1>2, <1>3 DEF FeedsHold

LEMMA FeedIs ==
  ASSUME FeedsHold
  PROVE  /\ fdNow \in Nat /\ lastRequest \in [FeedSource -> Int] /\ calls \in [Callers -> FeedCalls]
         /\ \A c \in Callers : calls[c] \in FeedCalls /\ CallTells(calls[c])
BY DEF FeedsHold, FeedTypes

LEMMA CallKept ==
  ASSUME FeedsHold, NEW c \in Callers, NEW s \in FeedSource, NEW q \in Queries, NEW refused,
         Call(c, s, q, refused)
  PROVE  FeedsHold'
<1> DEFINE a == Asks(c, s, q, refused)
<1>1. calls' = [calls EXCEPT ![c] = a] /\ UNCHANGED <<fdNow, lastRequest>> /\ fdCache' = Looked(refused, s, q)
  BY DEF Call
<1>2. a \in FeedCalls /\ CallTells(a)
  BY AsksIs
<1> HIDE DEF a
<1>3. calls' \in [Callers -> FeedCalls] /\ \A d \in Callers : CallTells(calls'[d])
  BY <1>1, <1>2, FeedIs
<1>4. DOMAIN fdCache' \subseteq DOMAIN fdCache /\ \A key \in DOMAIN fdCache' : fdCache'[key] = fdCache[key]
  BY <1>1 DEF Looked, Restrict
<1> QED BY <1>1, <1>3, <1>4, FeedIs, CallsKept

\* One call gets on.
LEMMA StepKept ==
  ASSUME FeedsHold, NEW c \in Callers, NEW a \in FeedCalls, CallTells(a), calls' = [calls EXCEPT ![c] = a],
         lastRequest' \in [FeedSource -> Int], UNCHANGED <<fdNow, fdCache>>
  PROVE  FeedsHold'
<1>1. calls' \in [Callers -> FeedCalls] /\ \A d \in Callers : CallTells(calls'[d])
  BY FeedIs
<1> QED BY <1>1, FeedIs, CallsKept

LEMMA SendsKept ==
  ASSUME FeedsHold, NEW c \in Callers, Sends(c) \/ Sends2(c) \/ Fails(c) \/ Returns(c)
  PROVE  FeedsHold'
<1>1. calls[c] \in FeedCalls /\ CallTells(calls[c]) /\ calls \in [Callers -> FeedCalls]
  BY FeedIs
<1>2. CASE Returns(c)
  BY <1>2, RestingIs, FeedIs, StepKept DEF Returns
<1>3. CASE Sends(c) \/ Sends2(c) \/ Fails(c)
  <2>1. PICK step \in {"sent", "sent2", "done"} :
          calls' = [calls EXCEPT ![c].step = step] /\ calls[c].step \in {"waits", "sent", "sent2"}
    BY <1>3 DEF Sends, Sends2, Fails
  <2>2. lastRequest' \in [FeedSource -> Int] /\ UNCHANGED <<fdNow, fdCache>>
    BY <1>3, FeedIs DEF Sends, Sends2, Fails
  <2> DEFINE a == [calls[c] EXCEPT !.step = step]
  <2>3. /\ a \in FeedCalls /\ a.step = step /\ a.answer = calls[c].answer /\ a.source = calls[c].source
        /\ a.query = calls[c].query
    BY <1>1 DEF FeedCalls, CallSteps
  <2>4. calls' = [calls EXCEPT ![c] = a]
    BY <2>1, <1>1
  <2> HIDE DEF a
  <2>5. CallTells(a)
    BY <1>1, <2>1, <2>3 DEF CallTells
  <2> QED BY <2>2, <2>3, <2>4, <2>5, StepKept
<1> QED BY <1>2, <1>3

\* The answer is kept under what was asked.
LEMMA AnsweredKept ==
  ASSUME FeedsHold, NEW c \in Callers, Answered(c)
  PROVE  FeedsHold'
<1> DEFINE answer == [source |-> calls[c].source, query |-> calls[c].query, born |-> fdNow]
           key == CacheKey(calls[c].source, calls[c].query)
           a == [calls[c] EXCEPT !.step = "done", !.answer = answer, !.at = fdNow]
<1>1. /\ calls[c].step \in {"sent", "sent2"} /\ UNCHANGED <<fdNow, lastRequest>>
      /\ calls' = [calls EXCEPT ![c].step = "done", ![c].answer = answer, ![c].at = fdNow]
      /\ fdCache' = CacheSet(key, answer)
  BY DEF Answered
<1>2. calls[c] \in FeedCalls /\ CallTells(calls[c]) /\ calls \in [Callers -> FeedCalls] /\ fdNow \in Nat
  BY FeedIs
<1>3. calls[c].source \in FeedSource /\ calls[c].query \in Queries
  BY <1>1, <1>2 DEF CallTells
<1>4. answer \in Answers /\ answer.source = calls[c].source /\ answer.query = calls[c].query /\ answer.born = fdNow
  BY <1>2, <1>3 DEF Answers
<1>5. key.source = calls[c].source /\ key.query = calls[c].query
  BY DEF CacheKey
<1>6. answer = [source |-> key.source, query |-> key.query, born |-> fdNow]
  BY <1>5
<1> HIDE DEF answer, key
<1>7. /\ a \in FeedCalls /\ a.step = "done" /\ a.answer = answer /\ a.source = calls[c].source
      /\ a.query = calls[c].query /\ a.at = fdNow
  <2>1. a = Answering(calls[c], answer, fdNow)
    BY DEF Answering
  <2> HIDE DEF a
  <2> QED BY <2>1, <1>2, <1>4, AnsweringIs
<1>8. calls' = [calls EXCEPT ![c] = a]
  BY <1>1, <1>2
<1> HIDE DEF a
<1>9. CallTells(a)
  <2>1. a.at - a.answer.born <= TTL
    BY <1>2, <1>4, <1>7, FeedsAssumption
  <2> QED BY <2>1, <1>4, <1>7 DEF CallTells
<1>10. FeedTypes'
  <2>1. calls' \in [Callers -> FeedCalls]
    BY <1>2, <1>7, <1>8
  <2> QED BY <2>1, <1>1, FeedIs DEF FeedTypes
<1>11. ASSUME NEW d \in Callers PROVE CallTells(calls'[d])
  BY <1>8, <1>9, FeedIs
<1>12. ASSUME NEW x \in DOMAIN fdCache' PROVE EntryTells(x)'
  <2>1. DOMAIN fdCache' = DOMAIN fdCache \cup {key} /\ fdCache'[key] = [at |-> fdNow, answer |-> answer]
    BY <1>1 DEF CacheSet
  <2>2. CASE x = key
    BY <2>1, <2>2, <1>2, <1>3, <1>5, <1>6 DEF EntryTells
  <2>3. CASE x # key
    <3>1. x \in DOMAIN fdCache /\ fdCache'[x] = fdCache[x]
      BY <2>1, <2>3, <1>1, <1>12 DEF CacheSet
    <3> QED BY <3>1 DEF FeedsHold, EntryTells
  <2> QED BY <2>2, <2>3
<1>13. \A d \in Callers : CallTells(calls[d])'
  BY <1>11 DEF CallTells
<1> QED BY <1>10, <1>12, <1>13 DEF FeedsHold

\* Several calls at once, and their merging.
LEMMA GroupKept ==
  ASSUME FeedsHold, Merges \/ \E q \in Queries : FetchMultiSource(q)
  PROVE  FeedsHold'
<1>1. CASE Merges
  <2>1. calls' \in [Callers -> FeedCalls] /\ \A d \in Callers : CallTells(calls'[d])
    BY <1>1, FeedIs, RestingIs DEF Merges
  <2> QED BY <1>1, <2>1, FeedIs, CallsKept DEF Merges
<1>2. CASE \E q \in Queries : FetchMultiSource(q)
  <2>1. PICK q \in Queries : FetchMultiSource(q)
    BY <1>2
  <2> DEFINE refused(c) == Gathered[c] = "brave" /\ "brave" \notin HasKey
             asked(c) == IF Gathered[c] = "hn" THEN FrontPage ELSE q
  <2>2. /\ calls' = [c \in Callers |->
                       IF c \in DOMAIN Gathered THEN Asks(c, Gathered[c], asked(c), refused(c)) ELSE calls[c]]
        /\ UNCHANGED <<fdNow, lastRequest>>
        /\ \E D \in SUBSET DOMAIN fdCache : fdCache' = Restrict(fdCache, D)
    BY <2>1 DEF FetchMultiSource
  <2>3. \A c \in DOMAIN Gathered : /\ Asks(c, Gathered[c], asked(c), refused(c)) \in FeedCalls
                                   /\ CallTells(Asks(c, Gathered[c], asked(c), refused(c)))
    <3>1. \A c \in DOMAIN Gathered : asked(c) \in Queries /\ Gathered[c] \in FeedSource
      BY FeedsAssumption
    <3> HIDE DEF refused, asked
    <3> QED BY <3>1, AsksIs
  <2> HIDE DEF refused, asked
  <2>4. calls' \in [Callers -> FeedCalls] /\ \A d \in Callers : CallTells(calls'[d])
    BY <2>2, <2>3, FeedIs
  <2>5. DOMAIN fdCache' \subseteq DOMAIN fdCache /\ \A key \in DOMAIN fdCache' : fdCache'[key] = fdCache[key]
    BY <2>2 DEF Restrict
  <2> QED BY <2>2, <2>4, <2>5, FeedIs, CallsKept
<1> QED BY <1>1, <1>2

LEMMA FeedsKept == FeedsHold /\ [FeedsNext]_feedVars => FeedsHold'
<1> SUFFICES ASSUME FeedsHold, [FeedsNext]_feedVars PROVE FeedsHold'
  OBVIOUS
<1>1. ASSUME NEW c \in Callers, NEW q \in Queries,
             \E s \in FeedSource : \E refused \in BOOLEAN : Call(c, s, q, refused)
      PROVE  FeedsHold'
  BY <1>1, CallKept
<1>2. ASSUME NEW c \in Callers, NEW q \in Queries,
             \/ BraveSearch(c, q) \/ FetchRss(c, q) \/ FetchReddit(c, q) \/ FetchHn(c, q)
             \/ FetchX(c, q) \/ FetchOpenbb(c, q) \/ FetchPolymarket(c, q)
             \/ FetchKalshi(c, q) \/ FetchMetaculus(c, q)
      PROVE  FeedsHold'
  BY <1>2, <1>1 DEF BraveSearch, FetchRss, FetchReddit, FetchHn, FetchX, FetchOpenbb, FetchPolymarket,
                    FetchKalshi, FetchMetaculus, FeedSource
<1>3. CASE FeedTick \/ UNCHANGED feedVars
  <2>1. fdNow' \in Nat /\ UNCHANGED <<lastRequest, fdCache, calls>>
    BY <1>3, FeedIs DEF FeedTick, feedVars
  <2> QED BY <2>1, FeedIs, CallsKept
<1> QED BY <1>2, <1>3, SendsKept, AnsweredKept, GroupKept DEF FeedsNext

LEMMA FeedsTell == FeedsHold => AnswersAreOwn
<1> SUFFICES ASSUME FeedsHold PROVE AnswersAreOwn
  OBVIOUS
<1>1. ASSUME NEW key \in DOMAIN fdCache PROVE fdCache[key].answer # Error
  <2>1. EntryTells(key)
    BY DEF FeedsHold
  <2> DEFINE n == fdCache[key].answer
  <2>2. n = [source |-> key.source, query |-> key.query, born |-> fdCache[key].at] /\ key.source \in FeedSource
    BY <2>1 DEF EntryTells
  <2>3. n.source \in FeedSource
    BY <2>2
  <2> HIDE DEF n
  <2>4. n # Error
    BY <2>3, ErrorIs
  <2> QED BY <2>4 DEF n
<1>2. \A c \in Callers : CallTells(calls[c])
  BY DEF FeedsHold
<1> QED BY <1>1, <1>2 DEF AnswersAreOwn, CallTells

\* However many fetchers share the cache and wait for each other's sources, and
\* whatever fails or has grown old: whoever is answered is answered what its source
\* said to its query, no longer ago than the cache may keep it, and no error is kept.
THEOREM AnswersStayOwn == FeedsSpec => []AnswersAreOwn
BY FeedsStart, FeedsKept, FeedsTell, PTL DEF FeedsSpec

-----------------------------------------------------------------------------
(* The services together. *)

PromisesHold ==
  BackendsHold /\ EvolutionHolds /\ PKHolds /\ DigestHolds /\ FeedsHold

LEMMA PromisesStart == Init => PromisesHold
BY BackendsStart, EvolutionStarts, PKStarts, DigestStarts, FeedsStart DEF Init, PromisesHold

\* A step of the whole is a step of one service and leaves the others alone.
LEMMA StepOfOne ==
  [Next]_<<focus, backendVars, canaryVars, evolutionVars, pkVars, digestVars, feedVars>> =>
    /\ [VectorsNext \/ BackupNext]_backendVars /\ [CanaryNext]_canaryVars
    /\ [EvolutionNext]_evolutionVars /\ [PKNext]_pkVars
    /\ [DigestNext]_digestVars /\ [FeedsNext]_feedVars
BY DEF Next

LEMMA PromisesKept ==
  PromisesHold
  /\ [Next]_<<focus, backendVars, canaryVars, evolutionVars, pkVars, digestVars, feedVars>>
    => PromisesHold'
BY StepOfOne, BackendsKept, EvolutionKept, PKKept, DigestKept, FeedsKept DEF PromisesHold

LEMMA PromisesTell ==
  PromisesHold => CopiesFollow /\ RecallFits /\ ProposalsComplete /\ StoredAsPromised /\ AnswersAreOwn
BY BackendsFit, EvolutionTells, PKTells, DigestTells, FeedsTell DEF PromisesHold, BackendsHold, StoredAsPromised

\* What the run of ServicesMC checks, for every value of the constants: whichever
\* service a behaviour chooses, the copies of the memory follow it, a recall fits, proposals are
\* complete, what was published is found, what was accepted is stored, and answers
\* belong to their question.
THEOREM PromisesAreKept ==
  Spec => [](CopiesFollow /\ RecallFits /\ ProposalsComplete /\ StoredAsPromised /\ AnswersAreOwn)
BY PromisesStart, PromisesKept, PromisesTell, PTL DEF Spec

\* The documents and the digests, as the run names them: a search finds exactly
\* what is stored, and what a company was told is accepted can be read.
THEOREM StoredStaysAsPromised == Spec => []StoredAsPromised
<1>1. PromisesHold => StoredAsPromised
  BY PromisesTell
<1> QED BY <1>1, PromisesStart, PromisesKept, PTL DEF Spec

\* And the canaries keep their word in every behaviour of ServicesMC.
THEOREM CanariesKeepTheirWordThere == Spec => CanaryKeepsWord
<1>1. Init => CanaryInit
  BY DEF Init
<1>2. [Next]_<<focus, backendVars, canaryVars, evolutionVars, pkVars, digestVars, feedVars>> =>
        [CanaryNext]_canaryVars
  BY StepOfOne
<1>3. Spec => CanarySpec
  BY <1>1, <1>2, PTL DEF Spec, CanarySpec
<1> QED BY <1>3, CanariesKeepTheirWord
=============================================================================
