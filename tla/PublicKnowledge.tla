--------------------------- MODULE PublicKnowledge ---------------------------
(***************************************************************************)
(* The shared documents (public_knowledge/): each is an object in S3, and  *)
(* one object more lists them all.  A publisher writes the document, then  *)
(* reads the list, changes it and writes it back; publishers in several    *)
(* processes do so at the same time, and any request may fail.  A list     *)
(* that could not be read counts as empty, a line of it that does not      *)
(* parse as none.                                                          *)
(***************************************************************************)
EXTENDS Naturals, FiniteSets, FiniteSetsExt, Sequences

CONSTANTS Publishers, Docs,
          PublishedAt, FreshUntil, \* [Docs -> time]
          IndexCap,                \* INDEX_CAP
          SearchLimit,             \* SearchQuery.limit
          PKMaxTime, PKMaxOps, PKMaxFaults  \* bounds of the model

ASSUME PublicKnowledgeAssumption ==
  /\ "none" \notin Docs
  /\ PublishedAt \in [Docs -> Nat] /\ FreshUntil \in [Docs -> Nat]
  /\ IndexCap \in Nat \ {0} /\ SearchLimit \in Nat \ {0}

VARIABLES
  naive,    \* the documents whose published_at has no time zone: it cannot be
            \* compared with those that have one
  docs,     \* the documents' objects
  index,    \* the list's object: the entries it holds
  pub,      \* each publisher: what it is about, the list it read, and (history)
            \* whether nobody else changed its document meanwhile
  pkNow, pkOps, pkFaults,
  dangling, \* history: documents whose entry does not follow them any more
  dropped   \* history: entries the cap left out

pkVars == <<naive, docs, index, pub, pkNow, pkOps, pkFaults, dangling, dropped>>

Off == [step |-> "idle", op |-> "none", doc |-> "none", read |-> {}, alone |-> TRUE]

PKInit ==
  /\ naive \in SUBSET Docs /\ docs = {} /\ index = {}
  /\ pub = [p \in Publishers |-> Off]
  /\ pkNow = 0 /\ pkOps = 0 /\ pkFaults = 0
  /\ dangling = {} /\ dropped = {}

Fresh(d) == FreshUntil[d] > pkNow

\* Sorting D by published_at raises.
Mixed(D) == D \cap naive # {} /\ D \ naive # {}

\* The most recently published of D, as many as the cap allows.
Newest(D) ==
  IF Cardinality(D) <= IndexCap THEN D
  ELSE CHOOSE E \in kSubset(IndexCap, D) :
         \A d \in E, e \in D \ E : PublishedAt[d] >= PublishedAt[e]

PKFault == pkFaults < PKMaxFaults /\ pkFaults' = pkFaults + 1

\* publish and unpublish, up to the document's object; put_doc and delete_doc
\* raise what S3 raises.
Begin(p, d, op) ==
  /\ pub[p] = Off /\ pkOps < PKMaxOps
  /\ pkOps' = pkOps + 1
  /\ pub' = [q \in Publishers |->
       IF q = p THEN [step |-> "put", op |-> op, doc |-> d, read |-> {},
                      alone |-> \A o \in Publishers : pub[o].doc # d]
       ELSE [pub[q] EXCEPT !.alone = @ /\ pub[q].doc # d]]
  /\ UNCHANGED <<naive, index, pkNow, pkFaults, dangling, dropped>>

BeginPublish(p, d) == docs' = docs \cup {d} /\ Begin(p, d, "add")

BeginUnpublish(p, d) == docs' = docs \ {d} /\ Begin(p, d, "remove")

\* load_index: a failure is taken for an index that does not exist, a line that does
\* not parse is skipped, and the entries that are not read are lost with the next
\* write.
LoadIndex(p) ==
  /\ pub[p].step = "put"
  /\ \E R \in SUBSET index :
       /\ pub' = [pub EXCEPT ![p].step = "read", ![p].read = R]
       /\ dangling' = dangling \cup (index \ R)
       /\ IF R = index THEN UNCHANGED pkFaults ELSE PKFault
  /\ UNCHANGED <<naive, docs, index, pkNow, pkOps, dropped>>

\* A bug: an entry that is listed already is left as it is, and so is one that
\* should go.
BadWithChange(read, op, d) == read \cup (IF op = "add" THEN {d} ELSE {})

\* add_entry, which replaces the entry if there is one, and remove_entry.
WithChange(read, op, d) == (read \ {d}) \cup (IF op = "add" THEN {d} ELSE {})

\* save_index: what has expired goes, then what is over the cap, unless it cannot be
\* sorted, which raises; the write replaces whatever others wrote since the list was
\* read.
SaveIndex(p) ==
  /\ pub[p].step = "read"
  /\ LET d == pub[p].doc
         fresh == {e \in WithChange(pub[p].read, pub[p].op, d) : Fresh(e)}
         missed == (index \ pub[p].read) \cup (pub[p].read \ index)
         raises == Cardinality(fresh) > IndexCap /\ Mixed(fresh)
     IN \/ /\ ~raises
           /\ index' = Newest(fresh)
           /\ dropped' = (dropped \ Newest(fresh)) \cup (fresh \ Newest(fresh))
           /\ dangling' = IF pub[p].alone THEN (dangling \ {d}) \cup missed
                          ELSE dangling \cup {d} \cup missed
           /\ UNCHANGED pkFaults
        \/ /\ IF raises THEN UNCHANGED pkFaults ELSE PKFault
           /\ dangling' = dangling \cup {d}
           /\ UNCHANGED <<index, dropped>>
  /\ pub' = [pub EXCEPT ![p] = Off]
  /\ UNCHANGED <<naive, docs, pkNow, pkOps>>

PKTick == pkNow < PKMaxTime /\ pkNow' = pkNow + 1
          /\ UNCHANGED <<naive, docs, index, pub, pkOps, pkFaults, dangling, dropped>>

PKNext ==
  \/ \E p \in Publishers :
       \/ \E d \in Docs : BeginPublish(p, d) \/ BeginUnpublish(p, d)
       \/ LoadIndex(p) \/ SaveIndex(p)
  \/ PKTick

\* search: of the entries, those that pass the filter, the latest first, up to
\* the limit; none if they cannot be sorted, which raises.
SearchIndex(freshOnly, passes) ==
  LET hits == {d \in index : d \in passes /\ (freshOnly => Fresh(d))}
  IN  IF Mixed(hits) THEN {}
      ELSE IF Cardinality(hits) <= SearchLimit THEN hits
      ELSE CHOOSE E \in kSubset(SearchLimit, hits) :
             \A d \in E, e \in hits \ E : PublishedAt[d] >= PublishedAt[e]

----------------------------------------------------------------------------
\* "Ensures that the S3 document store and the JSONL index stay in sync": a
\* document nobody is working on is found by a search for it alone exactly if it
\* is stored, but for the ways the code has of losing that:
\*   - a request failed between the two writes, or the list could not be sorted;
\*   - a list, or a line of it, that could not be read counts as none;
\*   - another publisher's list was written in between, or another changed the
\*     same document;
\*   - the cap, which takes the oldest.
\* A search with more hits may raise instead (Mixed).
IndexFollowsDocs ==
  \A d \in Docs \ (dangling \cup dropped \cup {pub[p].doc : p \in Publishers}) :
    Fresh(d) => (d \in docs <=> d \in SearchIndex(TRUE, {d}))
=============================================================================
