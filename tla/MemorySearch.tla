---------------------------- MODULE MemorySearch ----------------------------
(***************************************************************************)
(* How entries are found again (memory/search.py): the exact search of the *)
(* index and of the archive, the similarity search of the vector store,    *)
(* and the choice of the snippets that fit a prompt.  All operators are    *)
(* pure: s is a store, vec what the vector store holds, a function from    *)
(* keys to the importance the entry had when it was indexed.               *)
(*                                                                         *)
(* A query is a sequence of words.  Entries match a word by their key or,  *)
(* once they have been scored, by their summary; no text contains a query  *)
(* of several words.  Scores are in units of 1/20000.                      *)
(***************************************************************************)
EXTENDS MemoryStore, Sequences, SequencesExt

CONSTANTS Words,
          InKey, InSummary,   \* [Words -> SUBSET Keys]: where a word occurs
          Similar(_, _),      \* the similarity of a query and a key
          Overhead,           \* [Keys -> Nat]: key, tags and 48 characters
          SummaryLen, FactLen, \* lengths of a summary and of a fact's text
          MinLeft,            \* 80: less is not worth a truncated snippet
          Limit, Budget       \* of retrieve_for_task

ASSUME MemorySearchAssumption ==
  /\ IsFiniteSet(Keys)  \* they are names of files
  /\ InKey \in [Words -> SUBSET Keys] /\ InSummary \in [Words -> SUBSET Keys]
  /\ Overhead \in [Keys -> Nat \ {0}]
  /\ {SummaryLen, FactLen, MinLeft, Limit, Budget} \subseteq Nat \ {0}

Scored(m) == m.imp > 0

\* _choose_mode.
ChooseMode(requested, semantic, query) ==
  CASE ~semantic -> "exact"
    [] semantic /\ requested = "auto" -> IF Len(query) >= 3 THEN "hybrid" ELSE "semantic"
    [] OTHER -> requested

\* _score_entry: the best place a word occurs at, weighted with importance.
Score(query, k, m) ==
  LET occurs(where) == Len(query) = 1 /\ k \in where[query[1]]
      weight == CASE occurs(InKey) -> 95
                  [] ~occurs(InKey) /\ Scored(m) /\ occurs(InSummary) -> 70
                  [] OTHER -> 0
  IN  weight * (100 + 40 * m.imp)

Hit(k, source, score, mode, m) ==
  [key |-> k, source |-> source, score |-> score, mode |-> mode, summary |-> Scored(m), imp |-> m.imp]

\* search_archive finds summaries only, and gives them the summary's weight.
ExactHits(s, query, archive) ==
  LET index == WithIndex(s).index
      active == {k \in DOMAIN index : Score(query, k, index[k]) > 0}
      archived == {k \in DOMAIN s.archIndex :
                     /\ archive /\ Len(query) = 1
                     /\ Scored(s.archIndex[k]) /\ k \in InSummary[query[1]]}
  IN  {Hit(k, "active", Score(query, k, index[k]), "exact", index[k]) : k \in active}
      \cup {Hit(k, "archive", 70 * (100 + 40 * s.archIndex[k].imp), "exact", s.archIndex[k]) :
              k \in archived}

\* Whatever has a vector counts as an active entry.
SemanticHits(vec, query) ==
  {Hit(k, "active", Similar(query, k), "semantic", [imp |-> vec[k]]) : k \in DOMAIN vec}

\* The better of two hits of an entry; of equals the exact one, which comes first.
Better(g, h) ==
  /\ g.key = h.key /\ g.source = h.source
  /\ \/ g.score > h.score
     \/ g.score = h.score /\ g.mode = "exact" /\ h.mode = "semantic"

Search(s, vec, query, requested, semantic, archive) ==
  LET mode == ChooseMode(requested, semantic, query)
      hits == (IF mode \in {"exact", "hybrid"} THEN ExactHits(s, query, archive) ELSE {})
              \cup (IF mode \in {"semantic", "hybrid"} THEN SemanticHits(vec, query) ELSE {})
  IN  {h \in hits : ~\E g \in hits : Better(g, h)}

----------------------------------------------------------------------------
(* Snippets for a prompt. *)

\* _merge_retrieval_candidate: the hits of the whole task and of each of its
\* words, merged by entry: the best score, a summary if any has one, the words
\* that hit.  A later hit replaces the score and the mode if it is better.
Candidates(s, vec, task, semantic) ==
  LET whole == Search(s, vec, task, "auto", semantic, FALSE)
      byWord == [w \in ToSet(task) |-> Search(s, vec, <<w>>, "exact", semantic, FALSE)]
      all == whole \cup UNION {byWord[w] : w \in ToSet(task)}
      of(k) == {h \in all : h.key = k}
      best(k) == CHOOSE h \in of(k) :
                   \A g \in of(k) \ {h} :
                     \/ h.score > g.score
                     \/ h.score = g.score /\ (g \in whole => h \in whole)
  IN  {[key |-> k, score |-> best(k).score, mode |-> best(k).mode,
        summary |-> \E h \in of(k) : h.summary,
        words |-> Cardinality({w \in ToSet(task) : \E h \in byWord[w] : h.key = k})] :
       k \in {h.key : h \in all}}

\* _retrieval_rank, its first component.
Rank(c) ==
  c.score + (IF c.mode = "semantic" THEN 1000 ELSE 0) + 1600 * (IF c.words < 5 THEN c.words ELSE 5)

\* _result_snippet: its summary, or its content read from the file; an entry
\* that is no more has no content.
SnippetLen(s, c) ==
  IF c.summary THEN SummaryLen
  ELSE IF c.key \in DOMAIN s.file THEN FactLen * Cardinality(s.file[c.key]) ELSE 0

\* A bug: the key and the tags are left out of the truncated snippet's size.
BadTaken(s, acc, c) ==
  LET len == SnippetLen(s, c)
      text == IF len < Budget - acc.used THEN len ELSE Budget - acc.used
  IN  IF acc.done \/ len = 0 THEN acc
      ELSE [acc EXCEPT !.sel = Append(@, [key |-> c.key, size |-> Overhead[c.key] + text]),
                       !.used = @ + Overhead[c.key] + text,
                       !.done = Len(acc.sel) + 1 >= Limit \/ acc.used + text >= Budget]
\* The loop of retrieve_for_task over the ranked candidates; a first snippet
\* that is too long is truncated to what is left.
Taken(s, acc, c) ==
  LET len == SnippetLen(s, c)
      size == Overhead[c.key] + len
      left == Budget - acc.used
      seen == IF c.summary \/ acc.done THEN acc ELSE [acc EXCEPT !.read = @ \cup {c.key}]
      put(n) == [seen EXCEPT !.sel = Append(@, [key |-> c.key, size |-> n]), !.used = @ + n,
                             !.done = Len(acc.sel) + 1 >= Limit]
  IN  IF acc.done \/ len = 0 THEN seen
      ELSE IF size <= left THEN put(size)
      ELSE IF acc.sel = << >> /\ left >= MinLeft /\ left > Overhead[c.key] THEN put(left)
      ELSE [seen EXCEPT !.done = TRUE]

\* The candidates in their order; what has the same rank may come in any.
Rankings(cands) ==
  {ranked \in [1..Cardinality(cands) -> cands] :
     /\ IsInjective(ranked)
     /\ \A i, j \in DOMAIN ranked : i < j => Rank(ranked[i]) >= Rank(ranked[j])}

Chosen(s, ranked) ==
  LET loop[n \in 0..Len(ranked)] ==
        IF n = 0 THEN [sel |-> << >>, used |-> 0, read |-> {}, done |-> FALSE]
                 ELSE Taken(s, loop[n - 1], ranked[n])
  IN  loop[Len(ranked)]

Retrievals(s, vec, task, semantic) ==
  {Chosen(s, ranked) : ranked \in Rankings(Candidates(s, vec, task, semantic))}
=============================================================================
