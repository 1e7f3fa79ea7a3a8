----------------------------- MODULE ServicesMC -----------------------------
(***************************************************************************)
(* The services around the teams' memory, each explored on its own: they   *)
(* share no state, so a behaviour chooses one of them and the others stay  *)
(* as they begin.                                                          *)
(***************************************************************************)
EXTENDS MemoryBackends, Canary, Evolution, PublicKnowledge, Digests, Feeds

CONSTANTS r, k, c1, c2, p1, p2, x1, x2, x3, g1, g2, g3, q1, q2

VARIABLE focus

Init ==
  /\ focus \in {"vectors", "backup", "canary", "evolution", "knowledge", "digests", "feeds"}
  /\ BackendsInit /\ CanaryInit /\ EvolutionInit /\ PKInit /\ DigestInit /\ FeedsInit
  /\ naive \in IF focus = "knowledge" THEN {{}, {x3}} ELSE {{}}

Next ==
  /\ UNCHANGED focus
  /\ \/ focus = "vectors" /\ VectorsNext
     \/ focus = "backup" /\ BackupNext
     \/ focus = "canary" /\ CanaryNext
     \/ focus = "evolution" /\ EvolutionNext
     \/ focus = "knowledge" /\ PKNext
     \/ focus = "digests" /\ DigestNext
     \/ focus = "feeds" /\ FeedsNext
  /\ focus \notin {"vectors", "backup"} => UNCHANGED backendVars
  /\ focus # "canary" => UNCHANGED canaryVars
  /\ focus # "evolution" => UNCHANGED evolutionVars
  /\ focus # "knowledge" => UNCHANGED pkVars
  /\ focus # "digests" => UNCHANGED digestVars
  /\ focus # "feeds" => UNCHANGED feedVars

Spec == Init /\ [][Next]_<<focus, backendVars, canaryVars, evolutionVars, pkVars, digestVars, feedVars>>

\* Shared documents and digests: a search finds exactly the documents that are
\* stored, and what a company was told is accepted can be read.
StoredAsPromised == IndexFollowsDocs /\ AcceptedIsStored

MCKeys == {r, k}
MCFacts == 1..MaxWrites
MCWords == {"deal"}
MCInKey == [w \in MCWords |-> {r}]
MCInSummary == [w \in MCWords |-> {r, k}]
MCSimilar(query, x) == IF x = k THEN 14000 ELSE 9000
MCOverhead == r :> 2 @@ k :> 4
MCDeployments == {c1, c2}

MCSources == <<"news", "rss", "paper", "status", "alert">>
MCSourceType == "news" :> "market" @@ "rss" :> "tech" @@ "paper" :> "tech"
                @@ "status" :> "ops" @@ "alert" :> "ops"
MCSourceTier == "ops" :> "A" @@ "tech" :> "B" @@ "market" :> "C"

MCPublishers == {p1, p2}
MCDocs == {x1, x2, x3}
MCPublishedAt == x1 :> 1 @@ x2 :> 2 @@ x3 :> 3
MCFreshUntil == x1 :> 3 @@ x2 :> 1 @@ x3 :> 3
MCDigest == {g1, g2, g3}

MCQueries == {q1, q2}
MCGathered == "u" :> "brave" @@ "v" :> "hn"

Alike == Permutations(MCDeployments) \cup Permutations(MCPublishers) \cup Permutations({g1, g2})
=============================================================================
