------------------------------ MODULE Evolution ------------------------------
(***************************************************************************)
(* The evolution engine (evolution.py): a cycle asks every source, awaits  *)
(* each, groups what they reported into proposals and appends these to a   *)
(* file in global memory, where people decide on them meanwhile.  The file *)
(* is read anew and written whole by every change.                         *)
(***************************************************************************)
EXTENDS Naturals, FiniteSets, Sequences, SequencesExt

CONSTANTS Sources,     \* the sources that are enabled and have a fetcher, in order
          SourceType,  \* [source -> its type]
          SourceTier,  \* [type -> "A", "B" or "C"]
          MaxReports,  \* observations of one look at a source
          MaxCycles, MaxDecided, MaxCrashes \* bounds of the model

ASSUME EvolutionAssumption ==
  /\ Sources \in Seq(DOMAIN SourceType)
  /\ \A s \in DOMAIN SourceType : SourceTier[SourceType[s]] \in {"A", "B", "C"}
  /\ MaxReports \in Nat /\ MaxCycles \in Nat /\ MaxDecided \in Nat /\ MaxCrashes \in Nat

VARIABLES
  cycle,      \* the cycle that runs: the sources still to ask, what the others said
  proposals,  \* evolution-proposals.json: of each proposal its observations and status
  reported,   \* history: the observations of the cycles that ended
  decided,    \* history: [position in the file -> the last decision of a person]
  cycles, evCrashes

evolutionVars == <<cycle, proposals, reported, decided, cycles, evCrashes>>

NoCycle == [asks |-> << >>, got |-> {}]

EvolutionInit ==
  /\ cycle = NoCycle /\ proposals = << >> /\ reported = {} /\ decided = << >>
  /\ cycles = 0 /\ evCrashes = 0

\* An observation is known by its cycle, its source and its number there.
TierOf(o) == SourceTier[SourceType[o.source]]

\* A bug: observations of tier B are grouped by source.
BadGrouped(got) ==
  {{o} : o \in {p \in got : TierOf(p) = "A"}}
  \cup {{o \in got : o.source = s /\ TierOf(o) # "A"} : s \in {p.source : p \in got}}

\* generate_proposals: one for each observation of tier A, one for each type of
\* tier B, one for all of tier C.
Grouped(got) ==
  LET tier(t) == {o \in got : TierOf(o) = t}
      ofType(t) == {o \in tier("B") : SourceType[o.source] = t}
  IN  {{o} : o \in tier("A")}
      \cup {ofType(t) : t \in {SourceType[o.source] : o \in tier("B")}}
      \cup ({tier("C")} \ {{}})

\* _persist_proposals.
Extended(new) == proposals \o [i \in 1..Len(new) |-> [obs |-> new[i], status |-> "pending"]]

\* run_cycle begins.
CycleBegins ==
  /\ cycle = NoCycle /\ cycles < MaxCycles
  /\ cycles' = cycles + 1
  /\ cycle' = [asks |-> Sources, got |-> {}]
  /\ UNCHANGED <<proposals, decided, reported, evCrashes>>

\* check_sources: the next source answers; one that fails reports nothing.
SourceAnswers ==
  /\ cycle.asks # << >>
  /\ \E n \in 0..MaxReports :
       cycle' = [asks |-> Tail(cycle.asks),
                 got |-> cycle.got \cup
                   {[cycle |-> cycles, source |-> Head(cycle.asks), nr |-> i] : i \in 1..n}]
  /\ UNCHANGED <<proposals, decided, reported, cycles, evCrashes>>

\* generate_proposals and _persist_proposals follow without an await; the file
\* is not touched when nothing was reported.
CycleEnds ==
  /\ cycle # NoCycle /\ cycle.asks = << >>
  /\ proposals' = IF cycle.got = {} THEN proposals ELSE Extended(SetToSeq(Grouped(cycle.got)))
  /\ reported' = reported \cup cycle.got
  /\ cycle' = NoCycle
  /\ UNCHANGED <<decided, cycles, evCrashes>>

\* update_proposal_status: any status may follow any other.
Decide(i, status) ==
  /\ i \in DOMAIN proposals
  /\ i \in DOMAIN decided \/ Cardinality(DOMAIN decided) < MaxDecided
  /\ proposals' = [proposals EXCEPT ![i].status = status]
  /\ decided' = [j \in DOMAIN decided \cup {i} |-> IF j = i THEN status ELSE decided[j]]
  /\ UNCHANGED <<cycle, reported, cycles, evCrashes>>

\* The process ends: what the cycle was told so far is lost.
EvolutionCrash ==
  /\ evCrashes < MaxCrashes /\ evCrashes' = evCrashes + 1
  /\ cycle' = NoCycle
  /\ UNCHANGED <<proposals, decided, reported, cycles>>

EvolutionNext ==
  \/ CycleBegins \/ SourceAnswers \/ CycleEnds \/ EvolutionCrash
  \/ \E i \in DOMAIN proposals, status \in {"approved", "rejected"} : Decide(i, status)

----------------------------------------------------------------------------
\* Every observation of a finished cycle is in exactly one proposal, one of tier
\* A alone in its own, the others with those of their tier, and what a
\* person decided while the next cycle was awaiting its sources stays decided.
ProposalsComplete ==
  /\ UNION {proposals[i].obs : i \in DOMAIN proposals} = reported
  /\ \A i, j \in DOMAIN proposals : i # j => proposals[i].obs \cap proposals[j].obs = {}
  /\ \A i \in DOMAIN proposals : \A o, p \in proposals[i].obs :
       /\ TierOf(o) = TierOf(p) /\ o.cycle = p.cycle
       /\ TierOf(o) = "A" => o = p
       /\ TierOf(o) = "B" => SourceType[o.source] = SourceType[p.source]
  /\ \A o, p \in reported :
       o.cycle = p.cycle /\ TierOf(o) # "A" /\ SourceType[o.source] = SourceType[p.source] =>
         \E i \in DOMAIN proposals : {o, p} \subseteq proposals[i].obs
  /\ \A i \in DOMAIN decided : i \in DOMAIN proposals /\ proposals[i].status = decided[i]
=============================================================================
