--------------------------- MODULE ExecutionModes ---------------------------
(***************************************************************************)
(* The modes a team runs a task in (modes/) and the runs of several teams  *)
(* (multi_team.py).  An execution asks Pis or teams for parts, one after   *)
(* the other or all at once, keeps those that come back, and puts one      *)
(* answer together; the loop notes each part in a progress file that every *)
(* loop of the same task in the team shares.                               *)
(*                                                                         *)
(* A part is "asked" until it is "done", "empty" (an empty answer),        *)
(* "failed" (a PiError) or "broke" (any other exception).  What is asked   *)
(* and what is answered is left out; a judge's scores are small integers.  *)
(***************************************************************************)
EXTENDS Naturals, Sequences, FiniteSets, SequencesExt, FiniteSetsExt

CONSTANTS Executions,
          ModeOf,      \* [execution -> its mode]
          Width,       \* Pis of the team, or teams of the decision
          Leaderless,  \* executions in a team whose lead_pi is none of its Pis
          Judged,      \* executions in a team with a rubric
          MaxSubtasks, MaxSteps,
          Scores, Unscored  \* a judge's weighted scores, of the scale from 1 to 10 that it is
                            \* given; 10.0, for a perspective it left out

ASSUME ExecutionModesAssumption ==
  /\ ModeOf \in [Executions -> {"default", "loop", "council", "collaborative",
                                "conditional", "parallel", "sequential"}]
  /\ Leaderless \cup Judged \subseteq Executions
  /\ Width \in Nat \ {0} /\ MaxSteps \in Nat \ {0} /\ MaxSubtasks \in Nat
  /\ Scores \subseteq Nat /\ Unscored \in Nat

VARIABLES
  stage,     \* [execution -> what it waits for]
  total,     \* [execution -> parts it will ask for]
  parts,     \* [execution -> a sequence: how each part stands]
  kept,      \* [execution -> the perspectives its judge left]
  answer,    \* [execution -> what it returned, and the parts that went into it]
  progress,  \* progress-<hash>.json: <<execution, status>> of each part of the loops
  pipelines  \* pipeline-log.json: the pipelines that were run to the end

exVars == <<stage, total, parts, kept, answer, progress, pipelines>>

Asked(e) == {i \in DOMAIN parts[e] : parts[e][i] = "asked"}
Good(e) == {i \in DOMAIN parts[e] : parts[e][i] = "done"}
NoAnswer == [kind |-> "none", of |-> {}]

ExInit ==
  /\ stage = [e \in Executions |-> "new"] /\ total = [e \in Executions |-> 0]
  /\ parts = [e \in Executions |-> <<>>] /\ kept = [e \in Executions |-> {}]
  /\ answer = [e \in Executions |-> NoAnswer]
  /\ progress = <<>> /\ pipelines = {}

\* What an execution does next: wait at a stage, with one more part asked for ...
WaitsFor(e, where, now) ==
  /\ stage' = [stage EXCEPT ![e] = where]
  /\ parts' = [parts EXCEPT ![e] = Append(now, "asked")]
  /\ UNCHANGED answer
\* ... or for something that is not a part ...
WaitsAt(e, where, now) ==
  /\ stage' = [stage EXCEPT ![e] = where] /\ parts' = [parts EXCEPT ![e] = now]
  /\ UNCHANGED answer
\* ... or return.
Returns(e, kind, of, now) ==
  /\ stage' = [stage EXCEPT ![e] = "over"] /\ parts' = [parts EXCEPT ![e] = now]
  /\ answer' = [answer EXCEPT ![e] = [kind |-> kind, of |-> of]]

Ending(s, status) == [s EXCEPT ![Len(s)] = status]
DoneOf(s) == {i \in DOMAIN s : s[i] = "done"}

----------------------------------------------------------------------------
(* default.py, and cascade, which is the same with cascade=True            *)

Execute(e) ==
  /\ stage[e] = "new"
  /\ LET mode == IF ModeOf[e] = "council" /\ Width < 2 THEN "default" ELSE ModeOf[e]
     IN  IF e \in Leaderless /\ mode \in {"default", "loop", "conditional"}
         THEN Returns(e, "error", {}, <<>>)
         ELSE \/ mode = "default" /\ WaitsFor(e, "alone", <<>>)
              \/ mode = "loop" /\ WaitsAt(e, "decompose", <<>>)
              \/ mode = "conditional" /\ WaitsAt(e, "decide", <<>>)
              \/ mode \in {"council", "parallel"} /\ WaitsAt(e, "gather", [i \in 1..Width |-> "asked"])
              \/ mode \in {"collaborative", "sequential"} /\ WaitsFor(e, "pipeline", <<>>)
  /\ total' = [total EXCEPT ![e] = Width]
  /\ UNCHANGED <<kept, progress, pipelines>>

AloneEnds(e, status) ==
  /\ stage[e] = "alone"
  /\ LET now == Ending(parts[e], status)
     IN  IF status \in {"done", "empty"} THEN Returns(e, "answer", {Len(now)}, now)
                                         ELSE Returns(e, "error", {}, now)
  /\ UNCHANGED <<total, kept, progress, pipelines>>

----------------------------------------------------------------------------
(* loop.py                                                                 *)

\* _decompose_task: the parts it is split into, or the task itself.
Decomposed(e, n) ==
  /\ stage[e] = "decompose"
  /\ IF n <= 1 THEN WaitsFor(e, "alone", <<>>) ELSE WaitsFor(e, "subtask", <<>>)
  /\ total' = [total EXCEPT ![e] = n]
  /\ UNCHANGED <<kept, progress, pipelines>>

DecomposeFails(e) ==
  /\ stage[e] = "decompose" /\ Returns(e, "error", {}, <<>>)
  /\ UNCHANGED <<total, kept, progress, pipelines>>

\* A bug: a subtask that failed ends the loop, as a stage ends a pipeline.
BadSubtaskEnds(e, status) ==
  /\ stage[e] = "subtask"
  /\ LET now == Ending(parts[e], status)
     IN  /\ progress' = IF status = "broke" THEN progress ELSE Append(progress, <<e, status>>)
         /\ IF status \in {"broke", "failed"} THEN Returns(e, "error", {}, now)
            ELSE IF Len(now) < total[e] THEN WaitsFor(e, "subtask", now)
            ELSE WaitsAt(e, "synthesize", now)
  /\ UNCHANGED <<total, kept, pipelines>>

\* A subtask is over: it is noted, whether it failed or not, and the next is
\* asked for; after the last, what was done is put together.  Anything but a
\* PiError ends the loop there.
SubtaskEnds(e, status) ==
  /\ stage[e] = "subtask"
  /\ LET now == Ending(parts[e], status)
     IN  /\ progress' = IF status = "broke" THEN progress ELSE Append(progress, <<e, status>>)
         /\ IF status = "broke" THEN Returns(e, "error", {}, now)
            ELSE IF Len(now) < total[e] THEN WaitsFor(e, "subtask", now)
            ELSE IF \A i \in DOMAIN now : now[i] = "failed" THEN Returns(e, "error", {}, now)
            ELSE WaitsAt(e, "synthesize", now)
  /\ UNCHANGED <<total, kept, pipelines>>

\* A bug: the progress file stays.
BadCleared == progress
Cleared == <<>>

\* The lead's synthesis is over: an answer, and the progress file goes; when it
\* failed, the file stays.
LoopSynthesized(e, well) ==
  /\ stage[e] = "synthesize" /\ ModeOf[e] = "loop"
  /\ IF well THEN Returns(e, "answer", Good(e), parts[e]) /\ progress' = Cleared
             ELSE Returns(e, "no synthesis", {}, parts[e]) /\ UNCHANGED progress
  /\ UNCHANGED <<total, kept, pipelines>>

----------------------------------------------------------------------------
(* council.py, and the parallel runs of multi_team.py                      *)

\* The sum of the scores that a judge's mean is taken of.
SumOf(of, score) ==
  LET sum[i \in 0..Width] == IF i = 0 THEN 0
                             ELSE sum[i - 1] + IF i \in of THEN score[i] ELSE 0
  IN  sum[Width]

\* _filter_perspectives: those under 0.7 of the mean go, unless fewer than two
\* stay: then the best two do, of equal ones the first.
FilterPerspectives(of, score) ==
  LET n == Cardinality(of)
      high == {i \in of : 10 * n * score[i] >= 7 * SumOf(of, score)}
      best == {pair \in kSubset(2, of) :
                 \A i \in pair, j \in of \ pair : score[i] > score[j] \/ (score[i] = score[j] /\ i < j)}
  IN  IF n <= 2 THEN {of} ELSE IF Cardinality(high) < 2 THEN best ELSE {high}

\* Every perspective is there: the only one is the answer; more are judged,
\* where the team has a rubric, and put together by the lead.
CouncilGathered(e, now) ==
  LET good == DoneOf(now)
  IN  IF good = {} THEN Returns(e, "error", {}, now)
      ELSE IF Cardinality(good) = 1 THEN Returns(e, "answer", good, now)
      ELSE IF e \in Leaderless THEN Returns(e, "error", {}, now)
      ELSE WaitsAt(e, IF e \in Judged THEN "judge" ELSE "synthesize", now)

\* _run_parallel: whatever came back is the answer.
TeamsGathered(e, now) ==
  LET good == {i \in DOMAIN now : now[i] \in {"done", "empty"}}
  IN  IF good = {} THEN Returns(e, "error", {}, now) ELSE Returns(e, "answer", good, now)

Waited(now) == "asked" \notin ToSet(now)

\* One of those asked together is back.  What is not a PiError ends a council at
\* once, while the others go on; what then comes back is dropped.
GatherEnds(e, i, status) ==
  /\ ModeOf[e] \in {"council", "parallel"} /\ stage[e] \in {"gather", "over"} /\ i \in Asked(e)
  /\ LET now == [parts[e] EXCEPT ![i] = status]
     IN  IF stage[e] = "over" THEN WaitsAt(e, "over", now)
         ELSE IF status = "broke" /\ ModeOf[e] = "council" THEN Returns(e, "error", {}, now)
         ELSE IF ~Waited(now) THEN WaitsAt(e, "gather", now)
         ELSE IF ModeOf[e] = "council" THEN CouncilGathered(e, now) ELSE TeamsGathered(e, now)
  /\ UNCHANGED <<total, kept, progress, pipelines>>

\* _judge_perspectives: scores for those it named, or none at all.
Judge(e, scored, score) ==
  /\ stage[e] = "judge" /\ scored \subseteq Good(e)
  /\ WaitsAt(e, "synthesize", parts[e])
  /\ \E of \in IF scored = {} THEN {Good(e)}
              ELSE FilterPerspectives(Good(e), [i \in Good(e) |-> IF i \in scored THEN score[i] ELSE Unscored]) :
       kept' = [kept EXCEPT ![e] = of]
  /\ UNCHANGED <<total, progress, pipelines>>

\* What is not an object among the scores raises once they are used, outside of what
\* skips a failing judge.
JudgeBreaks(e) ==
  /\ stage[e] = "judge" /\ Returns(e, "unfit scores", {}, parts[e])
  /\ UNCHANGED <<total, kept, progress, pipelines>>

CouncilSynthesized(e, well) ==
  /\ stage[e] = "synthesize" /\ ModeOf[e] = "council"
  /\ LET of == IF e \in Judged THEN kept[e] ELSE Good(e)
     IN IF well THEN Returns(e, "answer", of, parts[e]) ELSE Returns(e, "no synthesis", {}, parts[e])
  /\ UNCHANGED <<total, kept, progress, pipelines>>

----------------------------------------------------------------------------
(* collaborative.py, and the sequential runs of multi_team.py              *)

\* A stage is over: the next gets its output; the last one's is the answer,
\* once the pipeline is logged.  Any failure ends the pipeline.
StageEnds(e, status) ==
  /\ stage[e] = "pipeline"
  /\ LET now == Ending(parts[e], status)
         logged == ModeOf[e] = "collaborative" /\ status \in {"done", "empty"} /\ Len(now) = total[e]
     IN  /\ IF status \in {"failed", "broke"} THEN Returns(e, "error", {}, now)
            ELSE IF Len(now) < total[e] THEN WaitsFor(e, "pipeline", now)
            ELSE IF status = "empty" /\ ModeOf[e] = "collaborative" THEN Returns(e, "error", {}, now)
            ELSE Returns(e, "answer", {Len(now)}, now)
         /\ pipelines' = IF logged THEN pipelines \cup {e} ELSE pipelines
  /\ UNCHANGED <<total, kept, progress>>

----------------------------------------------------------------------------
(* conditional.py                                                          *)

\* What there is when the steps end early: the last branch's result, or `kind'.
LastOr(e, kind, now) ==
  LET n == Cardinality({i \in DOMAIN now : now[i] \in {"done", "empty"}})
  IN  IF n > 0 THEN Returns(e, "answer", {n}, now) ELSE Returns(e, kind, {}, now)

\* The lead has decided: for a branch, that all is done, or something that is
\* not a decision, which it is asked for once more.
Decides(e, what) ==
  /\ stage[e] \in {"decide", "retry"}
  /\ \/ what = "route" /\ WaitsFor(e, "branch", parts[e])
     \/ what = "done" /\ LastOr(e, "answer", parts[e])
     \/ what = "no json" /\ stage[e] = "decide" /\ WaitsAt(e, "retry", parts[e])
     \/ what = "failed" /\ stage[e] = "decide" /\ LastOr(e, "error", parts[e])
     \/ what \in {"no json", "failed"} /\ stage[e] = "retry" /\ Returns(e, "answer", {}, parts[e])
     \/ what \in {"summary", "no team"} /\ Returns(e, "answer", {}, parts[e])
     \/ what = "broke" /\ Returns(e, "broke", {}, parts[e])
  /\ UNCHANGED <<total, kept, progress, pipelines>>

BranchEnds(e, status) ==
  /\ stage[e] = "branch"
  /\ LET now == Ending(parts[e], status)
     IN IF status \in {"failed", "broke"} \/ Len(now) = MaxSteps THEN LastOr(e, "error", now)
        ELSE WaitsAt(e, "decide", now)
  /\ UNCHANGED <<total, kept, progress, pipelines>>

----------------------------------------------------------------------------
Statuses == {"done", "empty", "failed", "broke"}

ExStep(e) ==
  \/ Execute(e) \/ DecomposeFails(e) \/ JudgeBreaks(e)
  \/ \E n \in 0..MaxSubtasks : Decomposed(e, n)
  \/ \E well \in BOOLEAN : LoopSynthesized(e, well) \/ CouncilSynthesized(e, well)
  \/ \E status \in Statuses :
       \/ AloneEnds(e, status) \/ StageEnds(e, status) \/ BranchEnds(e, status)
       \/ SubtaskEnds(e, IF status = "empty" THEN "done" ELSE status)
       \/ \E i \in 1..Width : GatherEnds(e, i, status)
  \/ \E scored \in SUBSET (1..Width) : \E score \in [scored -> Scores] : Judge(e, scored, score)
  \/ \E what \in {"route", "done", "summary", "no team", "no json", "failed", "broke"} : Decides(e, what)

ExSpec == ExInit /\ [][\E e \in Executions : ExStep(e)]_exVars

----------------------------------------------------------------------------
\* No perspective the judge left out has a higher score than one it kept, and
\* none is left out that is as good as the mean.
KeepsTheBest ==
  \A score \in [1..Width -> Scores \cup {Unscored}] : \A of \in FilterPerspectives(1..Width, score) :
    \A i \in of, j \in (1..Width) \ of :
      score[i] >= score[j] /\ Width * score[j] < SumOf(1..Width, score)

\* What was done is not lost with what failed.  An execution ends without an answer
\* only when nothing was done, in a mode whose parts build on each other, when there
\* is no lead to put the parts together, because of an exception of a part that is
\* not a PiError, or because one more call of the lead failed: its synthesis, in
\* whatever way; its decision on the next branch, by what is not a PiError; its
\* scores, when they do not have the form they were asked for in.  An answer goes
\* back to parts that were done (a council's to at least two of them, if there
\* were), and nothing is left running behind it.
DoneWorkSurvives ==
  /\ KeepsTheBest
  /\ \A e \in Executions :
       /\ answer[e].kind \notin {"none", "answer"} =>
            \/ Good(e) = {} \/ ModeOf[e] \in {"collaborative", "sequential"}
            \/ ModeOf[e] = "council" /\ e \in Leaderless
            \/ ModeOf[e] \in {"loop", "council"} /\ "broke" \in ToSet(parts[e])
            \/ ModeOf[e] \in {"loop", "council"} /\ answer[e].kind = "no synthesis"
            \/ ModeOf[e] = "conditional" /\ answer[e].kind = "broke"
            \/ ModeOf[e] = "council" /\ e \in Judged /\ answer[e].kind = "unfit scores"
       /\ answer[e].kind = "answer" =>
            /\ Asked(e) = {} /\ \A i \in answer[e].of : parts[e][i] \in {"done", "empty"}
            /\ ModeOf[e] = "council" =>
                 Cardinality(answer[e].of) >= IF Cardinality(Good(e)) < 2 THEN 1 ELSE 2

\* What there is in a sequence of the members of a set, in its order.
Only(s, K) ==
  LET only[n \in 0..Len(s)] == IF n = 0 THEN <<>>
                              ELSE IF s[n] \in K THEN Append(only[n - 1], s[n]) ELSE only[n - 1]
  IN  only[Len(s)]

\* Each loop's entries in the progress file are its parts, in their order; those
\* before another loop of the task ended well may be gone with that one's own.
\* A loop that ended well leaves none, one that did not leaves them to be read.
ProgressTells ==
  \A e \in {x \in Executions : ModeOf[x] = "loop" /\ total[x] > 1} :
    LET written == Only(progress, {e} \X Statuses)
        ended == Only([i \in DOMAIN parts[e] |-> <<e, parts[e][i]>>], {e} \X {"done", "failed"})
    IN  IF answer[e].kind = "answer" THEN written = <<>>
        ELSE /\ \E n \in 0..Len(ended) : written = SubSeq(ended, n + 1, Len(ended))
             /\ written = ended \/ \E x \in Executions \ {e} : ModeOf[x] = "loop" /\ answer[x].kind = "answer"
=============================================================================
