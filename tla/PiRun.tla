------------------------------- MODULE PiRun -------------------------------
(***************************************************************************)
(* One Pi and the runs that share it (pi.py): the context of the user it   *)
(* works for, the agent SDK and the direct call it falls back to, and the  *)
(* cascade from cheap to dear models (cascade.py) with the statistics the  *)
(* team keeps of it.  Runs of different users interleave at every await.   *)
(*                                                                         *)
(* A model's prices and languages are a table; costs are integers, and a   *)
(* penalty is counted in quarters (1.0 is 4).  What an answer says is only *)
(* whether check_adequate is content with it.                              *)
(***************************************************************************)
EXTENDS Naturals, Sequences, FiniteSets, SequencesExt

CONSTANTS Models, Target,           \* MODEL_PRICES; the Pi's own model
          CostRank, ProviderOf,     \* [model -> ...]
          Penalty,                  \* _lang_penalty: [language -> [model -> quarters]]
          LangOf,                   \* detect_language: [run -> language of its task]
          Runs, Cascades,           \* runs of the Pi; those with cascade=True
          Complex,                  \* the runs whose task is rated above 0.5
          SkipAttempts,             \* should_skip: attempts before a model may be skipped
          MaxTries                  \* bound of the model: attempts counted

ASSUME PiRunAssumption ==
  /\ Cascades \cup Complex \subseteq Runs /\ DOMAIN LangOf = Runs
  /\ IsFiniteSet(Models) /\ CostRank \in [Models -> Nat] /\ SkipAttempts \in Nat \ {0} /\ MaxTries \in Nat

VARIABLES
  context,  \* _user_context: the run it is of, "none"
  sdk,      \* the agent SDK: "works", "backs off" after a failure, "missing"
  stats,    \* cascade-metrics.json: [model -> [attempts, successes]]
  phase,    \* [run -> where it is]
  chain,    \* [run -> the models it tries]
  step,     \* [run -> index in its chain]
  mine,     \* [run -> the statistics it loaded, with its own]
  last,     \* [run -> last_result: the model it is of, "none" if it is empty]
  tools,    \* _tool_context: [run -> whose context the tools of its attempt have]
  tried,    \* history: [model -> attempts of all cascades, and the successes]
  given,    \* [run -> its answer: of which model, and whether adequate]
  lossy     \* history: two cascades ran at once, or one was given up

piVars == <<context, sdk, stats, phase, chain, step, mine, last, tools, tried, given, lossy>>

----------------------------------------------------------------------------
(* cascade.py                                                              *)

NoStats == [m \in Models |-> [attempts |-> 0, successes |-> 0]]

\* record.
Record(table, m, succeeded) ==
  [table EXCEPT ![m] = [attempts |-> @.attempts + 1,
                        successes |-> IF succeeded THEN @.successes + 1 ELSE @.successes]]

\* should_skip: after enough attempts, fewer than 15 in 100 of them successes.
ShouldSkip(table, m) ==
  /\ table[m].attempts >= SkipAttempts
  /\ 100 * table[m].successes < 15 * table[m].attempts

Adjusted(m, l) == CostRank[m] * Penalty[l][m]

\* build_cascade_chain: the cheaper ones by adjusted cost, the target last; what
\* costs the same may come in any order.  A target without a price is alone.
Chains(target, same, l) ==
  IF target \notin Models THEN {<<target>>} ELSE
  LET cheaper == {m \in Models \ {target} :
                    CostRank[m] <= CostRank[target] /\ (same => ProviderOf[m] = ProviderOf[target])}
      sorted == {c \in [1..Cardinality(cheaper) -> cheaper] :
                   /\ IsInjective(c)
                   /\ \A i, j \in DOMAIN c : i < j => Adjusted(c[i], l) <= Adjusted(c[j], l)}
  IN  {Append(c, target) : c \in sorted}

\* get_downgrade: the dearest of its provider's cheaper models.
Downgrade(m) ==
  LET cheaper == {x \in Models : ProviderOf[x] = ProviderOf[m] /\ CostRank[x] < CostRank[m]}
  IN  {x \in cheaper : \A y \in cheaper : CostRank[y] <= CostRank[x]}

\* pick_start_tier.
StartTier(models, table, complex) ==
  IF Len(models) <= 1 THEN 1
  ELSE IF ShouldSkip(table, models[1]) THEN 2
  ELSE IF complex /\ Len(models) > 2 THEN 2 ELSE 1

\* get_effective_chain, of an engine that crosses providers.
EffectiveChains(r, table, l) ==
  {SubSeq(models, StartTier(models, table, r \in Complex), Len(models)) :
     models \in Chains(Target, FALSE, l)}

----------------------------------------------------------------------------
(* pi.py                                                                   *)

Nothing == [of |-> "none", adequate |-> FALSE]

PiInit ==
  /\ context = "none" /\ sdk \in {"works", "missing"}
  /\ stats = NoStats /\ tried = NoStats
  /\ phase = [r \in Runs |-> "new"]
  /\ chain = [r \in Runs |-> <<>>] /\ step = [r \in Runs |-> 1]
  /\ mine = [r \in Runs |-> NoStats]
  /\ last = [r \in Runs |-> "none"] /\ tools = [r \in Runs |-> "none"]
  /\ given = [r \in Runs |-> Nothing] /\ lossy = FALSE

Model(r) == chain[r][step[r]]
IsLast(r) == step[r] = Len(chain[r])
Going == {r \in Runs : phase[r] \in {"ready", "agent", "direct"}}
Escalates(r) == r \in Cascades /\ Len(chain[r]) > 1

\* run, up to its first await: the prompt with the relevant memory is built, and
\* with a cascade the statistics are loaded and the chain is chosen.
Begin(r) ==
  /\ phase[r] = "new"
  /\ context' = r
  /\ phase' = [phase EXCEPT ![r] = "ready"]
  /\ mine' = [mine EXCEPT ![r] = stats]
  /\ \E models \in IF r \in Cascades THEN EffectiveChains(r, stats, LangOf[r]) ELSE {<<Target>>} :
       chain' = [chain EXCEPT ![r] = models]
  /\ lossy' = (lossy \/ (r \in Cascades /\ Going \cap Cascades # {}))
  /\ UNCHANGED <<sdk, stats, step, last, tools, tried, given>>

\* _run_single, _run_with_model: the tools are built for whoever the context is
\* of by now (_build_tool_context), unless the direct call is made, without tools.
Ask(r) ==
  /\ phase[r] = "ready"
  /\ LET direct == ProviderOf[Model(r)] = "anthropic" /\ sdk # "works"
     IN  /\ phase' = [phase EXCEPT ![r] = IF direct THEN "direct" ELSE "agent"]
         /\ tools' = IF direct THEN tools ELSE [tools EXCEPT ![r] = context]
  /\ UNCHANGED <<context, sdk, stats, chain, step, mine, last, tried, given, lossy>>

\* _run_claude: the agent SDK is not there or failed, perhaps after its tools
\* were used; it is left alone for a while, and the task is asked again.
AgentFallsBack(r) ==
  /\ phase[r] = "agent" /\ ProviderOf[Model(r)] = "anthropic"
  /\ sdk' = IF sdk = "missing" THEN "missing" ELSE "backs off"
  /\ phase' = [phase EXCEPT ![r] = "direct"]
  /\ UNCHANGED <<context, stats, chain, step, mine, last, tools, tried, given, lossy>>

BackoffEnds ==
  /\ sdk = "backs off" /\ sdk' = "works"
  /\ UNCHANGED <<context, stats, phase, chain, step, mine, last, tools, tried, given, lossy>>

\* The end of run, however it ends: the context is cleared, whose ever it is.
Ends(r, how, what) ==
  /\ phase' = [phase EXCEPT ![r] = how]
  /\ tools' = [tools EXCEPT ![r] = "none"]
  /\ given' = [given EXCEPT ![r] = what]
  /\ context' = "none"

\* A bug: a model that failed is not counted, as in "succeeded" only.
BadCount(r, m, succeeded) ==
  /\ mine' = IF succeeded THEN [mine EXCEPT ![r] = Record(mine[r], m, succeeded)] ELSE mine
  /\ tried' = Record(tried, m, succeeded)

Count(r, m, succeeded) ==
  /\ mine' = [mine EXCEPT ![r] = Record(mine[r], m, succeeded)]
  /\ tried' = Record(tried, m, succeeded)

\* The model has answered: adequately, poorly, or nothing at all, which takes the
\* place of what another model said before and counts as no result.
Answered(r, said) ==
  /\ phase[r] \in {"agent", "direct"}
  /\ LET m == Model(r)
         adequate == said = "adequate"
     IN IF ~Escalates(r)
        THEN Ends(r, "done", [of |-> m, adequate |-> adequate]) /\ UNCHANGED <<stats, step, mine, last, tried>>
        ELSE IF IsLast(r) \/ adequate
        THEN /\ Count(r, m, TRUE) /\ stats' = mine'[r]
             /\ Ends(r, "done", [of |-> m, adequate |-> adequate])
             /\ UNCHANGED <<step, last>>
        ELSE /\ Count(r, m, FALSE)
             /\ last' = [last EXCEPT ![r] = IF said = "empty" THEN "none" ELSE m]
             /\ step' = [step EXCEPT ![r] = @ + 1]
             /\ phase' = [phase EXCEPT ![r] = "ready"]
             /\ UNCHANGED <<context, stats, tools, given>>
  /\ UNCHANGED <<sdk, chain, lossy>>

\* A bug: the last inadequate answer is forgotten with a failure.
BadKept(r) == "none"
Kept(r) == last[r]

\* It failed or was out of time; after the last model, run falls back on the
\* last answer that was not adequate.
Fails(r) ==
  /\ phase[r] \in {"agent", "direct"}
  /\ IF ~Escalates(r)
     THEN Ends(r, "failed", Nothing) /\ UNCHANGED <<stats, step, mine, tried>>
     ELSE /\ Count(r, Model(r), FALSE)
          /\ IF ~IsLast(r)
             THEN /\ step' = [step EXCEPT ![r] = @ + 1]
                  /\ phase' = [phase EXCEPT ![r] = "ready"]
                  /\ UNCHANGED <<context, stats, tools, given>>
             ELSE /\ stats' = mine'[r]
                  /\ IF Kept(r) # "none" THEN Ends(r, "done", [of |-> Kept(r), adequate |-> FALSE])
                                         ELSE Ends(r, "failed", Nothing)
                  /\ UNCHANGED step
  /\ UNCHANGED <<sdk, chain, last, lossy>>

\* Whoever asked gave up (a timeout above): nothing is saved.
RunCancelled(r) ==
  /\ r \in Going
  /\ Ends(r, "cancelled", Nothing)
  /\ lossy' = (lossy \/ r \in Cascades)
  /\ UNCHANGED <<sdk, stats, chain, step, mine, last, tried>>

\* The same task comes again.
Again(r) ==
  /\ phase[r] \in {"done", "failed", "cancelled"}
  /\ \A m \in Models : tried[m].attempts < MaxTries
  /\ phase' = [phase EXCEPT ![r] = "new"]
  /\ step' = [step EXCEPT ![r] = 1] /\ last' = [last EXCEPT ![r] = "none"]
  /\ chain' = [chain EXCEPT ![r] = <<>>] /\ mine' = [mine EXCEPT ![r] = NoStats]
  /\ given' = [given EXCEPT ![r] = Nothing]
  /\ UNCHANGED <<context, sdk, stats, tools, tried, lossy>>

PiNext ==
  \/ BackoffEnds
  \/ \E r \in Runs :
       \/ Begin(r) \/ Ask(r) \/ AgentFallsBack(r) \/ Fails(r) \/ RunCancelled(r) \/ Again(r)
       \/ \E said \in {"adequate", "poor", "empty"} : Answered(r, said)

PiSpec == PiInit /\ [][PiNext]_piVars

----------------------------------------------------------------------------
\* A chain tries no model twice, none that costs more than the target, the target
\* last, and leaves out none that the cost gate may lower the target to.
ChainsClimb ==
  \A target \in Models, same \in BOOLEAN, l \in DOMAIN Penalty :
    \A c \in Chains(target, same, l) :
      /\ c[Len(c)] = target /\ IsInjective(c)
      /\ \A i \in 1..Len(c) : CostRank[c[i]] <= CostRank[target]
      /\ Downgrade(target) \subseteq ToSet(c)

\* An answer that is not adequate is given only after every model of the chain was
\* asked: it is the target's own, or the one that came last before the target
\* failed, and there is no error as long as that one was not empty.
EscalatesBeforeSettling ==
  /\ ChainsClimb
  /\ \A r \in Cascades :
       /\ phase[r] = "done" /\ ~given[r].adequate /\ Escalates(r) => step[r] = Len(chain[r])
       /\ phase[r] = "failed" /\ Escalates(r) => last[r] = "none"

\* The statistics a team keeps of its cascades count every attempt, failures
\* included, as long as no two cascades were loaded and saved across each other
\* and none was given up.
AttemptsCounted == (~lossy /\ Going \cap Cascades = {}) => stats = tried

\* "Pi is stateless: each run() = one SDK query call." (pi.py)
ToolsAreOwn == \A r \in Runs : tools[r] \in {r, "none"}
=============================================================================
