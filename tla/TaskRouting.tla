---------------------------- MODULE TaskRouting ----------------------------
(***************************************************************************)
(* The way of a task to its teams: the router (router.py), run_auto and    *)
(* run_team of the orchestrator, and the refresh of the info team between  *)
(* them (background.py).  The teams, the companies' shared teams and       *)
(* the router's bindings change while a task waits for the routing model,  *)
(* for the refresh or for the cost gate.                                   *)
(*                                                                         *)
(* A team is [name, owner]: a private team belongs to a company, a global  *)
(* one to "none".  What a task says is its tag, the bindings whose pattern *)
(* it matches and how strongly each team's keywords match it.              *)
(* The text of the prompts and the money (CostGate) are left out, and so   *)
(* are a plan that names a team twice and runs that skip the cost check.   *)
(***************************************************************************)
EXTENDS Naturals, Sequences, FiniteSets, SequencesExt

CONSTANTS Teams, OwnerOf, MetaTeams, Info,  \* all teams there may be; the info team
          Companies,
          Tasks,
          CompanyOf,  \* [task -> its company or "none"]
          TagOf,      \* [task -> the team its @tag names or "none"]
          BoundTo,    \* [task -> the team a global binding or the gateway's hint names, or "none"]
          Matches,    \* [task -> the bindings it matches]
          Keywords,   \* [task -> [team -> its keyword score]]
          Unknown,    \* tasks run in a mode nobody registered
          Bindings    \* bindings: [team, owner, rank], tried by rank

ASSUME TaskRoutingAssumption ==
  /\ MetaTeams \subseteq Teams /\ Info \in Teams \ MetaTeams /\ Unknown \subseteq Tasks
  /\ \A t \in Teams : OwnerOf[t] \in Companies \cup {"none"}
  /\ TagOf \in [Tasks -> Teams \cup {"none"}] /\ BoundTo \in [Tasks -> Teams \cup {"none"}]

VARIABLES
  registered,  \* the registry's teams
  shares,      \* [company -> the global teams it shares; all of them by default]
  bound,       \* _bindings
  indexed,     \* available_teams of the keyword router
  at,          \* [task -> where it is]
  may,         \* [task -> allowed_teams, taken when its routing started]
  plan,        \* [task -> the teams decided on, in order of priority]
  declined,    \* [task -> the decision declined it]
  abreast,     \* [task -> its teams run in parallel]
  run,         \* [task -> [team -> where that run_team is]]
  told,        \* [task -> [team -> events emitted of the run, and the warning behind them]]
  audits,      \* [task -> TASK_ROUTED events]
  spends       \* [task -> [team -> spends recorded]]

routeVars == <<at, may, plan, declined, abreast, audits>>
runVars == <<run, told, spends>>
envVars == <<registered, shares, bound, indexed>>
trVars == <<envVars, routeVars, runVars>>

Global == {t \in Teams : OwnerOf[t] = "none"}

----------------------------------------------------------------------------
(* router.py                                                               *)

\* get_available_teams.
Available(c) ==
  {t \in registered \ MetaTeams :
     IF OwnerOf[t] = "none" THEN c = "none" \/ t \in shares[c] ELSE OwnerOf[t] = c}

\* _build_system_prompt: the teams it describes.
Visible(c) == {t \in registered \ MetaTeams : OwnerOf[t] \in {"none", c}}

\* TeamRouter: no teams at all means that any team will do.
Knows(t) == indexed = {} \/ t \in indexed

\* _check_explicit_tag.
Tagged(r) == TagOf[r] # "none" /\ Knows(TagOf[r])

\* route_with_confidence: a team no other one beats.
KeywordTeams(r) ==
  LET known == {t \in Teams : Knows(t) /\ Keywords[r][t] > 0}
  IN  {t \in known : \A u \in known : Keywords[r][u] <= Keywords[r][t]}

\* The first binding that matches and names a team there is and the task may use.
BindingTeams(r, allowed) ==
  LET fit == {b \in bound : b \in Matches[r] /\ b.team \in registered \cap allowed}
  IN  {b.team : b \in {x \in fit : \A y \in fit : x.rank <= y.rank}}

\* A decision for `teams', in that order; none is the one that declines.
Decided(r, teams, parallel) ==
  /\ at' = [at EXCEPT ![r] = IF teams = <<>> THEN "declined"
                             ELSE IF Info \in ToSet(teams) THEN "routed" ELSE "refresh"]
  /\ plan' = [plan EXCEPT ![r] = teams]
  /\ declined' = [declined EXCEPT ![r] = teams = <<>>]
  /\ abreast' = [abreast EXCEPT ![r] = parallel /\ Len(teams) > 1]

Audited(r) == audits' = [audits EXCEPT ![r] = @ + 1]

\* A bug: what the keywords say is not held against what the task may use.
BadFallback(r, allowed) ==
  /\ \/ \E t \in KeywordTeams(r) : Decided(r, <<t>>, FALSE)
     \/ KeywordTeams(r) = {} /\ Decided(r, <<>>, FALSE)
  /\ Audited(r)

\* _keyword_fallback, and the filter behind it.
Fallback(r, allowed) ==
  /\ \/ \E t \in KeywordTeams(r) : Decided(r, IF t \in allowed THEN <<t>> ELSE <<>>, FALSE)
     \/ KeywordTeams(r) = {} /\ Decided(r, <<>>, FALSE)
  /\ Audited(r)

\* run_auto, and route up to the call of the model: a global binding or a hint goes
\* straight to its team; a tag decides, even against the task; then the bindings.
RunAuto(r) ==
  /\ at[r] = "new"
  /\ LET allowed == Available(CompanyOf[r])
     IN  /\ may' = [may EXCEPT ![r] = allowed]
         /\ IF CompanyOf[r] = "none" /\ BoundTo[r] # "none"
            THEN /\ at' = [at EXCEPT ![r] = "routed"] /\ plan' = [plan EXCEPT ![r] = <<BoundTo[r]>>]
                 /\ UNCHANGED <<declined, abreast, audits>>
            ELSE IF Tagged(r)
            THEN IF TagOf[r] \in allowed THEN Decided(r, <<TagOf[r]>>, FALSE) /\ Audited(r)
                                         ELSE Decided(r, <<>>, FALSE) /\ UNCHANGED audits
            ELSE IF BindingTeams(r, allowed) # {}
            THEN \E t \in BindingTeams(r, allowed) : Decided(r, <<t>>, FALSE) /\ Audited(r)
            ELSE IF Visible(CompanyOf[r]) # {}
            THEN at' = [at EXCEPT ![r] = "asking"] /\ UNCHANGED <<plan, declined, abreast, audits>>
            ELSE Fallback(r, allowed)
  /\ UNCHANGED <<envVars, runVars>>

\* What the model may name: one team, two of them in an order, or nothing.
Answers == {<<>>} \cup {<<t>> : t \in Teams} \cup {p \in Teams \X Teams : p[1] # p[2]}

\* _parse_response and route: of the teams named those there are and the task may
\* use, in their order.
Usable(r, named) ==
  {teams \in Answers :
     /\ ToSet(teams) = ToSet(named) \cap (registered \ MetaTeams) \cap may[r]
     /\ \A i, j \in DOMAIN teams : i < j =>
          \E k, l \in DOMAIN named : k < l /\ teams[i] = named[k] /\ teams[j] = named[l]}

\* The model has answered, with teams or without: an answer that declines, that
\* cannot be read or names no team of use is as good as none.
ModelAnswers(r, named, parallel) ==
  /\ at[r] = "asking"
  /\ \E teams \in Usable(r, named) :
       IF teams # <<>> THEN Decided(r, teams, parallel) /\ Audited(r) ELSE Fallback(r, may[r])
  /\ UNCHANGED <<may, envVars, runVars>>

----------------------------------------------------------------------------
(* background.py and the rest of run_auto                                  *)

\* refresh_info_for_task is over, whatever came of it, unless the info team is one
\* of those decided on; the teams are run.
Refreshed(r) ==
  /\ at[r] \in {"refresh", "routed"} /\ at' = [at EXCEPT ![r] = "running"]
  /\ run' = [run EXCEPT ![r] =
       [t \in Teams |-> IF t = plan[r][1] \/ (abreast[r] /\ t \in ToSet(plan[r])) THEN "called" ELSE "none"]]
  /\ UNCHANGED <<envVars, may, plan, declined, abreast, audits, told, spends>>

Steps(r, t, where) == run' = [run EXCEPT ![r][t] = where]
Tells(r, t, what) == told' = [told EXCEPT ![r][t] = Append(@, what)]

----------------------------------------------------------------------------
(* run_team                                                                *)

\* can_access_team.
MayUse(c, t) == IF OwnerOf[t] = "none" THEN c = "none" \/ t \in shares[c] ELSE OwnerOf[t] = c

\* The task may use the team and there is one; the cost gate is asked.
Checked(r, t) ==
  /\ run[r][t] = "called"
  /\ Steps(r, t, IF MayUse(CompanyOf[r], t) /\ t \in registered THEN "at the gate" ELSE "refused")
  /\ UNCHANGED <<envVars, routeVars, told, spends>>

GateAnswers(r, t, approved) ==
  /\ run[r][t] = "at the gate"
  /\ IF approved THEN Steps(r, t, "executing") /\ Tells(r, t, "started")
                 ELSE Steps(r, t, "refused") /\ UNCHANGED told
  /\ UNCHANGED <<envVars, routeVars, spends>>

\* A bug: a failure is told and a completion with it, as in a `finally'.
BadExecuted(r, t, well) ==
  /\ run[r][t] = "executing" /\ r \notin Unknown
  /\ Steps(r, t, IF well THEN "telling" ELSE "failed")
  /\ told' = [told EXCEPT ![r][t] = IF well THEN Append(@, "completed") ELSE @ \o <<"failed", "completed">>]
  /\ UNCHANGED <<envVars, routeVars, spends>>

Executed(r, t, well) ==
  /\ run[r][t] = "executing" /\ r \notin Unknown
  /\ Steps(r, t, IF well THEN "telling" ELSE "failed")
  /\ Tells(r, t, IF well THEN "completed" ELSE "failed")
  /\ UNCHANGED <<envVars, routeVars, spends>>

\* The mode is looked up after the start was told, and its error is passed on as
\* it is: no end is told of such a run.
NoSuchMode(r, t) ==
  /\ run[r][t] = "executing" /\ r \in Unknown /\ Steps(r, t, "failed")
  /\ UNCHANGED <<envVars, routeVars, told, spends>>

\* Those who listen to the end have been told; the spend is recorded.  When that fails,
\* before it is in the log or behind it, only a warning tells.
Recorded(r, t, well) ==
  /\ run[r][t] = "telling" /\ Steps(r, t, "done")
  /\ \/ spends' = [spends EXCEPT ![r][t] = @ + 1]
     \/ ~well /\ UNCHANGED spends
  /\ IF well THEN UNCHANGED told ELSE Tells(r, t, "unrecorded")
  /\ UNCHANGED <<envVars, routeVars>>

\* _run_sequential: the next team gets what the last one said.
NextTeam(r, i) ==
  /\ at[r] = "running" /\ ~abreast[r] /\ i < Len(plan[r])
  /\ run[r][plan[r][i]] = "done" /\ run[r][plan[r][i + 1]] = "none"
  /\ Steps(r, plan[r][i + 1], "called")
  /\ UNCHANGED <<envVars, routeVars, told, spends>>

Over == {"done", "failed", "refused"}
Reached(r) == {t \in ToSet(plan[r]) : run[r][t] # "none"}

\* run_auto returns: with what the teams said, or an error.
Returned(r) ==
  /\ at[r] = "running" /\ \A t \in Reached(r) : run[r][t] \in Over
  /\ LET done == {t \in Reached(r) : run[r][t] = "done"}
     IN  \/ done = ToSet(plan[r]) /\ at' = [at EXCEPT ![r] = "answered"]
         \/ done # {} /\ abreast[r] /\ at' = [at EXCEPT ![r] = "answered"]
         \/ Reached(r) # done /\ ~(abreast[r] /\ done # {}) /\ at' = [at EXCEPT ![r] = "error"]
  /\ UNCHANGED <<envVars, may, plan, declined, abreast, audits, runVars>>

\* Whoever asked gave up, or ran out of time: every await under it ends.
TaskCancelled(r) ==
  /\ at[r] \in {"asking", "refresh", "routed", "running"}
  /\ at' = [at EXCEPT ![r] = "cancelled"]
  /\ run' = [run EXCEPT ![r] = [t \in Teams |->
       IF run[r][t] \in {"called", "at the gate", "executing", "telling"} THEN "cancelled" ELSE run[r][t]]]
  /\ UNCHANGED <<envVars, may, plan, declined, abreast, audits, told, spends>>

----------------------------------------------------------------------------
(* What happens meanwhile: companies set up, torn down and changed.        *)

\* add, the bindings of a company, and invalidate_cache.
SetUp(c) ==
  /\ registered' = registered \cup {t \in Teams : OwnerOf[t] = c}
  /\ bound' = bound \cup {b \in Bindings : b.owner = c}
  /\ indexed' = registered' \ MetaTeams
  /\ registered' # registered
  /\ UNCHANGED <<shares, routeVars, runVars>>

\* remove_bindings_by_owner, invalidate_cache.
TearDown(c) ==
  /\ registered' = {t \in registered : OwnerOf[t] # c}
  /\ bound' = {b \in bound : b.owner # c}
  /\ indexed' = registered' \ MetaTeams
  /\ registered' # registered
  /\ UNCHANGED <<shares, routeVars, runVars>>

Shares(c, teams) ==
  /\ shares[c] # teams /\ shares' = [shares EXCEPT ![c] = teams]
  /\ UNCHANGED <<registered, bound, indexed, routeVars, runVars>>

TrInit ==
  /\ registered = Global /\ shares = [c \in Companies |-> Global]
  /\ bound = {b \in Bindings : b.owner = "none"} /\ indexed = Global \ MetaTeams
  /\ at = [r \in Tasks |-> "new"] /\ may = [r \in Tasks |-> {}] /\ plan = [r \in Tasks |-> <<>>]
  /\ declined = [r \in Tasks |-> FALSE] /\ abreast = [r \in Tasks |-> FALSE]
  /\ audits = [r \in Tasks |-> 0]
  /\ run = [r \in Tasks |-> [t \in Teams |-> "none"]]
  /\ told = [r \in Tasks |-> [t \in Teams |-> <<>>]]
  /\ spends = [r \in Tasks |-> [t \in Teams |-> 0]]

TaskStep(r) ==
  \/ RunAuto(r) \/ Refreshed(r) \/ Returned(r) \/ TaskCancelled(r)
  \/ \E named \in Answers, parallel \in BOOLEAN : ModelAnswers(r, named, parallel)
  \/ \E i \in 1..2 : NextTeam(r, i)
  \/ \E t \in Teams :
       \/ Checked(r, t) \/ NoSuchMode(r, t)
       \/ \E well \in BOOLEAN : GateAnswers(r, t, well) \/ Executed(r, t, well) \/ Recorded(r, t, well)

EnvStep ==
  \E c \in Companies :
    \/ SetUp(c) \/ TearDown(c)
    \/ \E teams \in {Global, {}} : Shares(c, teams)

RoutingSpec == TrInit /\ [][EnvStep \/ \E r \in Tasks : TaskStep(r)]_trVars

----------------------------------------------------------------------------
\* What run_auto acts on.  A decision that declines names no team and one that
\* does not names at least one; each was open to the task when its routing
\* started, and none is a meta-team.  Every decision was told once, but for a
\* tag the task may not use.
DecisionsHold ==
  \A r \in Tasks :
    LET direct == CompanyOf[r] = "none" /\ BoundTo[r] # "none"
    IN  at[r] \notin {"new", "asking", "cancelled"} =>
          /\ declined[r] <=> plan[r] = <<>>
          /\ ~direct => ToSet(plan[r]) \subseteq may[r] \ MetaTeams
          /\ audits[r] <= 1
          /\ (IF declined[r] THEN TagOf[r] = "none" ELSE ~direct) => audits[r] = 1

\* What is told of a run: a start once the gate approved it and one end, the one
\* it had, unless its mode is not known or it was cancelled; it is charged once if
\* it was done and told, at most once where a warning said so, and never else.  A
\* team in sequence starts only when those before it are done, and an answer rests
\* on a team that was.
RunsAreTold ==
  \A r \in Tasks :
    /\ \A t \in Teams :
         /\ told[r][t] \in CASE run[r][t] \in {"none", "called", "at the gate", "refused"} -> {<<>>}
                            [] run[r][t] = "executing" -> {<<"started">>}
                            [] run[r][t] = "telling" -> {<<"started", "completed">>}
                            [] run[r][t] = "done" -> {<<"started", "completed">>, <<"started", "completed", "unrecorded">>}
                            [] run[r][t] = "cancelled" -> {told[r][t]}
                            [] run[r][t] = "failed" -> {IF r \in Unknown THEN <<"started">> ELSE <<"started", "failed">>}
         /\ spends[r][t] \in IF run[r][t] # "done" THEN {0} ELSE IF Len(told[r][t]) = 2 THEN {1} ELSE {0, 1}
    /\ ~abreast[r] => \A i, j \in DOMAIN plan[r] :
         i < j /\ run[r][plan[r][j]] # "none" => run[r][plan[r][i]] = "done"
    /\ at[r] = "answered" => \E t \in ToSet(plan[r]) : run[r][t] = "done"
=============================================================================
