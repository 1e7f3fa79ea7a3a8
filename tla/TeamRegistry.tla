---------------------------- MODULE TeamRegistry ----------------------------
(***************************************************************************)
(* TeamRegistry (companest/team.py) and the calls that use it: run_team    *)
(* fetches a team's instance, waits for the cost gate and for subscribers  *)
(* of TASK_STARTED, and only then counts itself as active; the registry    *)
(* keeps instances with a count and drops the others when they are idle,   *)
(* when their company is torn down and when it is reloaded.                *)
(*                                                                         *)
(* Every method is synchronous.  An instance is represented by the edition *)
(* of the team.md it was built from.  A company has one private team,      *)
(* called like the company.                                                *)
(***************************************************************************)
EXTENDS Integers, FiniteSets

CONSTANTS
    Runs,           \* calls of run_team
    Companies,      \* their private teams
    BaseTeams,      \* the other teams
    AlwaysOn,       \* base teams with always_on
    OnDisk,         \* base teams with a directory of their own
    NoTeam,
    IdleLimit,      \* idle_timeout, in ticks
    MaxEdition,     \* bound: editions of team definitions
    MaxReloads      \* bound: calls of reload()

Teams == Companies \cup BaseTeams

ASSUME RunsAssumption == IsFiniteSet(Runs)
ASSUME TeamsAssumption ==
    /\ Companies \cap BaseTeams = {} /\ NoTeam \notin Teams
    /\ AlwaysOn \subseteq BaseTeams /\ OnDisk \subseteq BaseTeams
ASSUME BoundsAssumption == {IdleLimit, MaxReloads} \subseteq Nat /\ MaxEdition \in Nat \ {0}

(* A definition whose name starts with Bad is a mutant of the definition below *)
(* it: the same code with a plausible mistake, used to see that the properties *)
(* notice.  No action of Next uses one.                                        *)

VARIABLES
    configs,    \* _configs: the edition registered for each team; 0 is none
    cached,     \* _instances: the edition of the cached instance; 0 is none
    meta,       \* _meta_teams, likewise
    active,     \* _active_count; 0 is no entry
    age,        \* ticks since _last_used; -1 is no entry
    pc,         \* where each call of run_team is
    want,       \* its team
    edition,    \* editions written so far
    reloads

registry == <<configs, cached, meta, active, age, edition, reloads>>
calls    == <<pc, want>>
teamVars == <<registry, calls>>

Entry(t) == IF t \in OnDisk THEN 1 ELSE 0

TeamInit ==
    /\ configs = [t \in Teams |-> Entry(t)]
    /\ meta = [t \in Teams |-> IF t \in AlwaysOn THEN Entry(t) ELSE 0]
    /\ cached = [t \in Teams |-> 0]
    /\ active = [t \in Teams |-> 0]
    /\ age = [t \in Teams |-> -1]
    /\ pc = [r \in Runs |-> "idle"]
    /\ want = [r \in Runs |-> NoTeam]
    /\ edition = 1 /\ reloads = 0

-----------------------------------------------------------------------------
(* The calls. *)

\* run_team starts: get_or_create() finds or builds the instance.  A team that is
\* neither registered nor cached raises and changes nothing.
Begin(r, t) ==
    /\ pc[r] = "idle"
    /\ meta[t] # 0 \/ cached[t] # 0 \/ configs[t] # 0
    /\ pc' = [pc EXCEPT ![r] = "gate"]
    /\ want' = [want EXCEPT ![r] = t]
    /\ IF meta[t] # 0 THEN UNCHANGED <<cached, age>>
       ELSE /\ cached' = [cached EXCEPT ![t] = IF @ # 0 THEN @ ELSE configs[t]]
            /\ age' = [age EXCEPT ![t] = 0]
    /\ UNCHANGED <<configs, meta, active, edition, reloads>>

\* The call is over.
Gone(r) == /\ pc' = [pc EXCEPT ![r] = "idle"]
           /\ want' = [want EXCEPT ![r] = NoTeam]

\* The gate rejects it, or the call is cancelled there: it was never counted.
Leave(r) == pc[r] = "gate" /\ Gone(r) /\ UNCHANGED registry

\* Both awaits are over: acquire(), and the mode executes.
Acquire(r) ==
    /\ pc[r] = "gate"
    /\ pc' = [pc EXCEPT ![r] = "running"]
    /\ active' = [active EXCEPT ![want[r]] = @ + 1]
    /\ UNCHANGED <<configs, cached, meta, age, edition, reloads, want>>

\* Releases one count too many.
BadFinish(r) ==
    /\ pc[r] = "running" /\ Gone(r)
    /\ active' = [active EXCEPT ![want[r]] = 0]
    /\ age' = [age EXCEPT ![want[r]] = 0]
    /\ UNCHANGED <<configs, cached, meta, edition, reloads>>

\* The run returned, failed or was cancelled: release(), in a finally clause.
Finish(r) ==
    /\ pc[r] = "running" /\ Gone(r)
    /\ active' = [active EXCEPT ![want[r]] = IF @ > 1 THEN @ - 1 ELSE 0]
    /\ age' = [age EXCEPT ![want[r]] = 0]
    /\ UNCHANGED <<configs, cached, meta, edition, reloads>>

-----------------------------------------------------------------------------
(* The registry's upkeep. *)

\* Looks at the clock alone.
BadIdle(t) == age[t] > IdleLimit

Idle(t) == age[t] > IdleLimit /\ active[t] = 0

\* evict_idle().
EvictIdle ==
    /\ \E t \in Teams : Idle(t)
    /\ cached' = [t \in Teams |-> IF Idle(t) THEN 0 ELSE cached[t]]
    /\ age' = [t \in Teams |-> IF Idle(t) THEN -1 ELSE age[t]]
    /\ UNCHANGED <<configs, meta, active, edition, reloads, calls>>

Tick ==
    /\ age' = [t \in Teams |-> IF age[t] \in 0..IdleLimit THEN age[t] + 1 ELSE age[t]]
    /\ age' # age
    /\ UNCHANGED <<configs, cached, meta, active, edition, reloads, calls>>

\* register(): a team defined by the program, or a new definition of it.
Register(t) ==
    /\ t \in BaseTeams /\ edition < MaxEdition
    /\ edition' = edition + 1
    /\ configs' = [configs EXCEPT ![t] = edition']
    /\ meta' = [meta EXCEPT ![t] = IF t \in AlwaysOn THEN edition' ELSE @]
    /\ UNCHANGED <<cached, active, age, reloads, calls>>

\* unregister_company() drops the instances nobody is counted on.
Unused(torn, t) == t \in torn /\ configs[t] # 0 /\ active[t] = 0

\* unregister_company() for the companies in torn, then scan_company_teams() for
\* those in scanned, whose team.md has the edition read[c].
Reregister(torn, scanned, read) ==
    /\ configs' = [t \in Teams |-> IF t \in scanned THEN read[t]
                                   ELSE IF t \in torn THEN 0 ELSE configs[t]]
    /\ cached' = [t \in Teams |-> IF Unused(torn, t) THEN 0 ELSE cached[t]]
    /\ age' = [t \in Teams |-> IF Unused(torn, t) THEN -1 ELSE age[t]]
    /\ meta' = [t \in Teams |-> IF Unused(torn, t) THEN 0 ELSE meta[t]]
    /\ UNCHANGED <<active, reloads, calls>>

\* reload(): only what has a count survives, and the base teams are read again.
Reload ==
    /\ reloads < MaxReloads
    /\ reloads' = reloads + 1
    /\ configs' = [t \in Teams |-> Entry(t)]
    /\ meta' = [t \in Teams |-> IF t \in AlwaysOn THEN Entry(t) ELSE 0]
    /\ cached' = [t \in Teams |-> IF active[t] > 0 THEN cached[t] ELSE 0]
    /\ age' = [t \in Teams |-> IF active[t] > 0 /\ cached[t] # 0 THEN age[t] ELSE -1]
    /\ UNCHANGED <<active, edition, calls>>

Company ==
    \E torn, scanned \in SUBSET Companies, last \in 1..MaxEdition :
      \E read \in [scanned -> 1..last] :
        Reregister(torn, scanned, read) /\ edition' = last

TeamNext ==
    \/ \E r \in Runs : (\E t \in Teams : Begin(r, t)) \/ Leave(r) \/ Acquire(r) \/ Finish(r)
    \/ \E t \in BaseTeams : Register(t)
    \/ EvictIdle \/ Tick \/ Reload \/ Company

TeamSpec == TeamInit /\ [][TeamNext]_teamVars
-----------------------------------------------------------------------------
(* Properties. *)

\* Every variable has its type, and a call has a team while it is in progress.
TeamTypeOK ==
    /\ configs \in [Teams -> Nat] /\ cached \in [Teams -> Nat] /\ meta \in [Teams -> Nat]
    /\ active \in [Teams -> Nat] /\ age \in [Teams -> -1..(IdleLimit + 1)]
    /\ pc \in [Runs -> {"idle", "gate", "running"}]
    /\ want \in [Runs -> Teams \cup {NoTeam}]
    /\ edition \in Nat /\ reloads \in Nat
    /\ \A r \in Runs : pc[r] # "idle" => want[r] \in Teams

\* The registry counts exactly the runs of a team, whatever was evicted, torn down
\* or reloaded meanwhile: a count too many would keep the instance for ever, one too
\* few would let it go under a run.
Running(t) == {r \in Runs : pc[r] = "running" /\ want[r] = t}
CountsAreRuns == \A t \in Teams : active[t] = Cardinality(Running(t))

\* An instance in the cache has an entry eviction can see.
CachedIsEvictable == \A t \in Teams : cached[t] # 0 => age[t] # -1

\* No step takes a cached instance away from, or changes it under, a run of the team.
BusyInstanceKept ==
    [][\A t \in Teams : Running(t) # {} /\ cached[t] # 0 => cached'[t] = cached[t]]_teamVars

\* A new definition of a private team, or its end, never leaves the old instance in
\* the cache unless a run is using it.
IdleInstanceDropped ==
    [][\A t \in Companies :
         configs'[t] # configs[t] /\ configs[t] # 0 /\ Running(t) = {} => cached'[t] = 0]_teamVars

\* The registry knows which instances are in use, and can see all the others.
InstancesCounted == CountsAreRuns /\ CachedIsEvictable

\* An instance goes exactly when it may: never under a run, and with its
\* definition when there is none.
InstancesHeld == BusyInstanceKept /\ IdleInstanceDropped
=============================================================================
