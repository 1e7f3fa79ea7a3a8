------------------------ MODULE CompanyRuntimeProofs ------------------------
(* Theorems about CompanyRuntime, and the registry it composes, for every set *)
(* of companies, shapes, calls and teams.                                      *)
EXTENDS CompanyRuntime, FiniteSetTheorems, TLAPS

-----------------------------------------------------------------------------
(* Typing. *)

\* A team's entry on disk is an edition.
LEMMA EntryType == \A t \in Teams : Entry(t) \in Nat
BY DEF Entry

\* The upkeep and the changes of companies keep the registry's types.
LEMMA RegistryType ==
    ASSUME TeamTypeOK, EvictIdle \/ Tick \/ Reload \/ Company \/ \E t \in BaseTeams : Register(t)
    PROVE  TeamTypeOK'
<1> USE BoundsAssumption DEF TeamTypeOK
<1>1. CASE EvictIdle
  BY <1>1 DEF EvictIdle, calls
<1>2. CASE Tick
  BY <1>2 DEF Tick, calls
<1>3. CASE Reload
  BY <1>3, EntryType DEF Reload, calls
<1>4. CASE Company
  <2>1. PICK torn, scanned \in SUBSET Companies, last \in 1..MaxEdition :
          \E read \in [scanned -> 1..last] : Reregister(torn, scanned, read) /\ edition' = last
    BY <1>4 DEF Company
  <2>2. PICK read \in [scanned -> 1..last] : Reregister(torn, scanned, read) /\ edition' = last
    BY <2>1
  <2>3. \A t \in scanned : read[t] \in Nat
    OBVIOUS
  <2> QED BY <2>2, <2>3 DEF Reregister, calls
<1>5. ASSUME NEW t \in BaseTeams, Register(t) PROVE TeamTypeOK'
  BY <1>5 DEF Register, calls, Teams
<1> QED BY <1>1, <1>2, <1>3, <1>4, <1>5

\* The calls keep the types.
LEMMA CallType ==
    ASSUME TeamTypeOK, NEW r \in Runs,
           (\E t \in Teams : Begin(r, t)) \/ Leave(r) \/ Acquire(r) \/ Finish(r)
    PROVE  TeamTypeOK'
<1> USE BoundsAssumption DEF TeamTypeOK
<1>1. ASSUME NEW t \in Teams, Begin(r, t) PROVE TeamTypeOK'
  BY <1>1 DEF Begin
<1>2. CASE Leave(r)
  BY <1>2 DEF Leave, Gone, registry
<1>3. CASE Acquire(r)
  BY <1>3 DEF Acquire
<1>4. CASE Finish(r)
  BY <1>4 DEF Finish, Gone
<1> QED BY <1>1, <1>2, <1>3, <1>4

\* Every step keeps the types.
LEMMA TeamTypeStep ==
    ASSUME TeamTypeOK, [TeamNext]_teamVars
    PROVE  TeamTypeOK'
<1>1. CASE UNCHANGED teamVars
  BY <1>1 DEF TeamTypeOK, teamVars, registry, calls
<1>2. CASE TeamNext
  BY <1>2, CallType, RegistryType DEF TeamNext
<1> QED BY <1>1, <1>2

\* Typing is an invariant: run_team and the registry only ever store what TeamTypeOK says.
THEOREM TeamTypeCorrect == TeamSpec => []TeamTypeOK
<1>1. TeamInit => TeamTypeOK
  BY EntryType, BoundsAssumption DEF TeamInit, TeamTypeOK
<1>2. TeamTypeOK /\ [TeamNext]_teamVars => TeamTypeOK'
  BY TeamTypeStep
<1> QED BY <1>1, <1>2, PTL DEF TeamSpec

-----------------------------------------------------------------------------
(* The counts. *)

\* The calls that are counted on a team are finitely many.
LEMMA RunningFinite == \A t \in Teams : IsFiniteSet(Running(t)) /\ Cardinality(Running(t)) \in Nat
<1>1. \A t \in Teams : IsFiniteSet(Running(t))
  BY RunsAssumption, FS_Subset DEF Running
<1> QED BY <1>1, FS_CardinalityType

\* A call that is not running and does not come to run changes no count.
LEMMA CountsKept ==
    ASSUME CountsAreRuns, UNCHANGED active, NEW r \in Runs,
           pc[r] # "running", pc'[r] # "running",
           \A q \in Runs : q # r => pc'[q] = pc[q] /\ want'[q] = want[q]
    PROVE  CountsAreRuns'
<1>1. \A t \in Teams : Running(t)' = Running(t)
  BY DEF Running
<1> QED BY <1>1 DEF CountsAreRuns

\* acquire() counts the call that begins to run.
LEMMA CountsAcquire ==
    ASSUME TeamTypeOK, CountsAreRuns, NEW r \in Runs, Acquire(r)
    PROVE  CountsAreRuns'
<1> DEFINE w == want[r]
<1>1. /\ w \in Teams /\ pc[r] = "gate" /\ want' = want
      /\ pc' = [pc EXCEPT ![r] = "running"] /\ active' = [active EXCEPT ![w] = @ + 1]
  BY DEF Acquire, TeamTypeOK
<1>2. Running(w)' = Running(w) \cup {r} /\ r \notin Running(w)
  BY <1>1 DEF Running, TeamTypeOK
<1>3. \A t \in Teams : t # w => Running(t)' = Running(t)
  BY <1>1 DEF Running, TeamTypeOK
<1>4. Cardinality(Running(w)') = Cardinality(Running(w)) + 1
  BY <1>1, <1>2, RunningFinite, FS_AddElement
<1> QED BY <1>1, <1>3, <1>4 DEF CountsAreRuns, TeamTypeOK

\* release() counts the call that ends no more.
LEMMA CountsFinish ==
    ASSUME TeamTypeOK, CountsAreRuns, NEW r \in Runs, Finish(r)
    PROVE  CountsAreRuns'
<1>0. PICK w \in Teams : w = want[r]
  BY DEF Finish, TeamTypeOK
<1>1. /\ want[r] = w /\ pc[r] = "running" /\ want' = [want EXCEPT ![r] = NoTeam]
      /\ pc' = [pc EXCEPT ![r] = "idle"]
      /\ active' = [active EXCEPT ![w] = IF @ > 1 THEN @ - 1 ELSE 0]
  BY <1>0 DEF Finish, Gone
<1>2. Running(w)' = Running(w) \ {r} /\ r \in Running(w)
  BY <1>1 DEF Running, TeamTypeOK
<1>3. \A t \in Teams : t # w => Running(t)' = Running(t)
  BY <1>1 DEF Running, TeamTypeOK
<1>4. Cardinality(Running(w)') = Cardinality(Running(w)) - 1 /\ Cardinality(Running(w)') \in Nat
  <2>1. IsFiniteSet(Running(w)')
    BY <1>1, <1>2, RunningFinite, FS_Subset
  <2> QED BY <1>1, <1>2, <2>1, RunningFinite, FS_RemoveElement, FS_CardinalityType
<1>5. active[w] = Cardinality(Running(w)) /\ Cardinality(Running(w)) \in Nat
  BY <1>1, RunningFinite DEF CountsAreRuns
<1>6. (IF active[w] > 1 THEN active[w] - 1 ELSE 0) = Cardinality(Running(w)')
  BY <1>4, <1>5
<1> QED BY <1>1, <1>3, <1>6 DEF CountsAreRuns, TeamTypeOK

\* The registry's own steps touch neither the counts nor the calls.
LEMMA UpkeepKeepsCounts ==
    ASSUME EvictIdle \/ Tick \/ Reload \/ Company \/ \E t \in BaseTeams : Register(t)
    PROVE  UNCHANGED <<active, calls>>
BY DEF EvictIdle, Tick, Reload, Company, Reregister, Register

LEMMA CountsStep ==
    ASSUME TeamTypeOK, CountsAreRuns, [TeamNext]_teamVars
    PROVE  CountsAreRuns'
<1>1. ASSUME UNCHANGED <<active, calls>> PROVE CountsAreRuns'
  <2>1. \A t \in Teams : Running(t)' = Running(t)
    BY <1>1 DEF Running, calls
  <2> QED BY <1>1, <2>1 DEF CountsAreRuns
<1>2. ASSUME NEW r \in Runs, (\E t \in Teams : Begin(r, t)) \/ Leave(r) PROVE CountsAreRuns'
  <2>1. /\ UNCHANGED active /\ pc[r] # "running" /\ pc'[r] # "running"
        /\ \A q \in Runs : q # r => pc'[q] = pc[q] /\ want'[q] = want[q]
    BY <1>2 DEF Begin, Leave, Gone, registry, TeamTypeOK
  <2> QED BY <2>1, CountsKept
<1>3. CASE UNCHANGED teamVars
  BY <1>1, <1>3 DEF teamVars, registry
<1> QED BY <1>1, <1>2, <1>3, CountsAcquire, CountsFinish, UpkeepKeepsCounts DEF TeamNext

\* For every set of calls and teams, the registry counts exactly the calls that run:
\* no eviction, teardown or reload loses a count or leaves one behind.
THEOREM CountsAlwaysRight == TeamSpec => []CountsAreRuns
<1>1. TeamInit => CountsAreRuns
  <2> SUFFICES ASSUME TeamInit PROVE CountsAreRuns
    OBVIOUS
  <2>1. \A t \in Teams : Running(t) = {} /\ active[t] = 0
    BY DEF TeamInit, Running
  <2> QED BY <2>1, FS_EmptySet DEF CountsAreRuns
<1>2. TeamTypeOK /\ CountsAreRuns /\ [TeamNext]_teamVars => CountsAreRuns'
  BY CountsStep
<1> QED BY <1>1, <1>2, TeamTypeCorrect, PTL DEF TeamSpec

-----------------------------------------------------------------------------
(* The cache. *)

\* Every cached instance has a time of last use, so none is out of eviction's sight.
THEOREM CacheAlwaysEvictable == TeamSpec => []CachedIsEvictable
<1>1. TeamInit => CachedIsEvictable
  BY DEF TeamInit, CachedIsEvictable
<1>2. TeamTypeOK /\ CachedIsEvictable /\ [TeamNext]_teamVars => CachedIsEvictable'
  <2> SUFFICES ASSUME TeamTypeOK, CachedIsEvictable, [TeamNext]_teamVars PROVE CachedIsEvictable'
    OBVIOUS
  <2> USE DEF TeamTypeOK, CachedIsEvictable
  <2>1. ASSUME NEW r \in Runs, NEW t \in Teams, Begin(r, t) PROVE CachedIsEvictable'
    BY <2>1 DEF Begin
  <2>2. ASSUME NEW r \in Runs, Leave(r) \/ Acquire(r) \/ Finish(r) PROVE CachedIsEvictable'
    BY <2>2 DEF Leave, Acquire, Finish, registry
  <2>3. ASSUME NEW t \in BaseTeams, Register(t) PROVE CachedIsEvictable'
    BY <2>3 DEF Register
  <2>4. CASE EvictIdle
    BY <2>4 DEF EvictIdle
  <2>5. CASE Tick
    BY <2>5, BoundsAssumption DEF Tick
  <2>6. CASE Reload
    BY <2>6 DEF Reload
  <2>7. CASE Company
    BY <2>7 DEF Company, Reregister
  <2>8. CASE UNCHANGED teamVars
    BY <2>8 DEF teamVars, registry
  <2> QED BY <2>1, <2>2, <2>3, <2>4, <2>5, <2>6, <2>7, <2>8 DEF TeamNext
<1> QED BY <1>1, <1>2, TeamTypeCorrect, PTL DEF TeamSpec

\* A team with a call that runs has a count.
LEMMA BusyIsCounted ==
    ASSUME CountsAreRuns, NEW t \in Teams, Running(t) # {}
    PROVE  active[t] # 0 /\ active[t] \in Nat /\ active[t] > 0
<1>1. active[t] = Cardinality(Running(t)) /\ IsFiniteSet(Running(t)) /\ Cardinality(Running(t)) \in Nat
  BY RunningFinite DEF CountsAreRuns
<1>2. Cardinality(Running(t)) # 0
  BY <1>1, FS_EmptySet
<1> QED BY <1>1, <1>2

\* Neither eviction nor a teardown nor a reload takes the cached instance of a team
\* from under a call that runs.
THEOREM BusyInstanceIsKept == TeamSpec => BusyInstanceKept
<1>1. TeamTypeOK /\ CountsAreRuns /\ [TeamNext]_teamVars
        => [\A t \in Teams : Running(t) # {} /\ cached[t] # 0 => cached'[t] = cached[t]]_teamVars
  <2> SUFFICES ASSUME TeamTypeOK, CountsAreRuns, TeamNext,
                      NEW t \in Teams, Running(t) # {}, cached[t] # 0
               PROVE  cached'[t] = cached[t]
    OBVIOUS
  <2>0. active[t] # 0 /\ active[t] > 0
    BY BusyIsCounted
  <2>1. ASSUME NEW r \in Runs, NEW q \in Teams, Begin(r, q) PROVE cached'[t] = cached[t]
    BY <2>1 DEF Begin, TeamTypeOK
  <2>2. ASSUME NEW r \in Runs, Leave(r) \/ Acquire(r) \/ Finish(r) PROVE cached'[t] = cached[t]
    BY <2>2 DEF Leave, Acquire, Finish, registry
  <2>3. ASSUME NEW q \in BaseTeams, Register(q) PROVE cached'[t] = cached[t]
    BY <2>3 DEF Register
  <2>4. CASE EvictIdle
    BY <2>0, <2>4 DEF EvictIdle, Idle
  <2>5. CASE Tick
    BY <2>5 DEF Tick
  <2>6. CASE Reload
    BY <2>0, <2>6 DEF Reload
  <2>7. CASE Company
    BY <2>0, <2>7 DEF Company, Reregister, Unused
  <2> QED BY <2>1, <2>2, <2>3, <2>4, <2>5, <2>6, <2>7 DEF TeamNext
<1> QED BY <1>1, TeamTypeCorrect, CountsAlwaysRight, PTL DEF TeamSpec, BusyInstanceKept

-----------------------------------------------------------------------------
(* The companies. *)

AnyShape == [valid : BOOLEAN, enabled : BOOLEAN, ceo : BOOLEAN, job : BOOLEAN, team : BOOLEAN]

\* Descriptions without the bound of the day.
Described(at, e) == at \in [Companies -> [shape : AnyShape, edition : 0..e]]

-----------------------------------------------------------------------------
(* What setting up and tearing down does to one company. *)

LEMMA SetUpAt ==
    ASSUME TypeOK, NEW torn \in SUBSET Companies, NEW up \in SUBSET Companies, NEW at,
           SetUp(torn, up, at), NEW c \in Companies
    PROVE  /\ ceo'[c] = IF c \in up /\ at[c].shape.ceo THEN at[c].edition
                        ELSE IF c \in torn THEN 0 ELSE ceo[c]
           /\ task'[<<c, "ceo">>] = IF c \in up /\ at[c].shape.ceo THEN at[c].edition
                                    ELSE IF c \in torn THEN 0 ELSE task[<<c, "ceo">>]
           /\ loop'[<<c, "ceo">>] = IF c \in torn THEN 0 ELSE loop[<<c, "ceo">>]
           /\ configs'[c] = IF c \in up /\ at[c].shape.team THEN at[c].edition
                            ELSE IF c \in torn THEN 0 ELSE configs[c]
<1> DEFINE n == <<c, "ceo">>
<1>1. n \in Names /\ n[1] = c /\ n[2] = "ceo" /\ c \in Teams
  BY DEF Names, Teams
<1>2. "ceo" \in Wanted(at[c]) <=> at[c].shape.ceo
  BY DEF Wanted
<1>3. ceo'[c] = IF c \in up /\ at[c].shape.ceo THEN at[c].edition
                ELSE IF c \in torn THEN 0 ELSE ceo[c]
  BY DEF SetUp
<1>4. /\ task'[n] = IF n[1] \in up /\ n[2] \in Wanted(at[n[1]]) THEN at[n[1]].edition
                    ELSE IF n[1] \in torn THEN 0 ELSE task[n]
      /\ loop'[n] = IF n[1] \in torn THEN 0 ELSE loop[n]
  BY <1>1 DEF SetUp, Schedule
<1>5. configs'[c] = IF c \in up /\ at[c].shape.team THEN at[c].edition
                    ELSE IF c \in torn THEN 0 ELSE configs[c]
  BY <1>1 DEF SetUp, Reregister
<1> QED BY <1>1, <1>2, <1>3, <1>4, <1>5

\* Its parts outside the team registry keep their types.
LEMMA SetUpType ==
    ASSUME TypeOK, NEW torn \in SUBSET Companies, NEW up \in SUBSET Companies, NEW at,
           NEW e \in edition..MaxEdition, Described(at, e), SetUp(torn, up, at)
    PROVE  /\ ceo' \in [Companies -> 0..e] /\ started' = started
           /\ task' \in [Names -> 0..e] /\ loop' \in [Names -> 0..e]
<1>1. /\ \A c \in Companies : at[c].edition \in 0..e
      /\ \A x \in 0..edition : x \in 0..e
      /\ 0 \in 0..e
  BY BoundsAssumption DEF Described, TypeOK
<1>2. \A n \in Names : n[1] \in Companies
  BY DEF Names
<1>3. ceo' \in [Companies -> 0..e]
  BY <1>1 DEF SetUp, TypeOK
<1>4. task' \in [Names -> 0..e] /\ loop' \in [Names -> 0..e] /\ started' = started
  BY <1>1, <1>2 DEF SetUp, Schedule, TypeOK
<1> QED BY <1>3, <1>4

\* To the team registry it is a change of companies.
LEMMA SetUpTeams ==
    ASSUME TypeOK, NEW torn \in SUBSET Companies, NEW up \in SUBSET Companies, NEW at,
           edition' \in edition..MaxEdition, Described(at, edition'),
           \A c \in up : at[c].edition # 0, SetUp(torn, up, at)
    PROVE  Company
<1> DEFINE scanned == {c \in up : at[c].shape.team}
           read == [c \in scanned |-> at[c].edition]
<1>1. scanned \in SUBSET Companies /\ edition' \in 1..MaxEdition
  BY BoundsAssumption DEF TypeOK
<1>2. \A c \in scanned : at[c].edition \in 1..edition'
  BY BoundsAssumption DEF Described, TypeOK
<1>3. read \in [scanned -> 1..edition']
  BY <1>2
<1>4. Reregister(torn, scanned, read)
  BY DEF SetUp
<1> HIDE DEF scanned, read
<1> QED BY <1>1, <1>3, <1>4 DEF Company

-----------------------------------------------------------------------------
(* Every step of the runtime is one of the team registry or leaves it alone. *)

RestOK ==
    /\ edition \in 1..MaxEdition
    /\ disk \in [Companies -> Descriptions] /\ known \in [Companies -> Descriptions]
    /\ seen \in [Companies -> 0..edition] /\ ceo \in [Companies -> 0..edition]
    /\ task \in [Names -> 0..edition] /\ loop \in [Names -> 0..edition]
    /\ started \in {"boot", "no", "yes", "stopped"}
    /\ behind \subseteq Companies /\ unseen \subseteq Companies

LEMMA TypeParts == TypeOK <=> TeamTypeOK /\ RestOK
BY DEF TypeOK, RestOK

\* A later edition leaves every description described.
LEMMA Later ==
    ASSUME TypeOK, edition' \in edition..MaxEdition
    PROVE  /\ edition' \in 1..MaxEdition /\ edition \in 0..edition'
           /\ \A x \in 0..edition : x \in 0..edition'
           /\ Described(disk, edition') /\ Described(known, edition')
           /\ seen \in [Companies -> 0..edition'] /\ ceo \in [Companies -> 0..edition']
           /\ task \in [Names -> 0..edition'] /\ loop \in [Names -> 0..edition']
<1>1. edition' \in 1..MaxEdition /\ edition \in 0..edition' /\ \A x \in 0..edition : x \in 0..edition'
  BY BoundsAssumption DEF TypeOK
<1>2. \A d \in Descriptions : d \in [shape : AnyShape, edition : 0..edition']
  BY <1>1 DEF Descriptions, AnyShape
<1>3. Described(disk, edition') /\ Described(known, edition')
  BY <1>2 DEF TypeOK, Described
<1> QED BY <1>1, <1>3 DEF TypeOK

\* No description, and one of a shape that exists, are descriptions.
LEMMA NewDescription ==
    /\ \A e \in Nat : Absent \in [shape : AnyShape, edition : 0..e]
    /\ \A s \in Shapes, e \in Nat : [shape |-> s, edition |-> e] \in [shape : AnyShape, edition : 0..e]
    /\ \A s \in AnyShape, b \in BOOLEAN, e \in Nat :
         [shape |-> [s EXCEPT !.team = b], edition |-> e] \in [shape : AnyShape, edition : 0..e]
<1>1. Plain \in AnyShape /\ \A s \in Shapes : s \in AnyShape
  BY ShapesAssumption DEF AnyShape
<1>2. \A s \in AnyShape, b \in BOOLEAN : [s EXCEPT !.team = b] \in AnyShape
  BY DEF AnyShape
<1> QED BY <1>1, <1>2 DEF Absent

\* What scan() reads is described.
LEMMA ScannedType ==
    ASSUME TypeOK
    PROVE  Described(Scanned, edition) /\ \A c \in Companies : Scanned[c].edition \in 0..edition
<1>1. edition \in Nat /\ Absent \in [shape : AnyShape, edition : 0..edition]
  BY NewDescription, BoundsAssumption DEF TypeOK
<1>2. \A c \in Companies : disk[c] \in [shape : AnyShape, edition : 0..edition]
  BY DEF TypeOK, Descriptions, AnyShape
<1>3. Described(Scanned, edition)
  BY <1>1, <1>2 DEF Scanned, Described
<1> QED BY <1>3 DEF Described

\* What scan() leaves in the registry is described, even when an editor comes in
\* between, and has the editions of the files it read.
LEMMA ScanType ==
    ASSUME TypeOK, Scan
    PROVE  /\ edition' \in edition..MaxEdition /\ edition' \in Nat
           /\ Described(disk', edition') /\ Described(known', edition')
           /\ seen' \in [Companies -> 0..edition'] /\ unseen' \subseteq Companies
<1>0. edition \in 1..MaxEdition /\ edition \in Nat
  BY BoundsAssumption DEF TypeOK
<1>1. CASE UNCHANGED <<disk, edition>> /\ known' = Scanned /\ unseen' = {}
           /\ seen' = [c \in Companies |-> Scanned[c].edition]
  <2>1. edition' \in edition..MaxEdition
    BY <1>0, <1>1, BoundsAssumption
  <2> QED BY <1>0, <1>1, <2>1, ScannedType, Later
<1>2. ASSUME NEW c \in Companies,
             (\E s \in Shapes : Written(c, [s EXCEPT !.team = disk[c].shape.team])) \/ Removed(c),
             known' = [Scanned EXCEPT ![c].shape.team = disk'[c].edition # 0 /\ @],
             seen' = [d \in Companies |-> IF d = c THEN disk'[c].edition ELSE Scanned[d].edition],
             unseen' = {c}
      PROVE  /\ edition' \in edition..MaxEdition /\ edition' \in Nat
             /\ Described(disk', edition') /\ Described(known', edition')
             /\ seen' \in [Companies -> 0..edition'] /\ unseen' \subseteq Companies
  <2>1. edition' \in edition..MaxEdition /\ edition' \in Nat
    BY <1>0, <1>2, BoundsAssumption DEF Written, Removed
  <2>2. Described(disk', edition')
    <3>1. disk[c].shape.team \in BOOLEAN
      BY DEF TypeOK, Descriptions
    <3>2. ASSUME NEW s \in Shapes, Written(c, [s EXCEPT !.team = disk[c].shape.team])
          PROVE  Described(disk', edition')
      <4>1. s \in AnyShape
        BY ShapesAssumption DEF AnyShape
      <4>2. [shape |-> [s EXCEPT !.team = disk[c].shape.team], edition |-> edition']
              \in [shape : AnyShape, edition : 0..edition']
        BY <2>1, <3>1, <4>1, NewDescription
      <4> QED BY <2>1, <3>2, <4>2, Later DEF Written, Described
    <3>3. CASE Removed(c)
      BY <2>1, <3>3, NewDescription, Later DEF Removed, Described
    <3> QED BY <1>2, <3>2, <3>3
  <2>3. Described(Scanned, edition')
    BY <1>0, <2>1, ScannedType DEF Described
  <2>4. Described(known', edition')
    <3> DEFINE k == Scanned[c]
               b == disk'[c].edition # 0 /\ k.shape.team
    <3>1. k \in [shape : AnyShape, edition : 0..edition'] /\ b \in BOOLEAN
      BY <2>3 DEF Described
    <3>2. [k EXCEPT !.shape.team = b] \in [shape : AnyShape, edition : 0..edition']
      <4> HIDE DEF k, b
      <4> QED BY <3>1 DEF AnyShape
    <3>3. known' = [Scanned EXCEPT ![c] = [k EXCEPT !.shape.team = b]]
      BY <1>2
    <3> HIDE DEF k, b
    <3> QED BY <2>3, <3>2, <3>3 DEF Described
  <2>5. seen' \in [Companies -> 0..edition']
    BY <1>2, <2>2, <2>3 DEF Described
  <2> QED BY <1>2, <2>1, <2>2, <2>4, <2>5
<1> QED BY <1>1, <1>2 DEF Scan

\* save() files the company under what it was given, and no other.
LEMMA SavedKnown ==
    ASSUME TypeOK, NEW c \in Companies, NEW s \in AnyShape, Saved(c, s)
    PROVE  /\ known'[c] = [shape |-> s, edition |-> edition + 1]
           /\ known'[c].shape = s /\ known'[c].edition # 0
           /\ \A d \in Companies : d # c => known'[d] = known[d]
<1>1. edition + 1 # 0 /\ known \in [Companies -> Descriptions]
  BY BoundsAssumption DEF TypeOK
<1>2. known' = [known EXCEPT ![c] = [shape |-> s, edition |-> edition + 1]]
  BY DEF Saved
<1>3. known'[c] = [shape |-> s, edition |-> edition + 1]
  BY <1>1, <1>2
<1>4. known'[c].shape = s /\ known'[c].edition # 0
  BY <1>1, <1>3
<1> QED BY <1>1, <1>2, <1>3, <1>4

\* What save() leaves in the registry is described.
LEMMA SavedType ==
    ASSUME TypeOK, NEW c \in Companies, NEW s \in AnyShape, Saved(c, s)
    PROVE  /\ edition' \in edition..MaxEdition /\ edition' \in Nat
           /\ Described(disk', edition') /\ Described(known', edition')
           /\ seen' \in [Companies -> 0..edition'] /\ unseen' \subseteq Companies
<1>0. edition \in 1..MaxEdition /\ edition \in Nat
  BY BoundsAssumption DEF TypeOK
<1>1. edition' \in edition..MaxEdition /\ edition' \in Nat /\ edition + 1 \in 0..edition'
  BY <1>0, BoundsAssumption DEF Saved, Written
<1>2. [shape |-> s, edition |-> edition + 1] \in [shape : AnyShape, edition : 0..edition']
  BY <1>1
<1>3. Described(disk', edition')
  <2>1. CASE Written(c, s)
    BY <1>1, <1>2, <2>1, Later DEF Written, Described
  <2>2. ASSUME NEW e \in Shapes,
               disk' = [disk EXCEPT ![c] = [shape |-> [e EXCEPT !.team = s.team], edition |-> edition + 2]],
               edition' = edition + 2
        PROVE  Described(disk', edition')
    <3>1. e \in AnyShape /\ s.team \in BOOLEAN
      BY ShapesAssumption DEF AnyShape
    <3>2. [shape |-> [e EXCEPT !.team = s.team], edition |-> edition + 2]
            \in [shape : AnyShape, edition : 0..edition']
      BY <1>1, <2>2, <3>1, NewDescription
    <3> QED BY <1>1, <2>2, <3>2, Later DEF Described
  <2> QED BY <2>1, <2>2 DEF Saved
<1>4. Described(known', edition')
  BY <1>1, <1>2, Later DEF Saved, Described
<1>5. seen' \in [Companies -> 0..edition'] /\ unseen' \subseteq Companies
  BY <1>1, Later DEF Saved, TypeOK
<1> QED BY <1>1, <1>3, <1>4, <1>5

LEMMA SaveStep ==
    ASSUME TypeOK, NEW c \in Companies, NEW s \in Shapes, Save(c, s)
    PROVE  Company /\ RestOK'
<1>1. Saved(c, s) /\ s \in AnyShape
  BY ShapesAssumption DEF Save, AnyShape
<1>2. known'[c].edition # 0
  BY <1>1, SavedKnown
<1> DEFINE torn == IF Initialised(c) THEN {c} ELSE {}
           up == IF s.enabled THEN {c} ELSE {}
<1>3. torn \in SUBSET Companies /\ up \in SUBSET Companies /\ \A d \in up : known'[d].edition # 0
  BY <1>2
<1>4. SetUp(torn, up, known')
  BY DEF Save
<1> HIDE DEF torn, up
<1>5. Company
  <2>1. edition' \in edition..MaxEdition /\ Described(known', edition')
    BY <1>1, SavedType
  <2> QED BY <1>3, <1>4, <2>1, SetUpTeams
<1>6. /\ ceo' \in [Companies -> 0..edition'] /\ started' = started
      /\ task' \in [Names -> 0..edition'] /\ loop' \in [Names -> 0..edition']
  BY <1>1, <1>3, <1>4, SavedType, SetUpType
<1>7. behind' \subseteq Companies
  BY DEF Save, TypeOK
<1> QED BY <1>1, <1>5, <1>6, <1>7, SavedType, Later DEF RestOK, Described, Descriptions, AnyShape, TypeOK

LEMMA DeleteStep ==
    ASSUME TypeOK, NEW c \in Companies, Delete(c)
    PROVE  Company /\ RestOK'
<1>1. edition' = edition /\ edition' \in edition..MaxEdition /\ edition \in Nat
  BY BoundsAssumption DEF Delete, TypeOK
<1>2. Described(disk', edition') /\ Described(known', edition') /\ Described(known, edition')
  BY <1>1, NewDescription, Later DEF Delete, Described
<1>3. SetUp({c}, {}, known) /\ {c} \in SUBSET Companies /\ {} \in SUBSET Companies
  BY DEF Delete
<1>4. Company
  BY <1>1, <1>2, <1>3, SetUpTeams
<1>5. /\ ceo' \in [Companies -> 0..edition'] /\ started' = started
      /\ task' \in [Names -> 0..edition'] /\ loop' \in [Names -> 0..edition']
  BY <1>1, <1>2, <1>3, SetUpType
<1>6. seen' \in [Companies -> 0..edition'] /\ behind' \subseteq Companies /\ unseen' \subseteq Companies
  BY <1>1 DEF Delete, TypeOK
<1> QED BY <1>1, <1>2, <1>4, <1>5, <1>6, Later DEF RestOK, Described, Descriptions, AnyShape, TypeOK

LEMMA WatchStep ==
    ASSUME TypeOK, Watch
    PROVE  Company /\ RestOK'
<1> DEFINE torn == {c \in Companies : Initialised(c)}
           up == {c \in Companies : Enabled(known'[c])}
<1>1. /\ Scan /\ torn \in SUBSET Companies /\ up \in SUBSET Companies /\ SetUp(torn, up, known')
      /\ \A d \in up : known'[d].edition # 0
  BY DEF Watch, Enabled
<1> HIDE DEF torn, up
<1>2. Company
  BY <1>1, ScanType, SetUpTeams
<1>3. /\ ceo' \in [Companies -> 0..edition'] /\ started' = started
      /\ task' \in [Names -> 0..edition'] /\ loop' \in [Names -> 0..edition']
  BY <1>1, ScanType, SetUpType
<1>4. behind' \subseteq Companies
  BY DEF Watch
<1> QED BY <1>1, <1>2, <1>3, <1>4, ScanType, Later DEF RestOK, Described, Descriptions, AnyShape, TypeOK

LEMMA BootStep ==
    ASSUME TypeOK, Boot
    PROVE  Company /\ RestOK'
<1> DEFINE up == {c \in Companies : Enabled(known'[c])}
           scanned == {c \in up : known'[c].shape.team}
           read == [c \in scanned |-> known'[c].edition]
<1>1. Scan /\ edition' \in 1..MaxEdition /\ edition' \in Nat
  BY ScanType, Later DEF Boot
<1>2. \A c \in Companies : known'[c].edition \in 0..edition'
  BY <1>1, ScanType DEF Described
<1>3. read \in [scanned -> 1..edition'] /\ scanned \in SUBSET Companies /\ {} \in SUBSET Companies
  BY <1>1, <1>2 DEF Enabled
<1>4. Reregister({}, scanned, read)
  BY DEF Boot
<1>5. /\ task' \in [Names -> 0..edition'] /\ ceo' \in [Companies -> 0..edition'] /\ started' = "no"
      /\ loop' = loop /\ behind' = behind
  <2>1. \A n \in Names : n[1] \in Companies
    BY DEF Names
  <2>2. 0 \in 0..edition'
    BY <1>1
  <2> QED BY <1>2, <2>1, <2>2 DEF Boot
<1>6. Company
  <2> HIDE DEF scanned, read
  <2> QED BY <1>1, <1>3, <1>4 DEF Company
<1> QED BY <1>1, <1>5, <1>6, ScanType, Later DEF RestOK, Described, Descriptions, AnyShape, TypeOK

\* A step that only changes the edition is one of the team registry.
LEMMA OnlyEdition ==
    ASSUME TypeOK, edition' \in 1..MaxEdition, UNCHANGED <<configs, cached, meta, active, age, reloads, calls>>
    PROVE  Company
<1>1. Reregister({}, {}, <<>>)
  <2>1. \A t \in Teams : ~Unused({}, t)
    BY DEF Unused
  <2> QED BY <2>1 DEF Reregister, TypeOK, TeamTypeOK, calls
<1>2. <<>> \in [{} -> 1..edition']
  OBVIOUS
<1> QED BY <1>1, <1>2 DEF Company

\* Writing a directory and saving it without setting anything up.
LEMMA WriteStep ==
    ASSUME TypeOK, NEW c \in Companies, NEW s \in AnyShape, OnlySave(c, s) \/ SaveFails(c, s) \/ Edit(c)
    PROVE  Company /\ RestOK'
<1>0. edition \in Nat /\ edition \in 1..MaxEdition
  BY BoundsAssumption DEF TypeOK
<1>1. UNCHANGED <<configs, cached, meta, active, age, reloads, calls, ceo, scheduler>> /\ behind' \subseteq Companies
  BY DEF OnlySave, SaveFails, Edit, TypeOK
<1>2. /\ edition' \in edition..MaxEdition /\ Described(disk', edition') /\ Described(known', edition')
      /\ seen' \in [Companies -> 0..edition'] /\ unseen' \subseteq Companies
  <2>1. CASE OnlySave(c, s)
    <3> DEFINE b == disk[c].edition # 0 /\ disk[c].shape.team
    <3>1. [s EXCEPT !.team = b] \in AnyShape /\ Saved(c, [s EXCEPT !.team = b])
      BY <2>1 DEF AnyShape, OnlySave
    <3> HIDE DEF b
    <3> QED BY <3>1, SavedType
  <2>2. CASE SaveFails(c, s)
    <3>1. edition' \in edition..MaxEdition /\ edition' \in Nat /\ edition' = edition + 1
      BY <1>0, <2>2, BoundsAssumption DEF SaveFails
    <3>2. [shape |-> [s EXCEPT !.team = FALSE], edition |-> edition'] \in [shape : AnyShape, edition : 0..edition']
      BY <3>1, NewDescription
    <3>3. Described(disk', edition') /\ Described(known', edition')
      BY <2>2, <3>1, <3>2, NewDescription, Later DEF SaveFails, Described
    <3> QED BY <2>2, <3>1, <3>3, Later DEF SaveFails, TypeOK
  <2>3. CASE Edit(c)
    <3>1. edition' \in edition..MaxEdition /\ edition' \in Nat
      BY <1>0, <2>3, BoundsAssumption DEF Edit, Written, Removed
    <3>2. ASSUME Removed(c) PROVE Described(disk', edition')
      BY <3>1, <3>2, NewDescription, Later DEF Described, Removed
    <3>3. ASSUME NEW t \in Shapes, Written(c, t) PROVE Described(disk', edition')
      BY <3>1, <3>3, NewDescription, Later DEF Described, Written
    <3>4. Described(disk', edition')
      BY <2>3, <3>2, <3>3 DEF Edit
    <3> QED BY <2>3, <3>1, <3>4, Later DEF Edit, TypeOK
  <2> QED BY <2>1, <2>2, <2>3
<1>3. RestOK'
  BY <1>1, <1>2, Later DEF RestOK, Described, Descriptions, AnyShape, TypeOK, scheduler
<1> QED BY <1>1, <1>2, <1>3, Later, OnlyEdition

\* A step that only writes a new edition keeps the types of the rest.
LEMMA RestKept ==
    ASSUME TypeOK, edition' \in edition..MaxEdition, UNCHANGED <<companies, scheduler>>
    PROVE  RestOK'
<1>1. /\ disk' = disk /\ known' = known /\ seen' = seen /\ ceo' = ceo /\ behind' = behind
      /\ unseen' = unseen /\ started' = started /\ task' = task /\ loop' = loop
  BY DEF companies, scheduler
<1>2. started \in {"boot", "no", "yes", "stopped"} /\ behind \subseteq Companies /\ unseen \subseteq Companies
  BY DEF TypeOK
<1> QED BY <1>1, <1>2, Later DEF RestOK, Described, Descriptions, AnyShape

\* Steps that leave the companies alone, or only move the scheduler.
LEMMA OtherStep ==
    ASSUME TypeOK, Start \/ Stop \/ Evict \/ Teamwork \/ UNCHANGED vars
    PROVE  [TeamNext]_teamVars /\ RestOK'
<1>0. edition \in edition..MaxEdition
  BY BoundsAssumption DEF TypeOK
<1>1. ASSUME Start \/ Stop PROVE UNCHANGED teamVars /\ RestOK'
  <2>1. UNCHANGED <<teamVars, companies>> /\ started' \in {"yes", "stopped"} /\ task' = task
    BY <1>1 DEF Start, Stop
  <2>2. loop' \in [Names -> 0..edition]
    BY <1>1, BoundsAssumption DEF Start, Stop, TypeOK
  <2> QED BY <2>1, <2>2 DEF companies, teamVars, registry, RestOK, Descriptions, TypeOK
<1>2. CASE Evict
  <2>1. edition' = edition /\ UNCHANGED <<companies, scheduler>> /\ TeamNext
    BY <1>2 DEF Evict, EvictIdle, TeamNext
  <2> QED BY <1>0, <2>1, RestKept
<1>3. CASE Teamwork
  <2>1. TeamNext /\ UNCHANGED <<companies, scheduler>>
    BY <1>3 DEF Teamwork, TeamNext
  <2>2. UNCHANGED edition \/ (edition < MaxEdition /\ edition' = edition + 1)
    BY <1>3 DEF Teamwork, Begin, Leave, Acquire, Finish, Register, Tick, Reload, registry
  <2>3. edition' \in edition..MaxEdition
    BY <1>0, <2>2, BoundsAssumption DEF TypeOK
  <2> QED BY <2>1, <2>3, RestKept
<1>4. CASE UNCHANGED vars
  BY <1>0, <1>4, RestKept DEF vars, teamVars, registry
<1> QED BY <1>1, <1>2, <1>3, <1>4

LEMMA RuntimeStep ==
    ASSUME TypeOK, [Next]_vars
    PROVE  [TeamNext]_teamVars /\ TypeOK'
<1>1. (Company \/ [TeamNext]_teamVars) /\ RestOK'
  <2>1. /\ Plain \in AnyShape /\ \A s \in Shapes : s \in AnyShape
        /\ \A c \in Companies : known[c].shape \in AnyShape
    BY ShapesAssumption DEF TypeOK, Descriptions, AnyShape
  <2>2. ASSUME NEW c \in Companies,
               AdminCreate(c) \/ Bind(c) \/ Edit(c) \/ \E s \in Shapes : SaveFails(c, s)
        PROVE  (Company \/ [TeamNext]_teamVars) /\ RestOK'
    BY <2>1, <2>2, WriteStep DEF AdminCreate, Bind
  <2> QED BY <2>2, SaveStep, DeleteStep, WatchStep, BootStep, OtherStep DEF Next
<1>2. [TeamNext]_teamVars
  BY <1>1 DEF TeamNext
<1>3. TeamTypeOK'
  BY <1>2, TeamTypeStep, TypeParts
<1> QED BY <1>1, <1>2, <1>3 DEF TypeOK, RestOK

\* Typing of the runtime as a whole.
THEOREM TypeCorrect == Spec => []TypeOK
<1>1. Init => TypeOK
  <2> SUFFICES ASSUME Init PROVE TypeOK
    OBVIOUS
  <2>1. TeamTypeOK
    BY EntryType, BoundsAssumption DEF Init, TeamInit, TeamTypeOK
  <2>2. edition = 1 /\ 1 \in 1..MaxEdition /\ 1 \in Nat
    BY BoundsAssumption DEF Init, TeamInit
  <2>3. disk \in [Companies -> Descriptions] /\ known \in [Companies -> Descriptions]
    <3>1. \A s \in Shapes : s \in AnyShape
      BY ShapesAssumption DEF AnyShape
    <3>2. Absent \in Descriptions /\ [shape : Shapes, edition : {1}] \subseteq Descriptions
      BY <2>2, <3>1, NewDescription DEF Descriptions, AnyShape
    <3> QED BY <3>2 DEF Init
  <2> QED BY <2>1, <2>2, <2>3 DEF Init, TypeOK
<1>2. TypeOK /\ [Next]_vars => TypeOK'
  BY RuntimeStep
<1> QED BY <1>1, <1>2, PTL DEF Spec

\* Handlers, watcher and scheduler together drive the team registry only as TeamSpec
\* allows, so what holds of it alone holds inside the runtime.
THEOREM RuntimeDrivesTeams == Spec => TeamSpec
<1>1. Init => TeamInit
  BY DEF Init
<1>2. TypeOK /\ [Next]_vars => [TeamNext]_teamVars
  BY RuntimeStep
<1> QED BY <1>1, <1>2, TypeCorrect, PTL DEF Spec, TeamSpec

\* The counts are right, every instance can be evicted and no run loses its team's
\* instance, whatever happens to the companies.
THEOREM RuntimeKeepsTeams == Spec => [](CountsAreRuns /\ CachedIsEvictable) /\ BusyInstanceKept
BY RuntimeDrivesTeams, CountsAlwaysRight, CacheAlwaysEvictable, BusyInstanceIsKept, PTL

-----------------------------------------------------------------------------
(* The runtime follows the registry.  The invariant also says that a CEO and its   *)
(* task go together, for the companies the admin page left behind too, and that    *)
(* nothing is set up before init_teams().                                          *)

Current(k, has) == IF Enabled(k) /\ has THEN k.edition ELSE 0

Matches(c) == /\ ceo[c] = Current(known[c], known[c].shape.ceo)
              /\ reloads = 0 => configs[c] = Current(known[c], known[c].shape.team)

CeoHasItsTask == \A c \in Companies : task[<<c, "ceo">>] = ceo[c]

Blank == /\ behind = {}
         /\ \A c \in Companies : ceo[c] = 0 /\ configs[c] = 0 /\ loop[<<c, "ceo">>] = 0

RuntimeInv ==
    /\ CeoHasItsTask /\ NoStaleCeoLoop
    /\ started = "boot" => Blank
    /\ started # "boot" => \A c \in Companies \ behind : Matches(c)

LEMMA InvFollows == RuntimeInv => RuntimeFollowsRegistry
BY DEF RuntimeInv, CeoHasItsTask, Matches, Current, RuntimeFollowsRegistry

\* The company a handler sets up, or every company the watcher does.
LEMMA SetUpMatches ==
    ASSUME TypeOK, CeoHasItsTask, NoStaleCeoLoop,
           NEW torn \in SUBSET Companies, NEW up \in SUBSET Companies, NEW at,
           SetUp(torn, up, at), NEW c \in Companies,
           Initialised(c) => c \in torn, c \in up <=> Enabled(at[c]), known'[c] = at[c]
    PROVE  Matches(c)' /\ task'[<<c, "ceo">>] = ceo'[c] /\ loop'[<<c, "ceo">>] \in {0, task'[<<c, "ceo">>]}
<1>1. c \notin torn => ceo[c] = 0 /\ configs[c] = 0 /\ task[<<c, "ceo">>] = 0 /\ loop[<<c, "ceo">>] = 0
  BY DEF Initialised, CeoHasItsTask, NoStaleCeoLoop
<1>2. task[<<c, "ceo">>] = ceo[c] /\ loop[<<c, "ceo">>] \in {0, task[<<c, "ceo">>]}
  BY DEF CeoHasItsTask, NoStaleCeoLoop
<1> QED BY <1>1, <1>2, SetUpAt DEF Matches, Current

\* The companies that are neither torn down nor set up.
LEMMA SetUpSpares ==
    ASSUME TypeOK, NEW torn \in SUBSET Companies, NEW up \in SUBSET Companies, NEW at,
           SetUp(torn, up, at), NEW c \in Companies, c \notin torn, c \notin up
    PROVE  /\ ceo'[c] = ceo[c] /\ configs'[c] = configs[c] /\ reloads' = reloads
           /\ task'[<<c, "ceo">>] = task[<<c, "ceo">>] /\ loop'[<<c, "ceo">>] = loop[<<c, "ceo">>]
<1>1. reloads' = reloads
  BY DEF SetUp, Reregister
<1> QED BY <1>1, SetUpAt

\* A handler that puts one company right and spares the others keeps the invariant.
LEMMA OneCompanyFollows ==
    ASSUME RuntimeInv, NEW c \in Companies,
           started = "yes", started' = started, behind' = behind \ {c},
           Matches(c)', task'[<<c, "ceo">>] = ceo'[c],
           loop'[<<c, "ceo">>] \in {0, task'[<<c, "ceo">>]},
           \A d \in Companies : d # c =>
             /\ known'[d] = known[d]
             /\ ceo'[d] = ceo[d] /\ configs'[d] = configs[d] /\ reloads' = reloads
             /\ task'[<<d, "ceo">>] = task[<<d, "ceo">>] /\ loop'[<<d, "ceo">>] = loop[<<d, "ceo">>]
    PROVE  RuntimeInv'
<1>1. CeoHasItsTask'
  BY DEF RuntimeInv, CeoHasItsTask
<1>2. NoStaleCeoLoop'
  BY DEF RuntimeInv, NoStaleCeoLoop
<1>3. ASSUME NEW d \in Companies, d \notin behind' PROVE Matches(d)'
  <2>1. CASE d = c
    BY <2>1
  <2>2. CASE d # c
    <3>1. Matches(d)
      BY <1>3, <2>2 DEF RuntimeInv
    <3> QED BY <2>2, <3>1 DEF Matches, Current, Enabled
  <2> QED BY <2>1, <2>2
<1> QED BY <1>1, <1>2, <1>3 DEF RuntimeInv

LEMMA SaveFollows ==
    ASSUME TypeOK, RuntimeInv, NEW c \in Companies, NEW s \in Shapes, Save(c, s)
    PROVE  RuntimeInv'
<1> DEFINE torn == IF Initialised(c) THEN {c} ELSE {}
           up == IF s.enabled THEN {c} ELSE {}
<1>1. /\ SetUp(torn, up, known') /\ torn \in SUBSET Companies /\ up \in SUBSET Companies
      /\ \A d \in Companies : d # c => d \notin torn /\ d \notin up
      /\ Initialised(c) => c \in torn
      /\ started = "yes" /\ started' = started /\ behind' = behind \ {c}
  BY DEF Save, SetUp, Schedule
<1>2. known'[c].shape = s /\ known'[c].edition # 0 /\ \A d \in Companies : d # c => known'[d] = known[d]
  <2>1. s \in AnyShape /\ Saved(c, s)
    BY ShapesAssumption DEF AnyShape, Save
  <2> QED BY <2>1, SavedKnown
<1>3. c \in up <=> Enabled(known'[c])
  BY <1>2 DEF Enabled
<1> HIDE DEF torn, up
<1>4. /\ Matches(c)' /\ task'[<<c, "ceo">>] = ceo'[c]
      /\ loop'[<<c, "ceo">>] \in {0, task'[<<c, "ceo">>]}
  BY <1>1, <1>3, SetUpMatches DEF RuntimeInv
<1>5. \A d \in Companies : d # c =>
        /\ ceo'[d] = ceo[d] /\ configs'[d] = configs[d] /\ reloads' = reloads
        /\ task'[<<d, "ceo">>] = task[<<d, "ceo">>] /\ loop'[<<d, "ceo">>] = loop[<<d, "ceo">>]
  BY <1>1, SetUpSpares
<1> QED BY <1>1, <1>2, <1>4, <1>5, OneCompanyFollows

LEMMA DeleteFollows ==
    ASSUME TypeOK, RuntimeInv, NEW c \in Companies, Delete(c)
    PROVE  RuntimeInv'
<1>1. /\ SetUp({c}, {}, known) /\ {c} \in SUBSET Companies /\ {} \in SUBSET Companies
      /\ started = "yes" /\ started' = started /\ behind' = behind \ {c}
  BY DEF Delete, SetUp, Schedule
<1>2. known'[c].edition = 0 /\ \A d \in Companies : d # c => known'[d] = known[d]
  BY DEF Delete, Absent, TypeOK
<1>3. ceo'[c] = 0 /\ configs'[c] = 0 /\ task'[<<c, "ceo">>] = 0 /\ loop'[<<c, "ceo">>] = 0
  BY <1>1, SetUpAt
<1>4. \A d \in Companies : d # c =>
        /\ ceo'[d] = ceo[d] /\ configs'[d] = configs[d] /\ reloads' = reloads
        /\ task'[<<d, "ceo">>] = task[<<d, "ceo">>] /\ loop'[<<d, "ceo">>] = loop[<<d, "ceo">>]
  BY <1>1, SetUpSpares
<1>5. Matches(c)'
  BY <1>2, <1>3 DEF Matches, Current, Enabled
<1> QED BY <1>1, <1>2, <1>3, <1>4, <1>5, OneCompanyFollows

LEMMA WatchFollows ==
    ASSUME TypeOK, RuntimeInv, Watch
    PROVE  RuntimeInv'
<1> DEFINE torn == {c \in Companies : Initialised(c)}
           up == {c \in Companies : Enabled(known'[c])}
<1>1. /\ SetUp(torn, up, known') /\ torn \in SUBSET Companies /\ up \in SUBSET Companies
      /\ started = "yes" /\ started' = started
  BY DEF Watch, SetUp, Schedule
<1>2. \A c \in Companies : (Initialised(c) => c \in torn) /\ (c \in up <=> Enabled(known'[c]))
  OBVIOUS
<1> HIDE DEF torn, up
<1>3. \A c \in Companies : /\ Matches(c)' /\ task'[<<c, "ceo">>] = ceo'[c]
                            /\ loop'[<<c, "ceo">>] \in {0, task'[<<c, "ceo">>]}
  BY <1>1, <1>2, SetUpMatches DEF RuntimeInv
<1> QED BY <1>1, <1>3 DEF RuntimeInv, CeoHasItsTask, NoStaleCeoLoop

LEMMA BootFollows ==
    ASSUME TypeOK, RuntimeInv, Boot
    PROVE  RuntimeInv'
<1>1. Blank /\ started' = "no" /\ loop' = loop /\ behind' = behind
  BY DEF Boot, RuntimeInv
<1>2. ASSUME NEW c \in Companies
      PROVE  /\ Matches(c)' /\ task'[<<c, "ceo">>] = ceo'[c]
             /\ loop'[<<c, "ceo">>] \in {0, task'[<<c, "ceo">>]}
  <2> DEFINE n == <<c, "ceo">>
             k == known'[c]
  <2>1. n \in Names /\ n[1] = c /\ n[2] = "ceo" /\ c \in Teams
    BY DEF Names, Teams
  <2>2. "ceo" \in Wanted(k) <=> k.shape.ceo
    BY DEF Wanted
  <2>3. ceo'[c] = Current(k, k.shape.ceo)
    BY DEF Boot, Current
  <2>4. task'[n] = IF Enabled(known'[n[1]]) /\ n[1] \in Companies /\ n[2] \in Wanted(known'[n[1]])
                   THEN known'[n[1]].edition ELSE 0
    BY <2>1 DEF Boot
  <2>5. task'[n] = Current(k, k.shape.ceo)
    BY <2>1, <2>2, <2>4 DEF Current
  <2>6. configs'[c] = Current(k, k.shape.team)
    BY <1>1, <2>1 DEF Boot, Reregister, Current, Blank
  <2>7. loop'[n] = 0
    BY <1>1 DEF Blank
  <2> QED BY <2>3, <2>5, <2>6, <2>7 DEF Matches, Current, Enabled
<1> QED BY <1>1, <1>2 DEF RuntimeInv, CeoHasItsTask, NoStaleCeoLoop

LEMMA OthersFollow ==
    ASSUME TypeOK, RuntimeInv,
           \/ Start \/ Stop \/ Evict \/ Teamwork \/ UNCHANGED vars
           \/ \E c \in Companies : AdminCreate(c) \/ Bind(c) \/ Edit(c) \/ \E s \in Shapes : SaveFails(c, s)
    PROVE  RuntimeInv'
<1> USE DEF companies, scheduler, RuntimeInv, CeoHasItsTask, NoStaleCeoLoop, Blank, Matches, Current
<1>0. \A c \in Companies : <<c, "ceo">> \in Names
  BY DEF Names
<1>1. CASE Start
  BY <1>0, <1>1 DEF Start, teamVars, registry
<1>2. CASE Stop
  BY <1>0, <1>2 DEF Stop, teamVars, registry
<1>3. CASE Evict
  BY <1>3 DEF Evict, EvictIdle
<1>4. CASE Teamwork
  <2>1. UNCHANGED <<companies, scheduler>> /\ started # "boot"
    BY <1>4 DEF Teamwork
  <2>2. (reloads' = reloads /\ \A c \in Companies : configs'[c] = configs[c]) \/ reloads' # 0
    <3>1. CASE Reload
      BY <3>1 DEF Reload, TypeOK, TeamTypeOK
    <3>2. ASSUME NEW t \in BaseTeams, Register(t)
          PROVE  reloads' = reloads /\ \A c \in Companies : configs'[c] = configs[c]
      BY <3>2, TeamsAssumption DEF Register, TypeOK, TeamTypeOK, Teams
    <3> QED BY <1>4, <3>1, <3>2 DEF Teamwork, Begin, Leave, Acquire, Finish, Tick, registry
  <2> QED BY <2>1, <2>2
<1>5. CASE UNCHANGED vars
  BY <1>5 DEF vars, teamVars, registry
<1>6. ASSUME NEW c \in Companies, AdminCreate(c) \/ Bind(c) PROVE RuntimeInv'
  BY <1>6 DEF AdminCreate, Bind, OnlySave, Saved, TypeOK
<1>7. ASSUME NEW c \in Companies, Edit(c) PROVE RuntimeInv'
  BY <1>7 DEF Edit
<1>8. ASSUME NEW c \in Companies, NEW s \in Shapes, SaveFails(c, s) PROVE RuntimeInv'
  BY <1>8 DEF SaveFails, TypeOK
<1> QED BY <1>1, <1>2, <1>3, <1>4, <1>5, <1>6, <1>7, <1>8

LEMMA RuntimeInvariant == Spec => []RuntimeInv
<1>1. Init => RuntimeInv
  <2> SUFFICES ASSUME Init PROVE RuntimeInv
    OBVIOUS
  <2>1. \A c \in Companies : <<c, "ceo">> \in Names /\ c \in Teams /\ c \notin OnDisk
    BY TeamsAssumption DEF Names, Teams
  <2>2. \A c \in Companies : /\ ceo[c] = 0 /\ configs[c] = 0
                             /\ task[<<c, "ceo">>] = 0 /\ loop[<<c, "ceo">>] = 0
    BY <2>1 DEF Init, TeamInit, Entry
  <2>3. started = "boot" /\ behind = {}
    BY DEF Init
  <2> QED BY <2>2, <2>3 DEF RuntimeInv, CeoHasItsTask, NoStaleCeoLoop, Blank
<1>2. TypeOK /\ RuntimeInv /\ [Next]_vars => RuntimeInv'
  BY SaveFollows, DeleteFollows, WatchFollows, BootFollows, OthersFollow DEF Next
<1> QED BY <1>1, <1>2, TypeCorrect, PTL DEF Spec

\* For every set of companies and every description of them: a company's CEO, its task
\* and its team are those of the registry's current description, unless the admin page
\* saved it or reload() dropped the teams.
THEOREM RuntimeAlwaysFollows == Spec => []RuntimeFollowsRegistry
BY RuntimeInvariant, InvFollows, PTL

\* No loop of a CEO outlives the CEO it was started for.
THEOREM CeoLoopsAreCurrent == Spec => []NoStaleCeoLoop
<1>1. RuntimeInv => NoStaleCeoLoop
  BY DEF RuntimeInv
<1> QED BY <1>1, RuntimeInvariant, PTL

-----------------------------------------------------------------------------
(* What the watcher can tell.  A company the registry knows has a time, or is not on  *)
(* disk; the time on disk is the registry's only when the description is.             *)

Tellable(c) ==
    /\ seen[c] = 0 => known[c] = Absent
    /\ disk[c].edition = seen[c] => known[c] = Scanned[c]

ToldInv ==
    /\ \A c \in Companies : known[c].shape.valid /\ (disk[c].edition = 0 => disk[c] = Absent)
    /\ \A c \in Companies \ unseen : Tellable(c)

LEMMA ToldFollows == ToldInv => OnlyRacesHide
BY DEF ToldInv, Tellable, OnlyRacesHide

\* What is on no disk is not scanned, and what scan() reads is valid.
LEMMA ScannedTold ==
    ASSUME TypeOK, ToldInv, NEW c \in Companies
    PROVE  /\ Scanned[c].shape.valid /\ (disk[c].edition = 0 => Scanned[c] = Absent)
           /\ Scanned[c].edition = 0 => Scanned[c] = Absent
BY ShapesAssumption DEF Scanned, ToldInv, Absent

\* A company of which nothing changes is told as before.
LEMMA ToldBefore ==
    ASSUME NEW c \in Companies, Tellable(c), disk'[c] = disk[c], known'[c] = known[c], seen'[c] = seen[c]
    PROVE  Tellable(c)'
BY DEF Tellable, Scanned

\* A new edition differs from every time the registry has.
LEMMA ToldWritten ==
    ASSUME TypeOK, NEW c \in Companies, Tellable(c), NEW s, Written(c, s), known' = known, seen' = seen
    PROVE  Tellable(c)'
<1>1. disk'[c].edition = edition + 1 /\ seen[c] \in 0..edition /\ edition \in Nat
  BY BoundsAssumption DEF Written, TypeOK
<1>2. disk'[c].edition # seen'[c]
  BY <1>1
<1> QED BY <1>2 DEF Tellable

LEMMA ScanTold == ASSUME TypeOK, ToldInv, Scan PROVE ToldInv'
<1>0. edition \in Nat /\ edition + 1 # 0 /\ disk \in [Companies -> Descriptions]
  BY BoundsAssumption DEF TypeOK
<1>1. CASE UNCHANGED disk /\ known' = Scanned /\ seen' = [c \in Companies |-> Scanned[c].edition]
  BY <1>1, ScannedTold DEF ToldInv, Tellable, Scanned
<1>2. ASSUME NEW c \in Companies,
             (\E s \in Shapes : Written(c, [s EXCEPT !.team = disk[c].shape.team])) \/ Removed(c),
             known' = [Scanned EXCEPT ![c].shape.team = disk'[c].edition # 0 /\ @],
             seen' = [d \in Companies |-> IF d = c THEN disk'[c].edition ELSE Scanned[d].edition],
             unseen' = {c}
      PROVE  ToldInv'
  <2>1. \A d \in Companies : d # c => disk'[d] = disk[d]
    BY <1>0, <1>2 DEF Written, Removed
  <2>2. disk'[c].edition = 0 => disk'[c] = Absent
    BY <1>0, <1>2 DEF Written, Removed
  <2>3. \A d \in Companies : d # c => known'[d] = Scanned[d] /\ seen'[d] = Scanned[d].edition
    BY <1>2 DEF Scanned
  <2>4. known'[c].shape.valid
    <3>1. Scanned[c] \in [shape : AnyShape, edition : 0..edition] /\ Scanned[c].shape.valid
      BY ScannedType, ScannedTold DEF Described
    <3>2. known'[c] = [Scanned[c] EXCEPT !.shape.team = disk'[c].edition # 0 /\ Scanned[c].shape.team]
      BY <1>2 DEF Scanned
    <3> QED BY <3>1, <3>2 DEF AnyShape
  <2>5. ASSUME NEW d \in Companies, d # c PROVE Tellable(d)' /\ known'[d].shape.valid
    BY <2>1, <2>3, <2>5, ScannedTold DEF Tellable, Scanned
  <2> QED BY <1>2, <2>1, <2>2, <2>4, <2>5 DEF ToldInv
<1> QED BY <1>1, <1>2 DEF Scan

LEMMA SavedTold ==
    ASSUME TypeOK, ToldInv, NEW c \in Companies, NEW s \in AnyShape, s.valid, Saved(c, s)
    PROVE  ToldInv'
<1>0. edition \in Nat /\ edition + 1 # 0 /\ edition + 2 # 0 /\ disk \in [Companies -> Descriptions]
      /\ seen \in [Companies -> 0..edition]
  BY BoundsAssumption DEF TypeOK
<1>1. known'[c].shape.valid /\ \A d \in Companies : d # c => known'[d] = known[d]
  BY SavedKnown
<1>2. \A d \in Companies : d # c => disk'[d] = disk[d] /\ seen'[d] = seen[d] /\ (d \in unseen' <=> d \in unseen)
  BY <1>0 DEF Saved, Written
<1>3. disk'[c].edition # 0
  BY <1>0 DEF Saved, Written
<1>4. ASSUME c \notin unseen' PROVE Tellable(c)'
  <2>1. Written(c, s)
    BY <1>4 DEF Saved
  <2>2. disk'[c] = [shape |-> s, edition |-> edition + 1] /\ seen'[c] = edition + 1 /\ edition' = edition + 1
    BY <1>0, <2>1 DEF Saved, Written
  <2>3. known'[c] = disk'[c]
    BY <2>2, SavedKnown
  <2> QED BY <1>0, <2>2, <2>3 DEF Tellable, Scanned
<1>5. ASSUME NEW d \in Companies, d # c, d \notin unseen' PROVE Tellable(d)'
  BY <1>1, <1>2, <1>5, ToldBefore DEF ToldInv
<1> QED BY <1>1, <1>2, <1>3, <1>4, <1>5 DEF ToldInv

LEMMA SaveFailsTold ==
    ASSUME TypeOK, ToldInv, NEW c \in Companies, NEW s \in Shapes, SaveFails(c, s)
    PROVE  ToldInv'
<1>0. s \in AnyShape /\ s.valid /\ disk \in [Companies -> Descriptions] /\ known \in [Companies -> Descriptions]
  BY ShapesAssumption DEF AnyShape, TypeOK, SaveFails
<1>1. /\ known'[c].shape.valid /\ disk'[c] = Absent /\ seen' = seen /\ (seen[c] = 0 => c \in unseen')
      /\ \A d \in Companies : d # c => known'[d] = known[d] /\ disk'[d] = disk[d]
      /\ unseen \subseteq unseen'
  BY <1>0 DEF SaveFails, AnyShape
<1>2. ASSUME c \notin unseen' PROVE Tellable(c)'
  BY <1>1, <1>2 DEF Tellable, Absent
<1>3. ASSUME NEW d \in Companies, d # c, d \notin unseen' PROVE Tellable(d)'
  BY <1>1, <1>3, ToldBefore DEF ToldInv
<1> QED BY <1>1, <1>2, <1>3 DEF ToldInv

LEMMA EditTold == ASSUME TypeOK, ToldInv, NEW c \in Companies, Edit(c) PROVE ToldInv'
<1>0. edition \in Nat /\ edition + 1 # 0 /\ disk \in [Companies -> Descriptions]
  BY BoundsAssumption DEF TypeOK
<1>1. known' = known /\ seen' = seen /\ unseen' = unseen
  BY DEF Edit
<1>2. \A d \in Companies : d # c => disk'[d] = disk[d]
  BY <1>0 DEF Edit, Written, Removed
<1>3. disk'[c].edition = 0 => disk'[c] = Absent
  BY <1>0 DEF Edit, Written, Removed
<1>4. ASSUME c \notin unseen PROVE Tellable(c)'
  <2>1. Tellable(c)
    BY <1>4 DEF ToldInv
  <2>2. ASSUME NEW s \in Shapes, Written(c, s) PROVE Tellable(c)'
    BY <1>1, <2>1, <2>2, ToldWritten
  <2>3. CASE Removed(c)
    <3>1. disk'[c] = Absent
      BY <1>0, <2>3 DEF Removed
    <3> QED BY <1>1, <2>1, <3>1 DEF Tellable, Scanned, Absent
  <2> QED BY <2>2, <2>3 DEF Edit
<1>5. ASSUME NEW d \in Companies, d # c, d \notin unseen PROVE Tellable(d)'
  BY <1>1, <1>2, <1>5, ToldBefore DEF ToldInv
<1> QED BY <1>1, <1>2, <1>3, <1>4, <1>5 DEF ToldInv

LEMMA DeleteTold == ASSUME TypeOK, ToldInv, NEW c \in Companies, Delete(c) PROVE ToldInv'
<1>1. /\ disk'[c] = Absent /\ known'[c] = Absent /\ seen'[c] = 0 /\ unseen' = unseen \ {c}
      /\ \A d \in Companies : d # c => known'[d] = known[d] /\ disk'[d] = disk[d] /\ seen'[d] = seen[d]
  BY DEF Delete, TypeOK
<1>2. Tellable(c)' /\ Absent.shape.valid
  BY <1>1, ShapesAssumption DEF Tellable, Scanned, Absent
<1>3. ASSUME NEW d \in Companies, d # c, d \notin unseen' PROVE Tellable(d)'
  BY <1>1, <1>3, ToldBefore DEF ToldInv
<1> QED BY <1>1, <1>2, <1>3 DEF ToldInv

LEMMA ToldInvariant == Spec => []ToldInv
<1>1. Init => ToldInv
  <2> SUFFICES ASSUME Init, NEW c \in Companies
               PROVE  known[c].shape.valid /\ (disk[c].edition = 0 => disk[c] = Absent) /\ Tellable(c)
    BY DEF ToldInv
  <2>1. known[c] = Absent /\ seen[c] = 0 /\ Absent.shape.valid
    BY ShapesAssumption DEF Init, Absent
  <2>2. disk[c] = Absent \/ disk[c].edition = 1
    BY DEF Init
  <2> QED BY <2>1, <2>2 DEF Tellable, Scanned
<1>2. TypeOK /\ ToldInv /\ [Next]_vars => ToldInv'
  <2> SUFFICES ASSUME TypeOK, ToldInv, [Next]_vars PROVE ToldInv'
    OBVIOUS
  <2>0. /\ Plain \in AnyShape /\ Plain.valid /\ \A s \in Shapes : s \in AnyShape
        /\ \A c \in Companies : known[c].shape \in AnyShape /\ known[c].shape.valid
    BY ShapesAssumption DEF TypeOK, Descriptions, AnyShape, ToldInv
  <2>1. ASSUME NEW c \in Companies, NEW s \in Shapes, Save(c, s) PROVE ToldInv'
    BY <2>0, <2>1, SavedTold DEF Save
  <2>2. ASSUME NEW c \in Companies, NEW s \in AnyShape, s.valid, OnlySave(c, s) PROVE ToldInv'
    <3> DEFINE b == disk[c].edition # 0 /\ disk[c].shape.team
    <3>1. /\ [s EXCEPT !.team = b] \in AnyShape /\ [s EXCEPT !.team = b].valid
          /\ Saved(c, [s EXCEPT !.team = b])
      BY <2>2 DEF AnyShape, OnlySave
    <3> HIDE DEF b
    <3> QED BY <3>1, SavedTold
  <2>3. ASSUME Watch \/ Boot PROVE ToldInv'
    BY <2>3, ScanTold DEF Watch, Boot
  <2>4. ASSUME Start \/ Stop \/ Evict \/ Teamwork \/ UNCHANGED vars PROVE ToldInv'
    <3>1. disk' = disk /\ known' = known /\ seen' = seen /\ unseen' = unseen
      BY <2>4 DEF Start, Stop, Evict, Teamwork, vars, companies
    <3> QED BY <3>1 DEF ToldInv, Tellable, Scanned
  <2> QED BY <2>0, <2>1, <2>2, <2>3, <2>4, SaveFailsTold, EditTold, DeleteTold DEF Next, AdminCreate, Bind
<1> QED BY <1>1, <1>2, TypeCorrect, PTL DEF Spec

\* For every set of companies: whatever editors and handlers do to the directories, a
\* company whose description on disk is not the registry's is one the watcher's next
\* comparison tells, but for a change that came between a file and its time.
THEOREM OnlyRacesStayHidden == Spec => []OnlyRacesHide
BY ToldInvariant, ToldFollows, PTL

-----------------------------------------------------------------------------
(* Old instances. *)

\* A handler that tears down what was set up drops the idle instance.
LEMMA SetUpDrops ==
    ASSUME NEW torn, NEW up, NEW at, SetUp(torn, up, at), NEW c \in Companies,
           configs[c] # 0, c \in torn, active[c] = 0
    PROVE  cached'[c] = 0
BY DEF SetUp, Reregister, Unused, Teams

\* Whenever a private team gets a new definition or loses its own, the instance of the
\* old one leaves the cache, unless a call is running on it.
THEOREM IdleInstanceIsDropped == Spec => IdleInstanceDropped
<1>1. /\ TypeOK /\ RuntimeInv /\ CountsAreRuns /\ [Next]_vars
      => [\A t \in Companies :
            configs'[t] # configs[t] /\ configs[t] # 0 /\ Running(t) = {} => cached'[t] = 0]_teamVars
  <2> SUFFICES ASSUME TypeOK, RuntimeInv, CountsAreRuns, [Next]_vars, ~UNCHANGED teamVars,
                      NEW t \in Companies,
                      configs'[t] # configs[t], configs[t] # 0, Running(t) = {}
               PROVE  cached'[t] = 0
    OBVIOUS
  <2>0. active[t] = 0 /\ Initialised(t)
    BY FS_EmptySet DEF CountsAreRuns, Teams, Initialised
  <2>1. ASSUME NEW c \in Companies, NEW s \in Shapes, Save(c, s) PROVE cached'[t] = 0
    <3> DEFINE torn == IF Initialised(c) THEN {c} ELSE {}
               up == IF s.enabled THEN {c} ELSE {}
    <3>1. SetUp(torn, up, known') /\ torn \in SUBSET Companies /\ up \in SUBSET Companies
      BY <2>1 DEF Save
    <3>2. CASE t = c
      BY <2>0, <3>1, <3>2, SetUpDrops
    <3>3. CASE t # c
      BY <3>1, <3>3, SetUpSpares
    <3> QED BY <3>2, <3>3
  <2>2. ASSUME NEW c \in Companies, Delete(c) PROVE cached'[t] = 0
    <3>1. SetUp({c}, {}, known) /\ {c} \in SUBSET Companies /\ {} \in SUBSET Companies
      BY <2>2 DEF Delete
    <3> QED BY <2>0, <3>1, SetUpDrops, SetUpSpares
  <2>3. CASE Watch
    BY <2>0, <2>3, SetUpDrops DEF Watch
  <2>4. CASE Boot
    BY <2>4 DEF Boot, RuntimeInv, Blank
  <2>5. CASE Teamwork
    <3>1. CASE Reload
      BY <2>0, <3>1 DEF Reload, Teams
    <3>2. ASSUME NEW q \in BaseTeams, Register(q) PROVE FALSE
      BY <3>2, TeamsAssumption DEF Register, TypeOK, TeamTypeOK, Teams
    <3> QED BY <2>5, <3>1, <3>2
            DEF Teamwork, Begin, Leave, Acquire, Finish, Tick, registry
  <2>6. ASSUME \/ Start \/ Stop \/ Evict \/ UNCHANGED vars
               \/ \E c \in Companies : AdminCreate(c) \/ Bind(c) \/ Edit(c) \/ \E s \in Shapes : SaveFails(c, s)
        PROVE  FALSE
    BY <2>6 DEF Start, Stop, Evict, EvictIdle, vars, teamVars, registry, AdminCreate, Bind, OnlySave, SaveFails, Edit
  <2> QED BY <2>1, <2>2, <2>3, <2>4, <2>5, <2>6 DEF Next
<1>2. Spec => []CountsAreRuns
  BY RuntimeDrivesTeams, CountsAlwaysRight, PTL
<1> QED BY <1>1, <1>2, TypeCorrect, RuntimeInvariant, PTL DEF Spec, IdleInstanceDropped

-----------------------------------------------------------------------------
(* What the run checks, from the above. *)

\* The registry's counts are the runs and its cache can be evicted, in the runtime.
THEOREM InstancesAreCounted == Spec => []InstancesCounted
<1>1. CountsAreRuns /\ CachedIsEvictable => InstancesCounted
  BY DEF InstancesCounted
<1> QED BY <1>1, RuntimeKeepsTeams, PTL

\* An instance goes when it may and only then, whatever handlers, the watcher,
\* eviction and reloads do while calls run.
THEOREM InstancesAreHeld == Spec => InstancesHeld
BY RuntimeKeepsTeams, IdleInstanceIsDropped, PTL DEF InstancesHeld

\* What runs is what the registry says, no loop of an old CEO is left, and the registry
\* says what the disk does unless the watcher can tell or an editor came between a file
\* and its time.
THEOREM RuntimeIsCurrent == Spec => []RuntimeCurrent
<1>1. RuntimeFollowsRegistry /\ NoStaleCeoLoop /\ OnlyRacesHide => RuntimeCurrent
  BY DEF RuntimeCurrent
<1> QED BY <1>1, RuntimeAlwaysFollows, CeoLoopsAreCurrent, OnlyRacesStayHidden, PTL
=============================================================================
