--------------------------- MODULE CompanyRuntime ---------------------------
(***************************************************************************)
(* Companies at run time: their directories, the company registry          *)
(* (companest/company.py), the HTTP and admin handlers that change it      *)
(* (companest/server.py, companest/admin.py), the orchestrator that sets a *)
(* company up and tears it down (companest/orchestrator.py), the watcher   *)
(* that compares files every 30 s, the scheduler's table of tasks and      *)
(* their loops (companest/scheduler.py), and the team registry under all   *)
(* of it (module TeamRegistry).                                            *)
(*                                                                         *)
(* No handler awaits between its first and its last change, so each is one *)
(* action.  An editor is another process, though, and may change a         *)
(* company.yaml after a handler has read or written it and before it takes *)
(* the file's time: once in an action, which is a bound.  What a schedule  *)
(* runs is one of the calls of TeamRegistry: a loop that is cancelled      *)
(* cancels the call, which may end at any moment.  The system's own tasks  *)
(* are never removed: the watcher and eviction run while the scheduler     *)
(* does.                                                                   *)
(***************************************************************************)
EXTENDS TeamRegistry

CONSTANTS
    Shapes,     \* what a company.yaml says: [valid, enabled, ceo, job, team]
    Plain       \* what the admin page writes: enabled, with the default CEO

ASSUME ShapesAssumption ==
    /\ Shapes \cup {Plain} \subseteq
         [valid : BOOLEAN, enabled : BOOLEAN, ceo : BOOLEAN, job : BOOLEAN, team : BOOLEAN]
    /\ Plain.valid

VARIABLES
    disk,       \* the company's directory: a shape and its edition, 0 if absent
    known,      \* CompanyRegistry._configs, likewise
    seen,       \* CompanyRegistry._mtimes: the edition read, 0 if none
    ceo,        \* _ceo_pis: the edition the CEO was made from, 0 if none
    started,    \* the scheduler, from the program's start to its stop
    task,       \* Scheduler._tasks: edition of each task's company, 0 if none
    loop,       \* Scheduler._running_tasks: edition of the task the loop runs
    behind,     \* auxiliary: companies only saved since they were last applied
    unseen      \* auxiliary: companies an editor changed before their file's time
                \* was taken, which hides the change from the watcher

companies == <<disk, known, seen, ceo, behind, unseen>>
scheduler == <<started, task, loop>>
vars == <<teamVars, companies, scheduler>>

Absent == [shape |-> Plain, edition |-> 0]
Names == Companies \X {"ceo", "job"}

Init ==
    /\ TeamInit
    /\ disk \in [Companies -> {Absent} \cup [shape : Shapes, edition : {1}]]
    /\ known = [c \in Companies |-> Absent]
    /\ seen = [c \in Companies |-> 0] /\ ceo = [c \in Companies |-> 0]
    /\ started = "boot" /\ behind = {} /\ unseen = {}
    /\ task = [n \in Names |-> 0] /\ loop = [n \in Names |-> 0]

-----------------------------------------------------------------------------
(* Setting up and tearing down. *)

\* Forgets the companies that have a CEO and no private team.
BadInitialised(c) == configs[c] # 0

\* _is_company_initialized().
Initialised(c) == ceo[c] # 0 \/ configs[c] # 0

Enabled(k) == k.edition # 0 /\ k.shape.enabled

\* The tasks _init_company() registers for a company.
Wanted(k) == (IF k.shape.ceo THEN {"ceo"} ELSE {}) \cup (IF k.shape.job THEN {"job"} ELSE {})

\* remove() cancels the loop and forgets it; add() only files the task.
Schedule(added, removed, at) ==
    /\ task' = [n \in Names |-> IF n \in added THEN at[n[1]].edition
                                ELSE IF n \in removed THEN 0 ELSE task[n]]
    /\ loop' = [n \in Names |-> IF n \in removed THEN 0 ELSE loop[n]]
    /\ UNCHANGED started

\* teardown_company() for the companies in torn, then _init_company() for those in up,
\* as the registry at describes them.
SetUp(torn, up, at) ==
    LET scanned == {c \in up : at[c].shape.team} IN
    /\ Reregister(torn, scanned, [c \in scanned |-> at[c].edition])
    /\ Schedule({n \in Names : n[1] \in up /\ n[2] \in Wanted(at[n[1]])},
                {n \in Names : n[1] \in torn}, at)
    /\ ceo' = [c \in Companies |-> IF c \in up /\ at[c].shape.ceo THEN at[c].edition
                                   ELSE IF c \in torn THEN 0 ELSE ceo[c]]

\* CompanyRegistry.scan(): an invalid file is logged and left out.
Scanned == [c \in Companies |-> IF disk[c].shape.valid THEN disk[c] ELSE Absent]

\* An editor writes what company.yaml says, or removes the directory.
Written(c, s) ==
    /\ edition < MaxEdition /\ edition' = edition + 1
    /\ disk' = [disk EXCEPT ![c] = [shape |-> s, edition |-> edition + 1]]
Removed(c) == disk' = [disk EXCEPT ![c] = Absent] /\ UNCHANGED edition

\* The file is parsed, and its time taken: an editor may come in between, and the
\* registry keeps what was in the file with the time of what is.  Teams are looked
\* for later, where a directory still is.
Scan ==
    \/ /\ known' = Scanned /\ seen' = [c \in Companies |-> Scanned[c].edition]
       /\ unseen' = {} /\ UNCHANGED <<disk, edition>>
    \/ \E c \in Companies :
         /\ Scanned[c] # Absent
         /\ (\E s \in Shapes : Written(c, [s EXCEPT !.team = disk[c].shape.team])) \/ Removed(c)
         /\ known' = [Scanned EXCEPT ![c].shape.team = disk'[c].edition # 0 /\ @]
         /\ seen' = [d \in Companies |-> IF d = c THEN disk'[c].edition ELSE Scanned[d].edition]
         /\ unseen' = {c}

\* init_teams().
Boot ==
    /\ started = "boot"
    /\ Scan
    /\ LET up == {c \in Companies : Enabled(known'[c])}
           scanned == {c \in up : known'[c].shape.team} IN
         /\ Reregister({}, scanned, [c \in scanned |-> known'[c].edition])
         /\ task' = [n \in Names |-> IF n[1] \in up /\ n[2] \in Wanted(known'[n[1]])
                                     THEN known'[n[1]].edition ELSE 0]
         /\ ceo' = [c \in Companies |-> IF c \in up /\ known'[c].shape.ceo
                                        THEN known'[c].edition ELSE 0]
    /\ started' = "no"
    /\ UNCHANGED <<loop, behind>>

\* Scheduler.start() and stop().
Start == /\ started = "no" /\ started' = "yes" /\ loop' = task
         /\ UNCHANGED <<teamVars, companies, task>>
Stop == /\ started = "yes" /\ started' = "stopped" /\ loop' = [n \in Names |-> 0]
        /\ UNCHANGED <<teamVars, companies, task>>

-----------------------------------------------------------------------------
(* The handlers, while the server serves. *)

\* CompanyRegistry.save(): the file is written, then its time taken, and an editor may
\* write company.yaml over in between.
Saved(c, s) ==
    /\ known' = [known EXCEPT ![c] = [shape |-> s, edition |-> edition + 1]]
    /\ \/ Written(c, s) /\ unseen' = unseen \ {c}
       \/ /\ edition + 1 < MaxEdition /\ edition' = edition + 2
          /\ \E e \in Shapes :
               disk' = [disk EXCEPT ![c] = [shape |-> [e EXCEPT !.team = s.team], edition |-> edition + 2]]
          /\ unseen' = unseen \cup {c}
    /\ seen' = [seen EXCEPT ![c] = edition']

\* POST and PATCH /api/companies: save(), the teams' files, apply_company().  Only
\* PATCH, which wants a known company, removes teams.
Save(c, s) ==
    /\ started = "yes" /\ s.valid
    /\ known[c].edition = 0 /\ disk[c].edition # 0 /\ disk[c].shape.team => s.team
    /\ Saved(c, s)
    /\ SetUp(IF Initialised(c) THEN {c} ELSE {}, IF s.enabled THEN {c} ELSE {}, known')
    /\ behind' = behind \ {c}

\* DELETE /api/companies/{id}.
Delete(c) ==
    /\ started = "yes" /\ known[c].edition # 0
    /\ SetUp({c}, {}, known)
    /\ disk' = [disk EXCEPT ![c] = Absent] /\ known' = [known EXCEPT ![c] = Absent]
    /\ seen' = [seen EXCEPT ![c] = 0]
    /\ behind' = behind \ {c} /\ unseen' = unseen \ {c}
    /\ UNCHANGED edition

\* save() and nothing else; the directory of the teams stays.
OnlySave(c, s) ==
    /\ started = "yes"
    /\ Saved(c, [s EXCEPT !.team = disk[c].edition # 0 /\ disk[c].shape.team])
    /\ behind' = behind \cup {c}
    /\ UNCHANGED <<configs, cached, meta, active, age, reloads, calls, ceo, scheduler>>

\* The admin page creates a company, or writes over one.
AdminCreate(c) == OnlySave(c, Plain)

\* POST /api/companies/{id}/bind writes what the registry knows, and a binding more.
Bind(c) == known[c].edition # 0 /\ OnlySave(c, known[c].shape)

\* The directory is gone when save() asks for the file's time: the request fails there,
\* with the company filed under the time it had before, if it had one.
SaveFails(c, s) ==
    /\ started = "yes" /\ s.valid /\ edition < MaxEdition /\ edition' = edition + 1
    /\ known' = [known EXCEPT ![c] = [shape |-> [s EXCEPT !.team = FALSE], edition |-> edition + 1]]
    /\ disk' = [disk EXCEPT ![c] = Absent]
    /\ behind' = behind \cup {c}
    /\ unseen' = IF seen[c] = 0 THEN unseen \cup {c} ELSE unseen
    /\ UNCHANGED <<configs, cached, meta, active, age, reloads, calls, seen, ceo, scheduler>>

\* An editor, or the command line in another process, changes a directory while the
\* program may still read it.
Edit(c) ==
    /\ started \in {"no", "yes"}
    /\ \/ \E s \in Shapes : Written(c, s)
       \/ disk[c] # Absent /\ Removed(c)
    /\ UNCHANGED <<configs, cached, meta, active, age, reloads, calls,
                   known, seen, ceo, behind, unseen, scheduler>>

-----------------------------------------------------------------------------
(* The watcher. *)

\* Compares files it knows and misses new ones.
BadChanged == \E c \in Companies : seen[c] # 0 /\ disk[c].edition # seen[c]

\* check_for_changes(): a new file, a removed one, or another modification time.
Changed == \E c \in Companies : disk[c].edition # seen[c]

\* _check_company_changes(): every company goes down and every enabled one comes up.
Watch ==
    /\ started = "yes" /\ Changed
    /\ Scan
    /\ SetUp({c \in Companies : Initialised(c)}, {c \in Companies : Enabled(known'[c])}, known')
    /\ behind' = {}

Evict == started = "yes" /\ EvictIdle /\ UNCHANGED <<companies, scheduler>>

Teamwork ==
    /\ started # "boot"
    /\ \/ \E r \in Runs : (\E t \in Teams : Begin(r, t)) \/ Leave(r) \/ Acquire(r) \/ Finish(r)
       \/ \E t \in BaseTeams : Register(t)
       \/ Tick \/ Reload
    /\ UNCHANGED <<companies, scheduler>>

Next ==
    \/ Boot \/ Start \/ Stop \/ Watch \/ Evict \/ Teamwork
    \/ \E c \in Companies :
         (\E s \in Shapes : Save(c, s) \/ SaveFails(c, s)) \/ Delete(c) \/ AdminCreate(c) \/ Bind(c) \/ Edit(c)

Spec == Init /\ [][Next]_vars

\* The clock goes on, and the loops of the watcher and of eviction come round.
Fairness ==
    /\ WF_vars(Boot) /\ WF_vars(Start)
    /\ WF_vars(Tick /\ UNCHANGED <<companies, scheduler>>) /\ WF_vars(Evict) /\ WF_vars(Watch)

FairSpec == Spec /\ Fairness
-----------------------------------------------------------------------------
(* Properties. *)

\* Every variable has its type; a description has an edition that was written.
Descriptions ==
    [shape : [valid : BOOLEAN, enabled : BOOLEAN, ceo : BOOLEAN, job : BOOLEAN, team : BOOLEAN],
     edition : 0..edition]
TypeOK ==
    /\ TeamTypeOK /\ edition \in 1..MaxEdition
    /\ disk \in [Companies -> Descriptions] /\ known \in [Companies -> Descriptions]
    /\ seen \in [Companies -> 0..edition] /\ ceo \in [Companies -> 0..edition]
    /\ task \in [Names -> 0..edition] /\ loop \in [Names -> 0..edition]
    /\ started \in {"boot", "no", "yes", "stopped"}
    /\ behind \subseteq Companies /\ unseen \subseteq Companies

\* What runs for a company is what the registry says of it: its CEO and the CEO's
\* task exist when it is enabled and has one, its private team is registered when it
\* has one, both from the current description.  Only a company that the admin page
\* or bind saved, and teams after a reload(), fall behind.
RuntimeFollowsRegistry ==
    started # "boot" =>
      \A c \in Companies \ behind :
        LET k == known[c]
            current(has) == IF Enabled(k) /\ has THEN k.edition ELSE 0 IN
        /\ ceo[c] = current(k.shape.ceo) /\ task[<<c, "ceo">>] = ceo[c]
        /\ reloads = 0 => configs[c] = current(k.shape.team)

\* A CEO's loop runs the CEO's current task: a company that was deleted, disabled or
\* described anew leaves no loop of the old CEO behind.
NoStaleCeoLoop == \A c \in Companies : loop[<<c, "ceo">>] \in {0, task[<<c, "ceo">>]}

\* Nothing on disk escapes the watcher but what came between a file and its time: any
\* company whose directory differs from what the registry has is one that the next
\* check_for_changes() tells, whoever wrote it.
OnlyRacesHide ==
    started # "boot" => \A c \in Companies \ unseen : known[c] # Scanned[c] => disk[c].edition # seen[c]

\* Whatever changes on disk, the registry ends up with it, for as long as the
\* scheduler runs: all but what an editor wrote or removed between a handler's reading
\* or writing the file and its taking the file's time, which company.py:236 and :334
\* record as seen, so that it waits for the file's next change.
DiskIsLoaded ==
    <>[](started = "yes") => <>[](\A c \in Companies \ unseen : known[c] = Scanned[c])

\* An instance of a team that no call uses any more is given up.
UnusedIsEvicted ==
    \A t \in Teams :
      <>[](started = "yes" /\ \A r \in Runs : want[r] # t) => <>[](cached[t] = 0)

\* The parts of the program that serve a company are those of its description, which
\* is what the disk has unless the watcher can tell.
RuntimeCurrent == RuntimeFollowsRegistry /\ NoStaleCeoLoop /\ OnlyRacesHide

\* What changed on disk reaches the registry, and what nobody uses goes.
ChangesReach == DiskIsLoaded /\ UnusedIsEvicted
=============================================================================
