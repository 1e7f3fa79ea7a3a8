---------------------------- MODULE UserSchedules ----------------------------
(***************************************************************************)
(* What users schedule (user_scheduler.py): a row in SQLite for every job, *)
(* and a timer in APScheduler's memory for every row that is active; what  *)
(* a timer fires runs through the orchestrator (background.py).  Each      *)
(* statement on the database is an await, so calls interleave; a restart   *)
(* forgets the timers and makes them from the rows again.                  *)
(*                                                                         *)
(* A job is a date (it fires once, at a time) or is repeated.  APScheduler *)
(* is external: it fires a timer when it is due, drops a date's timer with *)
(* it, and when it is given a date that has passed it refuses it or, as    *)
(* 3.x does, takes it and drops it as missed; a restart takes longer than  *)
(* the second for which 3.x does not yet call it missed.                   *)
(***************************************************************************)
EXTENDS Naturals, FiniteSets

CONSTANTS Jobs, Dates,          \* the ids that may be drawn; those of kind "date"
          UsMaxFires, UsMaxStops  \* bounds of the model

ASSUME UserSchedulesAssumption == Dates \subseteq Jobs /\ UsMaxFires \in Nat /\ UsMaxStops \in Nat

VARIABLES
  row,      \* scheduled_jobs: "none", "active", "inactive"
  timer,    \* the jobs APScheduler holds
  passed,   \* the dates that have passed
  adder,    \* where add_job is with each job: "new", "saving", "saved", "added"
  canceler, \* where cancel_job is with each: "idle", "resolved", "removed", "done"
  firing,   \* [job -> tasks of _fire_job_async that have not read the row]
  running,  \* [job -> those that run it]
  fired,    \* history: [job -> how often it was run]
  ghost,    \* history: the jobs cancelled between their row and their timer
  missed,   \* history: the dates that passed while there was no timer
  malformed, \* the jobs whose trigger_args, a model's own, APScheduler does not take
  untimed,  \* history: the jobs added since the start whose add_job ended without a timer
  usUp, usStops

userVars == <<row, timer, passed, adder, canceler, firing, running, fired, ghost, missed, malformed, untimed,
              usUp, usStops>>

UserInit ==
  /\ row = [j \in Jobs |-> "none"] /\ timer = {} /\ passed = {}
  /\ adder = [j \in Jobs |-> "new"] /\ canceler = [j \in Jobs |-> "idle"]
  /\ firing = [j \in Jobs |-> 0] /\ running = [j \in Jobs |-> 0] /\ fired = [j \in Jobs |-> 0]
  /\ ghost = {} /\ missed = {} /\ malformed \in SUBSET Jobs /\ untimed = {}
  /\ usUp = TRUE /\ usStops = 0

\* add_job: the row is inserted and committed, then the timer is made; a caller that
\* is cancelled meanwhile makes none.
SaveJob(j) ==
  /\ usUp /\ adder[j] = "new" /\ j \notin passed
  /\ \/ adder' = [adder EXCEPT ![j] = "saved"] /\ UNCHANGED untimed
     \/ adder' = [adder EXCEPT ![j] = "added"] /\ untimed' = untimed \cup {j}
  /\ row' = [row EXCEPT ![j] = "active"]
  /\ UNCHANGED <<timer, passed, canceler, firing, running, fired, ghost, missed, malformed, usUp, usStops>>

\* A date that has passed may be refused, and a trigger that is malformed is: the
\* caller is told so, the row stays.
MakeTimer(j) ==
  /\ usUp /\ adder[j] = "saved"
  /\ adder' = [adder EXCEPT ![j] = "added"]
  /\ \/ j \notin malformed /\ timer' = timer \cup {j} /\ UNCHANGED <<missed, untimed>>
     \/ j \in malformed /\ untimed' = untimed \cup {j} /\ UNCHANGED <<timer, missed>>
     \/ j \in passed \ malformed /\ missed' = missed \cup {j} /\ UNCHANGED <<timer, untimed>>
  /\ ghost' = IF canceler[j] \in {"removed", "done"} THEN ghost \cup {j} ELSE ghost
  /\ UNCHANGED <<row, passed, canceler, firing, running, fired, malformed, usUp, usStops>>

\* cancel_job: the row is looked up, ...
ResolveJob(j) ==
  /\ usUp /\ canceler[j] = "idle" /\ row[j] = "active"
  /\ canceler' = [canceler EXCEPT ![j] = "resolved"]
  /\ UNCHANGED <<row, timer, passed, adder, firing, running, fired, ghost, missed, malformed, untimed, usUp, usStops>>

\* ... the timer is removed, if there is one, ...
RemoveTimer(j) ==
  /\ usUp /\ canceler[j] = "resolved"
  /\ canceler' = [canceler EXCEPT ![j] = "removed"]
  /\ timer' = timer \ {j}
  /\ UNCHANGED <<row, passed, adder, firing, running, fired, ghost, missed, malformed, untimed, usUp, usStops>>

Deactivate(j) == row' = [row EXCEPT ![j] = "inactive"]

\* ... and the row is deactivated.
CancelEnds(j) ==
  /\ usUp /\ canceler[j] = "removed"
  /\ canceler' = [canceler EXCEPT ![j] = "done"]
  /\ Deactivate(j)
  /\ UNCHANGED <<timer, passed, adder, firing, running, fired, ghost, missed, malformed, untimed, usUp, usStops>>

\* Time comes to a date; a timer that is there fires at some moment after.
DatePasses(j) ==
  /\ j \in Dates \ passed
  /\ passed' = passed \cup {j}
  /\ missed' = IF j \in timer THEN missed ELSE missed \cup {j}
  /\ UNCHANGED <<row, timer, adder, canceler, firing, running, fired, ghost, malformed, untimed, usUp, usStops>>

\* _fire_job only makes a task, so max_instances never counts more than one. A
\* date that had passed before its timer was made may be dropped instead.
FireJob(j) ==
  /\ usUp /\ j \in timer /\ (j \in Dates => j \in passed)
  /\ timer' = IF j \in Dates THEN timer \ {j} ELSE timer
  /\ \/ j \in missed /\ UNCHANGED firing
     \/ /\ fired[j] + firing[j] < UsMaxFires
        /\ firing' = [firing EXCEPT ![j] = @ + 1]
  /\ UNCHANGED <<row, passed, adder, canceler, running, fired, ghost, missed, malformed, untimed, usUp, usStops>>

\* _fire_job_async: the row is read, whether it is active or not, its count is
\* raised, and the job runs.
RunJob(j) ==
  /\ usUp /\ firing[j] > 0
  /\ firing' = [firing EXCEPT ![j] = @ - 1]
  /\ running' = [running EXCEPT ![j] = @ + 1]
  /\ fired' = [fired EXCEPT ![j] = @ + 1]
  /\ UNCHANGED <<row, timer, passed, adder, canceler, ghost, missed, malformed, untimed, usUp, usStops>>

\* It has ended, or failed, and the user was told; a date's row is closed.
JobEnds(j) ==
  /\ usUp /\ running[j] > 0
  /\ running' = [running EXCEPT ![j] = @ - 1]
  /\ row' = IF j \in Dates THEN [row EXCEPT ![j] = "inactive"] ELSE row
  /\ UNCHANGED <<timer, passed, adder, canceler, firing, fired, ghost, missed, malformed, untimed, usUp, usStops>>

\* shutdown, or the process ends: the tasks and the timers go.
StopUsers ==
  /\ usUp /\ usStops < UsMaxStops
  /\ usUp' = FALSE /\ usStops' = usStops + 1
  /\ timer' = {}
  /\ firing' = [j \in Jobs |-> 0] /\ running' = [j \in Jobs |-> 0]
  /\ adder' = [j \in Jobs |-> IF adder[j] = "saved" THEN "added" ELSE adder[j]]
  /\ canceler' = [j \in Jobs |-> IF canceler[j] = "done" THEN "done" ELSE "idle"]
  /\ UNCHANGED <<row, passed, fired, ghost, missed, malformed, untimed>>

\* The timers made of the rows: a date that has passed is given none that fires, and
\* a malformed trigger none at all.
Restored(act, late) == act \ (late \cup malformed)

\* start, with _restore_jobs: what APScheduler refuses, dates that have passed or
\* whatever else, has its row closed.
StartUsers ==
  /\ ~usUp /\ usUp' = TRUE
  /\ LET act == {j \in Jobs : row[j] = "active"}
         late == act \cap passed
     IN  /\ timer' = Restored(act, late)
         /\ \E refused \in SUBSET late :
              row' = [j \in Jobs |-> IF j \in refused \cup (act \cap malformed) THEN "inactive" ELSE row[j]]
         /\ missed' = (missed \ Restored(act, late)) \cup (late \ Restored(act, late))
  /\ ghost' = {} /\ untimed' = {}
  /\ UNCHANGED <<passed, adder, canceler, firing, running, fired, malformed, usStops>>

UserNext ==
  \/ \E j \in Jobs :
       \/ SaveJob(j) \/ MakeTimer(j)
       \/ ResolveJob(j) \/ RemoveTimer(j) \/ CancelEnds(j)
       \/ DatePasses(j) \/ FireJob(j) \/ RunJob(j) \/ JobEnds(j)
  \/ StopUsers \/ StartUsers

UserSpec == UserInit /\ [][UserNext]_userVars

----------------------------------------------------------------------------
\* What has a timer is shown to the user, and what is shown has one: once no call is
\* about a job, the row of a timer is active, but for a job that was cancelled before
\* its timer was made; and an active row has a timer, through restarts too, but for a
\* date that passed while the program could not fire it, and for a job whose add_job
\* ended without a timer, which is shown for nothing until the next start.
TimersFollowRows ==
  usUp => \A j \in Jobs :
    adder[j] # "saved" /\ canceler[j] \in {"idle", "done"} /\ firing[j] + running[j] = 0 =>
      /\ j \in timer \ ghost => row[j] = "active"
      /\ row[j] = "active" => j \in timer \cup missed \cup untimed

\* A date fires at most once, also when the program ends while its job runs.
DateFiresOnce == \A j \in Dates : fired[j] <= 1
=============================================================================
