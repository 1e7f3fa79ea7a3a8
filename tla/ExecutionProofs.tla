-------------------------- MODULE ExecutionProofs --------------------------
(***************************************************************************)
(* What a process does at the same time stays in order, for any number of  *)
(* tasks, loops, callers, jobs, models, executions and teams: the users'   *)
(* schedules, the scheduler's loops, the cascades and their statistics,    *)
(* the parts of an execution and the loops' progress file, the way of a    *)
(* task to its teams, and the numbers of the events.                       *)
(***************************************************************************)
EXTENDS ExecutionMC, FiniteSetTheorems, SequenceTheorems, WellFoundedInduction, TLAPS

-----------------------------------------------------------------------------
(* The users' schedules. *)

UserTypes ==
  /\ row \in [Jobs -> {"none", "active", "inactive"}] /\ adder \in [Jobs -> {"new", "saved", "added"}]
  /\ canceler \in [Jobs -> {"idle", "resolved", "removed", "done"}]
  /\ timer \subseteq Jobs /\ passed \subseteq Dates /\ usUp \in BOOLEAN
  /\ firing \in [Jobs -> Nat] /\ running \in [Jobs -> Nat] /\ fired \in [Jobs -> Nat]

\* Where the calls are with a job says what there can be of it.
CallsTell(j) ==
  /\ adder[j] = "new" => row[j] = "none" /\ canceler[j] = "idle"
  /\ adder[j] # "added" => j \notin timer /\ firing[j] = 0 /\ running[j] = 0 /\ fired[j] = 0
  /\ adder[j] = "saved" /\ canceler[j] # "done" => row[j] = "active"
  /\ canceler[j] = "done" => row[j] = "inactive"
  /\ ~usUp => /\ adder[j] # "saved" /\ canceler[j] \in {"idle", "done"}
              /\ j \notin timer /\ firing[j] = 0 /\ running[j] = 0

\* A timer has an active row, an active row a timer or the call or run that took it.
RowsTell(j) ==
  /\ j \in timer /\ j \notin ghost => row[j] = "active" /\ canceler[j] \in {"idle", "resolved"}
  /\ usUp /\ row[j] = "active" /\ j \notin missed /\ j \notin untimed =>
       \/ j \in timer \/ adder[j] = "saved" \/ canceler[j] = "removed"
       \/ j \in Dates /\ firing[j] + running[j] > 0

\* A date that was fired has passed and has no timer.
OnceTells(j) ==
  j \in Dates => /\ fired[j] + firing[j] <= 1 /\ running[j] <= fired[j]
                 /\ j \in timer => fired[j] = 0 /\ firing[j] = 0
                 /\ fired[j] + firing[j] > 0 => j \in passed

JobTells(j) == CallsTell(j) /\ RowsTell(j) /\ OnceTells(j)

\* The inductive invariant of the schedules.
UserHolds == UserTypes /\ \A j \in Jobs : JobTells(j)

LEMMA UserStarts == UserInit => UserHolds
BY UserSchedulesAssumption DEF UserInit, UserHolds, UserTypes, JobTells, CallsTell, RowsTell, OnceTells

\* What a step leaves alone of a job.
SameOf(k) ==
  /\ row'[k] = row[k] /\ adder'[k] = adder[k] /\ canceler'[k] = canceler[k]
  /\ firing'[k] = firing[k] /\ running'[k] = running[k] /\ fired'[k] = fired[k]
  /\ k \in timer' <=> k \in timer
  /\ k \in passed' <=> k \in passed
  /\ k \in ghost' <=> k \in ghost
  /\ k \in missed' <=> k \in missed
  /\ k \in untimed' <=> k \in untimed

LEMMA SameJobTells == ASSUME NEW k, JobTells(k), SameOf(k), usUp' = usUp PROVE JobTells(k)'
BY DEF SameOf, JobTells, CallsTell, RowsTell, OnceTells

\* A step of one job.
LEMMA OneJobKept ==
  ASSUME UserHolds, UserTypes', NEW j \in Jobs, \A k \in Jobs \ {j} : SameOf(k), usUp' = usUp, JobTells(j)'
  PROVE  UserHolds'
BY SameJobTells DEF UserHolds

LEMMA SaveJobKept == ASSUME UserHolds, NEW j \in Jobs, SaveJob(j) PROVE UserHolds'
<1>1. UserTypes'
  BY DEF UserHolds, UserTypes, SaveJob
<1>2. \A k \in Jobs \ {j} : SameOf(k)
  BY DEF UserHolds, UserTypes, SaveJob, SameOf
<1>3. JobTells(j)'
  BY DEF UserHolds, UserTypes, SaveJob, JobTells, CallsTell, RowsTell, OnceTells
<1> QED BY <1>1, <1>2, <1>3, OneJobKept DEF SaveJob

LEMMA MakeTimerKept == ASSUME UserHolds, NEW j \in Jobs, MakeTimer(j) PROVE UserHolds'
<1>1. UserTypes'
  BY DEF UserHolds, UserTypes, MakeTimer
<1>2. \A k \in Jobs \ {j} : SameOf(k)
  BY DEF UserHolds, UserTypes, MakeTimer, SameOf
<1>3. JobTells(j)'
  BY DEF UserHolds, UserTypes, MakeTimer, JobTells, CallsTell, RowsTell, OnceTells
<1> QED BY <1>1, <1>2, <1>3, OneJobKept DEF MakeTimer

LEMMA ResolveJobKept == ASSUME UserHolds, NEW j \in Jobs, ResolveJob(j) PROVE UserHolds'
<1>1. UserTypes'
  BY DEF UserHolds, UserTypes, ResolveJob
<1>2. \A k \in Jobs \ {j} : SameOf(k)
  BY DEF UserHolds, UserTypes, ResolveJob, SameOf
<1>3. JobTells(j)'
  BY DEF UserHolds, UserTypes, ResolveJob, JobTells, CallsTell, RowsTell, OnceTells
<1> QED BY <1>1, <1>2, <1>3, OneJobKept DEF ResolveJob

LEMMA RemoveTimerKept == ASSUME UserHolds, NEW j \in Jobs, RemoveTimer(j) PROVE UserHolds'
<1>1. UserTypes'
  BY DEF UserHolds, UserTypes, RemoveTimer
<1>2. \A k \in Jobs \ {j} : SameOf(k)
  BY DEF UserHolds, UserTypes, RemoveTimer, SameOf
<1>3. JobTells(j)'
  BY DEF UserHolds, UserTypes, RemoveTimer, JobTells, CallsTell, RowsTell, OnceTells
<1> QED BY <1>1, <1>2, <1>3, OneJobKept DEF RemoveTimer

LEMMA CancelEndsKept == ASSUME UserHolds, NEW j \in Jobs, CancelEnds(j) PROVE UserHolds'
<1>1. UserTypes'
  BY DEF UserHolds, UserTypes, CancelEnds, Deactivate
<1>2. \A k \in Jobs \ {j} : SameOf(k)
  BY DEF UserHolds, UserTypes, CancelEnds, Deactivate, SameOf
<1>3. JobTells(j)'
  BY DEF UserHolds, UserTypes, CancelEnds, Deactivate, JobTells, CallsTell, RowsTell, OnceTells
<1> QED BY <1>1, <1>2, <1>3, OneJobKept DEF CancelEnds

LEMMA DatePassesKept == ASSUME UserHolds, NEW j \in Jobs, DatePasses(j) PROVE UserHolds'
<1>1. UserTypes'
  BY DEF UserHolds, UserTypes, DatePasses
<1>2. \A k \in Jobs \ {j} : SameOf(k)
  BY DEF UserHolds, UserTypes, DatePasses, SameOf
<1>3. JobTells(j)'
  BY DEF UserHolds, UserTypes, DatePasses, JobTells, CallsTell, RowsTell, OnceTells
<1> QED BY <1>1, <1>2, <1>3, OneJobKept DEF DatePasses

LEMMA FireJobKept == ASSUME UserHolds, NEW j \in Jobs, FireJob(j) PROVE UserHolds'
<1>1. UserTypes'
  BY DEF UserHolds, UserTypes, FireJob
<1>2. \A k \in Jobs \ {j} : SameOf(k)
  BY DEF UserHolds, UserTypes, FireJob, SameOf
<1>3. JobTells(j)'
  BY DEF UserHolds, UserTypes, FireJob, JobTells, CallsTell, RowsTell, OnceTells
<1> QED BY <1>1, <1>2, <1>3, OneJobKept DEF FireJob

LEMMA RunJobKept == ASSUME UserHolds, NEW j \in Jobs, RunJob(j) PROVE UserHolds'
<1>1. UserTypes'
  BY DEF UserHolds, UserTypes, RunJob
<1>2. \A k \in Jobs \ {j} : SameOf(k)
  BY DEF UserHolds, UserTypes, RunJob, SameOf
<1>3. JobTells(j)'
  BY DEF UserHolds, UserTypes, RunJob, JobTells, CallsTell, RowsTell, OnceTells
<1> QED BY <1>1, <1>2, <1>3, OneJobKept DEF RunJob

LEMMA JobEndsKept == ASSUME UserHolds, NEW j \in Jobs, JobEnds(j) PROVE UserHolds'
<1>1. UserTypes'
  BY DEF UserHolds, UserTypes, JobEnds
<1>2. \A k \in Jobs \ {j} : SameOf(k)
  BY DEF UserHolds, UserTypes, JobEnds, SameOf
<1>3. JobTells(j)'
  BY DEF UserHolds, UserTypes, JobEnds, JobTells, CallsTell, RowsTell, OnceTells
<1> QED BY <1>1, <1>2, <1>3, OneJobKept DEF JobEnds

LEMMA StopUsersKept == ASSUME UserHolds, StopUsers PROVE UserHolds'
<1>1. UserTypes'
  BY DEF UserHolds, UserTypes, StopUsers
<1>2. ASSUME NEW j \in Jobs PROVE JobTells(j)'
  BY DEF UserHolds, UserTypes, StopUsers, JobTells, CallsTell, RowsTell, OnceTells
<1> QED BY <1>1, <1>2 DEF UserHolds

LEMMA StartUsersKept == ASSUME UserHolds, StartUsers PROVE UserHolds'
<1> DEFINE act == {j \in Jobs : row[j] = "active"}
           late == act \cap passed
           unfit == act \cap malformed
<1>1. PICK refused \in SUBSET late :
        row' = [j \in Jobs |-> IF j \in refused \cup unfit THEN "inactive" ELSE row[j]]
  BY DEF StartUsers
<1>2. /\ timer' = act \ (late \cup malformed) /\ ghost' = {} /\ untimed' = {} /\ ~usUp /\ usUp' = TRUE
      /\ missed' = (missed \ (act \ (late \cup malformed))) \cup (late \ (act \ (late \cup malformed)))
      /\ UNCHANGED <<passed, adder, canceler, firing, running, fired>>
  BY DEF StartUsers, Restored
<1>3. UserTypes'
  BY <1>1, <1>2 DEF UserHolds, UserTypes
<1>4. ASSUME NEW j \in Jobs PROVE JobTells(j)'
  <2>1. row'[j] = IF j \in refused \cup unfit THEN "inactive" ELSE row[j]
    BY <1>1
  <2>2. j \in refused \cup unfit => row[j] = "active" /\ j \notin timer' /\ canceler[j] # "done"
    BY <1>2 DEF UserHolds, JobTells, CallsTell
  <2>3. /\ j \in timer' <=> row[j] = "active" /\ j \notin passed /\ j \notin malformed
        /\ row[j] = "active" /\ j \in passed => j \in missed'
        /\ row[j] = "active" /\ j \in malformed => j \in unfit
    BY <1>2
  <2> HIDE DEF act, late, unfit
  <2>4. CallsTell(j)'
    BY <1>2, <2>1, <2>2, <2>3 DEF UserHolds, UserTypes, JobTells, CallsTell
  <2>5. RowsTell(j)'
    BY <1>2, <2>1, <2>2, <2>3 DEF UserHolds, UserTypes, JobTells, CallsTell, RowsTell
  <2>6. OnceTells(j)'
    BY <1>2, <2>3 DEF UserHolds, UserTypes, JobTells, OnceTells
  <2> QED BY <2>4, <2>5, <2>6 DEF JobTells
<1> QED BY <1>3, <1>4 DEF UserHolds

LEMMA UserKept == UserHolds /\ [UserNext]_userVars => UserHolds'
<1> SUFFICES ASSUME UserHolds, [UserNext]_userVars PROVE UserHolds'
  OBVIOUS
<1>1. ASSUME NEW j \in Jobs, SaveJob(j) \/ MakeTimer(j) \/ ResolveJob(j) \/ RemoveTimer(j) \/ CancelEnds(j)
      PROVE  UserHolds'
  BY <1>1, SaveJobKept, MakeTimerKept, ResolveJobKept, RemoveTimerKept, CancelEndsKept
<1>2. ASSUME NEW j \in Jobs, DatePasses(j) \/ FireJob(j) \/ RunJob(j) \/ JobEnds(j) PROVE UserHolds'
  BY <1>2, DatePassesKept, FireJobKept, RunJobKept, JobEndsKept
<1>3. CASE StopUsers \/ StartUsers
  BY <1>3, StopUsersKept, StartUsersKept
<1>4. CASE UNCHANGED userVars
  BY <1>4 DEF userVars, UserHolds, UserTypes, JobTells, CallsTell, RowsTell, OnceTells
<1> QED BY <1>1, <1>2, <1>3, <1>4 DEF UserNext

LEMMA UsersAreInHand == UserHolds => TimersFollowRows /\ DateFiresOnce
<1> SUFFICES ASSUME UserHolds PROVE TimersFollowRows /\ DateFiresOnce
  OBVIOUS
<1>1. TimersFollowRows
  BY DEF UserHolds, UserTypes, JobTells, RowsTell, TimersFollowRows
<1>2. DateFiresOnce
  BY UserSchedulesAssumption DEF UserHolds, UserTypes, JobTells, OnceTells, DateFiresOnce
<1> QED BY <1>1, <1>2

-----------------------------------------------------------------------------
(* The scheduler's loops. *)

LoopStates == {"unmade", "starts", "sleeps", "executes", "gone"}
Objs == Names \X (Nat \ {0})

LoopTypes ==
  /\ made \in [Names -> Nat] /\ filed \in [Names -> Nat]
  /\ listed \in [Names -> LoopIds \cup {0}]
  /\ hands \in [Hands -> Objs \cup {NoObj}]
  /\ loops \in [LoopIds -> [obj : Objs \cup {NoObj}, at : LoopStates, kill : BOOLEAN]]
  /\ loopPhase \in {"boot", "up", "stopping", "down"}

\* An object has one executor, and a flag exactly while it has.
OneExecutes ==
  /\ \A l \in LoopIds : loops[l].at \in {"starts", "sleeps", "executes"} => loops[l].obj \in Objs
  /\ \A l, k \in LoopIds :
       loops[l].at = "executes" /\ loops[k].at = "executes" /\ loops[l].obj = loops[k].obj => l = k
  /\ \A h, g \in Hands : hands[h] = hands[g] /\ hands[h] # NoObj => h = g
  /\ \A l \in LoopIds, h \in Hands : loops[l].at = "executes" => hands[h] # loops[l].obj
FlagsTell ==
  \A obj \in Objs :
    obj \in flag <=> \/ \E l \in LoopIds : loops[l].at = "executes" /\ loops[l].obj = obj
                     \/ \E h \in Hands : hands[h] = obj

\* A loop that goes on is the one its name lists; none does before start or from stop on.
GoesOn(l) == loops[l].at \in {"starts", "sleeps", "executes"} /\ ~loops[l].kill
ListsTell ==
  /\ \A l \in LoopIds : GoesOn(l) => \E n \in Names : listed[n] = l /\ loops[l].obj[1] = n
  /\ loopPhase = "boot" => (\A l \in LoopIds : loops[l] = Unmade) /\ \A n \in Names : listed[n] = 0
  /\ loopPhase \in {"stopping", "down"} => \A l \in LoopIds : ~GoesOn(l)

\* The inductive invariant of the loops.
LoopsHold == LoopTypes /\ OneExecutes /\ FlagsTell /\ ListsTell

LEMMA NoObjIsNone == NoObj \notin Objs
BY DEF NoObj, Objs

LEMMA ObjIs == ASSUME LoopTypes, NEW n \in Names, filed[n] # 0 PROVE Obj(n) \in Objs /\ Obj(n)[1] = n
BY DEF LoopTypes, Obj, Objs

LEMMA LoopsStart == LoopsInit => LoopsHold
<1> SUFFICES ASSUME LoopsInit PROVE LoopsHold
  OBVIOUS
<1>1. LoopTypes
  BY DEF LoopsInit, LoopTypes, Unmade, LoopStates
<1>2. OneExecutes /\ FlagsTell /\ ListsTell
  BY NoObjIsNone DEF LoopsInit, OneExecutes, FlagsTell, ListsTell, GoesOn, Unmade
<1> QED BY <1>1, <1>2 DEF LoopsHold

\* A step that starts and ends no execution.
LEMMA NobodyExecutes ==
  ASSUME OneExecutes, FlagsTell, UNCHANGED <<flag, hands>>,
         \A l \in LoopIds : \/ loops'[l].at = loops[l].at /\ loops'[l].obj = loops[l].obj
                            \/ loops[l].at # "executes" /\ loops'[l].at # "executes" /\ loops'[l].obj \in Objs
                            \/ loops[l].at # "executes" /\ loops'[l].at \in {"unmade", "gone"}
  PROVE  OneExecutes' /\ FlagsTell'
<1>1. \A l \in LoopIds : /\ loops'[l].at = "executes" <=> loops[l].at = "executes"
                         /\ loops[l].at = "executes" => loops'[l].obj = loops[l].obj
  OBVIOUS
<1>2. OneExecutes'
  BY <1>1 DEF OneExecutes
<1>3. FlagsTell'
  BY <1>1 DEF FlagsTell
<1> QED BY <1>2, <1>3

LEMMA StartLoopsKept == ASSUME LoopsHold, StartLoops PROVE LoopsHold'
<1>1. PICK f \in [{n \in Names : filed[n] # 0 /\ Obj(n) \in enabled} -> LoopIds] :
        /\ \A n, m \in DOMAIN f : n # m => f[n] # f[m]
        /\ listed' = [n \in Names |-> IF n \in DOMAIN f THEN f[n] ELSE 0]
        /\ \E new \in [DOMAIN f -> {"starts", "sleeps"}] :
             loops' = [l \in LoopIds |->
               IF \E n \in DOMAIN f : f[n] = l
               THEN LET n == CHOOSE n \in DOMAIN f : f[n] = l
                    IN  [obj |-> Obj(n), at |-> new[n], kill |-> FALSE]
               ELSE loops[l]]
  BY DEF StartLoops
<1>2. PICK new \in [DOMAIN f -> {"starts", "sleeps"}] :
        loops' = [l \in LoopIds |->
          IF \E n \in DOMAIN f : f[n] = l
          THEN LET n == CHOOSE n \in DOMAIN f : f[n] = l
               IN  [obj |-> Obj(n), at |-> new[n], kill |-> FALSE]
          ELSE loops[l]]
  BY <1>1
<1> DEFINE of(l) == CHOOSE n \in DOMAIN f : f[n] = l
<1>3. /\ loopPhase' = "up" /\ UNCHANGED <<made, filed, flag, hands>>
      /\ \A l \in LoopIds : loops[l] = Unmade
  BY DEF StartLoops, LoopsHold, ListsTell
<1>4. DOMAIN f \subseteq Names /\ \A n \in DOMAIN f : filed[n] # 0 /\ f[n] \in LoopIds
  OBVIOUS
<1>5. ASSUME NEW l \in LoopIds, \E n \in DOMAIN f : f[n] = l
      PROVE  /\ of(l) \in DOMAIN f /\ f[of(l)] = l
             /\ loops'[l] = [obj |-> Obj(of(l)), at |-> new[of(l)], kill |-> FALSE]
  BY <1>2, <1>5
<1>6. ASSUME NEW l \in LoopIds, ~\E n \in DOMAIN f : f[n] = l PROVE loops'[l] = Unmade
  BY <1>2, <1>3, <1>6
<1> HIDE DEF of
<1>7. ASSUME NEW l \in LoopIds
      PROVE  /\ loops'[l] \in [obj : Objs \cup {NoObj}, at : LoopStates, kill : BOOLEAN]
             /\ loops'[l].at # "executes"
             /\ loops'[l].at # "unmade" => loops'[l].obj \in Objs
             /\ loops'[l].at # "unmade" => \E n \in Names : listed'[n] = l /\ loops'[l].obj[1] = n
  <2>1. CASE \E n \in DOMAIN f : f[n] = l
    <3>1. of(l) \in Names /\ Obj(of(l)) \in Objs /\ Obj(of(l))[1] = of(l) /\ listed'[of(l)] = l
      BY <1>1, <1>4, <1>5, <2>1, ObjIs DEF LoopsHold
    <3>2. new[of(l)] \in {"starts", "sleeps"}
      BY <1>5, <2>1
    <3>3. PICK o \in Objs, where \in {"starts", "sleeps"} :
            loops'[l] = [obj |-> o, at |-> where, kill |-> FALSE] /\ o[1] = of(l)
      BY <1>5, <2>1, <3>1, <3>2
    <3>4. loops'[l] \in [obj : Objs \cup {NoObj}, at : LoopStates, kill : BOOLEAN]
      BY <3>3 DEF LoopStates
    <3> QED BY <3>1, <3>3, <3>4
  <2>2. CASE ~\E n \in DOMAIN f : f[n] = l
    <3>1. Unmade \in [obj : Objs \cup {NoObj}, at : LoopStates, kill : BOOLEAN]
      BY DEF Unmade, LoopStates
    <3>2. Unmade.at = "unmade"
      BY DEF Unmade
    <3>3. loops'[l] = Unmade
      BY <1>6, <2>2
    <3> QED BY <3>1, <3>2, <3>3
  <2> QED BY <2>1, <2>2
<1>8. LoopTypes'
  <2>1. loops' \in [LoopIds -> [obj : Objs \cup {NoObj}, at : LoopStates, kill : BOOLEAN]]
    BY <1>2, <1>7
  <2>2. listed' \in [Names -> LoopIds \cup {0}]
    BY <1>1, <1>4
  <2> QED BY <1>3, <2>1, <2>2 DEF LoopsHold, LoopTypes
<1>9. OneExecutes' /\ FlagsTell'
  <2>1. \A l \in LoopIds : loops[l].at # "executes"
    BY <1>3 DEF Unmade
  <2> QED BY <1>3, <1>7, <2>1, NobodyExecutes DEF LoopsHold
<1>10. ListsTell'
  BY <1>3, <1>7 DEF ListsTell, GoesOn
<1> QED BY <1>8, <1>9, <1>10 DEF LoopsHold

LEMMA AddTaskKept == ASSUME LoopsHold, NEW n \in Names, NEW on \in BOOLEAN, AddTask(n, on) PROVE LoopsHold'
<1>1. LoopTypes'
  BY DEF LoopsHold, LoopTypes, AddTask
<1>2. OneExecutes' /\ FlagsTell' /\ ListsTell'
  BY DEF LoopsHold, AddTask, OneExecutes, FlagsTell, ListsTell, GoesOn
<1> QED BY <1>1, <1>2 DEF LoopsHold

\* remove and disable: the loop the name lists is cancelled.
LEMMA UnlistedKept ==
  ASSUME LoopsHold, NEW n \in Names, loops' = Cancelled(listed[n]), listed' = [listed EXCEPT ![n] = 0],
         filed' \in [Names -> Nat], UNCHANGED <<made, flag, hands, loopPhase>>
  PROVE  LoopsHold'
<1>0. LoopTypes /\ OneExecutes /\ FlagsTell /\ ListsTell /\ LoopIds \subseteq Nat \ {0}
  BY TaskLoopsAssumption DEF LoopsHold
<1>1. ASSUME NEW l \in LoopIds
      PROVE  loops'[l].at = loops[l].at /\ loops'[l].obj = loops[l].obj /\ loops'[l].kill = (loops[l].kill \/ l = listed[n])
  BY <1>0 DEF Cancelled, LoopTypes
<1>2. LoopTypes'
  <2>1. loops' \in [LoopIds -> [obj : Objs \cup {NoObj}, at : LoopStates, kill : BOOLEAN]]
    BY <1>0 DEF LoopTypes, Cancelled
  <2> QED BY <1>0, <2>1 DEF LoopTypes
<1>3. OneExecutes' /\ FlagsTell'
  BY <1>0, <1>1, NobodyExecutes
<1>4. \A l \in LoopIds : GoesOn(l)' => GoesOn(l) /\ l # listed[n]
  BY <1>1 DEF GoesOn
<1>5. ListsTell'
  <2>1. ASSUME NEW l \in LoopIds, GoesOn(l)' PROVE \E m \in Names : listed'[m] = l /\ loops'[l].obj[1] = m
    <3>1. PICK m \in Names : listed[m] = l /\ loops[l].obj[1] = m
      BY <1>0, <1>4, <2>1 DEF ListsTell
    <3>2. m # n
      BY <1>4, <2>1, <3>1
    <3> QED BY <1>0, <1>1, <3>1, <3>2 DEF LoopTypes
  <2>2. loopPhase' = "boot" => (\A l \in LoopIds : loops'[l] = Unmade) /\ \A m \in Names : listed'[m] = 0
    <3> SUFFICES ASSUME loopPhase = "boot"
                 PROVE  (\A l \in LoopIds : loops'[l] = Unmade) /\ \A m \in Names : listed'[m] = 0
      OBVIOUS
    <3>1. listed[n] = 0 /\ \A m \in Names : listed[m] = 0
      BY <1>0 DEF ListsTell
    <3> QED BY <1>0, <3>1 DEF ListsTell, Cancelled, LoopTypes
  <2>3. loopPhase' \in {"stopping", "down"} => \A l \in LoopIds : ~GoesOn(l)'
    BY <1>0, <1>4 DEF ListsTell
  <2> QED BY <2>1, <2>2, <2>3 DEF ListsTell, GoesOn
<1> QED BY <1>2, <1>3, <1>5 DEF LoopsHold

LEMMA EnableKept == ASSUME LoopsHold, NEW n \in Names, Enable(n) PROVE LoopsHold'
<1>0. LoopTypes /\ OneExecutes /\ FlagsTell /\ ListsTell /\ LoopIds \subseteq Nat \ {0}
  BY TaskLoopsAssumption DEF LoopsHold
<1>1. CASE UNCHANGED <<listed, loops>>
  <2>1. LoopTypes'
    BY <1>0, <1>1 DEF LoopTypes, Enable
  <2>2. OneExecutes' /\ FlagsTell' /\ ListsTell'
    BY <1>0, <1>1 DEF Enable, OneExecutes, FlagsTell, ListsTell, GoesOn
  <2> QED BY <2>1, <2>2 DEF LoopsHold
<1>2. ASSUME loopPhase = "up", listed[n] = 0, NEW l \in LoopIds, Free(l), listed' = [listed EXCEPT ![n] = l],
             NEW new \in Created(Obj(n)), loops' = [loops EXCEPT ![l] = new]
      PROVE  LoopsHold'
  <2>1. Obj(n) \in Objs /\ Obj(n)[1] = n
    BY <1>0, ObjIs DEF Enable
  <2>2. /\ new \in [obj : Objs \cup {NoObj}, at : LoopStates, kill : BOOLEAN]
        /\ new.obj = Obj(n) /\ new.at \in {"starts", "sleeps"}
    <3>1. PICK where \in {"starts", "sleeps"} : new = [obj |-> Obj(n), at |-> where, kill |-> FALSE]
      BY <1>2 DEF Created
    <3>2. \A o \in Objs : [obj |-> o, at |-> where, kill |-> FALSE]
                            \in [obj : Objs \cup {NoObj}, at : LoopStates, kill : BOOLEAN]
      BY DEF LoopStates
    <3> QED BY <2>1, <3>1, <3>2
  <2>3. loops[l].at \in {"unmade", "gone"} /\ loops'[l] = new /\ \A k \in LoopIds \ {l} : loops'[k] = loops[k]
    BY <1>0, <1>2 DEF Free, LoopTypes
  <2>4. LoopTypes'
    BY <1>0, <1>2, <2>2 DEF LoopTypes, Enable
  <2>5. OneExecutes' /\ FlagsTell'
    <3>1. UNCHANGED <<flag, hands>>
      BY DEF Enable
    <3> HIDE DEF Enable
    <3> QED BY <1>0, <2>1, <2>2, <2>3, <3>1, NobodyExecutes
  <2>6. ListsTell'
    <3>1. ASSUME NEW k \in LoopIds, GoesOn(k)' PROVE \E m \in Names : listed'[m] = k /\ loops'[k].obj[1] = m
      <4>1. CASE k = l
        BY <1>0, <1>2, <2>1, <2>2, <2>3, <4>1 DEF LoopTypes
      <4>2. CASE k # l
        <5>1. GoesOn(k)
          BY <2>3, <3>1, <4>2 DEF GoesOn
        <5>2. PICK m \in Names : listed[m] = k /\ loops[k].obj[1] = m
          BY <1>0, <5>1 DEF ListsTell
        <5>3. m # n
          BY <1>0, <1>2, <5>2
        <5> QED BY <1>0, <1>2, <2>3, <4>2, <5>2, <5>3 DEF LoopTypes
      <4> QED BY <4>1, <4>2
    <3>2. loopPhase' = "up"
      BY <1>2 DEF Enable
    <3> QED BY <3>1, <3>2 DEF ListsTell, GoesOn
  <2> QED BY <2>4, <2>5, <2>6 DEF LoopsHold
<1> QED BY <1>1, <1>2 DEF Enable

LEMMA StopLoopsKept == ASSUME LoopsHold, StopLoops PROVE LoopsHold'
<1>0. LoopTypes /\ OneExecutes /\ FlagsTell /\ ListsTell
  BY DEF LoopsHold
<1>1. ASSUME NEW l \in LoopIds
      PROVE  /\ loops'[l].at = loops[l].at /\ loops'[l].obj = loops[l].obj
             /\ loops'[l].kill = (loops[l].kill \/ \E n \in Names : listed[n] = l)
             /\ loops'[l] \in [obj : Objs \cup {NoObj}, at : LoopStates, kill : BOOLEAN]
  <2>1. loops[l] \in [obj : Objs \cup {NoObj}, at : LoopStates, kill : BOOLEAN]
    BY <1>0 DEF LoopTypes
  <2>2. loops'[l] = IF \E n \in Names : listed[n] = l THEN [loops[l] EXCEPT !.kill = TRUE] ELSE loops[l]
    BY DEF StopLoops
  <2> QED BY <2>1, <2>2
<1>2. LoopTypes'
  <2>1. loops' \in [LoopIds -> [obj : Objs \cup {NoObj}, at : LoopStates, kill : BOOLEAN]]
    BY <1>1 DEF StopLoops
  <2> QED BY <1>0, <2>1 DEF LoopTypes, StopLoops
<1>3. OneExecutes' /\ FlagsTell'
  BY <1>0, <1>1, NobodyExecutes DEF StopLoops
<1>4. \A l \in LoopIds : ~GoesOn(l)'
  BY <1>0, <1>1 DEF GoesOn, ListsTell
<1>5. ListsTell'
  BY <1>4 DEF ListsTell, StopLoops, GoesOn
<1> QED BY <1>2, <1>3, <1>5 DEF LoopsHold

LEMMA LoopsStoppedKept == ASSUME LoopsHold, LoopsStopped PROVE LoopsHold'
<1>1. LoopTypes'
  BY DEF LoopsHold, LoopTypes, LoopsStopped
<1>2. OneExecutes' /\ FlagsTell' /\ ListsTell'
  BY DEF LoopsHold, LoopsStopped, OneExecutes, FlagsTell, ListsTell, GoesOn
<1> QED BY <1>1, <1>2 DEF LoopsHold

\* A loop goes from one state to another; its execution begins or ends with its flag.
LEMMA LoopMoves ==
  ASSUME LoopsHold, NEW l \in LoopIds, NEW to \in {"sleeps", "executes", "gone"},
         loops[l].at \in {"starts", "sleeps", "executes"},
         loops' = [loops EXCEPT ![l].at = to],
         UNCHANGED <<made, filed, listed, hands, loopPhase>>,
         to = "executes" => loops[l].at # "executes" /\ loops[l].obj \notin flag,
         flag' = IF to = "executes" THEN flag \cup {loops[l].obj}
                 ELSE IF loops[l].at = "executes" THEN flag \ {loops[l].obj} ELSE flag
  PROVE  LoopsHold'
<1>0. LoopTypes /\ OneExecutes /\ FlagsTell /\ ListsTell
  BY DEF LoopsHold
<1>1. /\ loops'[l].at = to /\ loops'[l].obj = loops[l].obj /\ loops'[l].kill = loops[l].kill
      /\ \A k \in LoopIds \ {l} : loops'[k] = loops[k]
  BY <1>0 DEF LoopTypes
<1>2. LoopTypes'
  BY <1>0 DEF LoopTypes, LoopStates
<1>3. loops[l].obj \in Objs
  BY <1>0 DEF OneExecutes
<1>4. ListsTell'
  <2>1. \A k \in LoopIds : loops'[k].obj = loops[k].obj /\ (GoesOn(k)' => GoesOn(k))
    BY <1>1 DEF GoesOn
  <2>2. loopPhase # "boot"
    BY <1>0 DEF ListsTell, Unmade
  <2> QED BY <1>0, <2>1, <2>2 DEF ListsTell, GoesOn
<1>5. OneExecutes'
  <2>1. to = "executes" =>
          /\ \A k \in LoopIds : loops[k].at = "executes" => loops[k].obj # loops[l].obj
          /\ \A h \in Hands : hands[h] # loops[l].obj
    BY <1>0, <1>3 DEF FlagsTell
  <2> QED BY <1>0, <1>1, <1>3, <2>1 DEF OneExecutes
<1>6. FlagsTell'
  <2> SUFFICES ASSUME NEW obj \in Objs
               PROVE  obj \in flag' <=> \/ \E k \in LoopIds : loops'[k].at = "executes" /\ loops'[k].obj = obj
                                        \/ \E h \in Hands : hands[h] = obj
    BY DEF FlagsTell
  <2>1. CASE obj # loops[l].obj
    <3>1. obj \in flag' <=> obj \in flag
      BY <2>1
    <3>2. \A k \in LoopIds : loops'[k].at = "executes" /\ loops'[k].obj = obj
                             <=> loops[k].at = "executes" /\ loops[k].obj = obj
      BY <1>1, <2>1
    <3> QED BY <1>0, <3>1, <3>2 DEF FlagsTell
  <2>2. CASE obj = loops[l].obj /\ to = "executes"
    BY <1>1, <2>2
  <2>3. CASE obj = loops[l].obj /\ to # "executes" /\ loops[l].at = "executes"
    <3>1. obj \notin flag'
      BY <2>3
    <3>2. \A k \in LoopIds : loops'[k].at = "executes" => loops'[k].obj # obj
      BY <1>0, <1>1, <2>3 DEF OneExecutes
    <3>3. \A h \in Hands : hands[h] # obj
      BY <1>0, <2>3 DEF OneExecutes
    <3> QED BY <3>1, <3>2, <3>3
  <2>4. CASE obj = loops[l].obj /\ to # "executes" /\ loops[l].at # "executes"
    <3>1. \A k \in LoopIds : loops'[k].at = "executes" /\ loops'[k].obj = obj
                             <=> loops[k].at = "executes" /\ loops[k].obj = obj
      BY <1>1, <2>4
    <3> QED BY <1>0, <2>4, <3>1 DEF FlagsTell
  <2> QED BY <2>1, <2>2, <2>3, <2>4
<1> QED BY <1>2, <1>4, <1>5, <1>6 DEF LoopsHold

LEMMA LoopTurnsKept == ASSUME LoopsHold, NEW l \in LoopIds, LoopTurns(l) PROVE LoopsHold'
<1>1. /\ loops[l].at \in {"starts", "sleeps"} /\ UNCHANGED <<made, filed, listed, hands, loopPhase>>
  BY DEF LoopTurns
<1>2. \/ loops' = [loops EXCEPT ![l].at = "gone"] /\ flag' = flag
      \/ loops' = [loops EXCEPT ![l].at = "sleeps"] /\ flag' = flag
      \/ /\ loops' = [loops EXCEPT ![l].at = "executes"]
         /\ loops[l].obj \notin flag /\ flag' = flag \cup {loops[l].obj}
  BY DEF LoopTurns, Skips
<1>3. CASE loops' = [loops EXCEPT ![l].at = "gone"] /\ flag' = flag
  BY <1>1, <1>3, LoopMoves
<1>4. CASE loops' = [loops EXCEPT ![l].at = "sleeps"] /\ flag' = flag
  BY <1>1, <1>4, LoopMoves
<1>5. CASE /\ loops' = [loops EXCEPT ![l].at = "executes"]
           /\ loops[l].obj \notin flag /\ flag' = flag \cup {loops[l].obj}
  BY <1>1, <1>5, LoopMoves
<1> QED BY <1>2, <1>3, <1>4, <1>5

LEMMA LoopReturnsKept == ASSUME LoopsHold, NEW l \in LoopIds, LoopReturns(l) PROVE LoopsHold'
<1>1. /\ loops[l].at = "executes" /\ flag' = flag \ {loops[l].obj}
      /\ UNCHANGED <<made, filed, listed, hands, loopPhase>>
  BY DEF LoopReturns
<1>2. PICK where \in {"sleeps", "gone"} : loops' = [loops EXCEPT ![l].at = where]
  BY DEF LoopReturns
<1> QED BY <1>1, <1>2, LoopMoves

LEMMA RunNowKept == ASSUME LoopsHold, NEW h \in Hands, NEW n \in Names, RunNow(h, n) PROVE LoopsHold'
<1>0. LoopTypes /\ OneExecutes /\ FlagsTell /\ ListsTell
  BY DEF LoopsHold
<1>1. hands[h] = NoObj /\ Obj(n) \in Objs /\ UNCHANGED <<made, filed, listed, loops, loopPhase>>
  BY <1>0, ObjIs DEF RunNow
<1>2. CASE UNCHANGED <<flag, hands>>
  <2>1. LoopTypes'
    BY <1>0, <1>1, <1>2 DEF LoopTypes
  <2>2. OneExecutes' /\ FlagsTell' /\ ListsTell'
    BY <1>0, <1>1, <1>2 DEF OneExecutes, FlagsTell, ListsTell, GoesOn
  <2> QED BY <2>1, <2>2 DEF LoopsHold
<1>3. CASE Obj(n) \notin flag /\ flag' = flag \cup {Obj(n)} /\ hands' = [hands EXCEPT ![h] = Obj(n)]
  <2> DEFINE new == Obj(n)
  <2>1. hands'[h] = new /\ \A g \in Hands \ {h} : hands'[g] = hands[g]
    BY <1>0, <1>3 DEF LoopTypes
  <2>2. /\ \A l \in LoopIds : loops[l].at = "executes" => loops[l].obj # new
        /\ \A g \in Hands : hands[g] # new
    BY <1>0, <1>1, <1>3 DEF FlagsTell
  <2>3. LoopTypes'
    BY <1>0, <1>1, <1>3 DEF LoopTypes
  <2>4. ListsTell'
    BY <1>0, <1>1 DEF ListsTell, GoesOn
  <2>5. new \in Objs /\ new \notin flag /\ flag' = flag \cup {new} /\ loops' = loops
    BY <1>1, <1>3
  <2> HIDE DEF new
  <2>6. OneExecutes'
    BY <1>0, <2>1, <2>2, <2>5 DEF OneExecutes
  <2>7. FlagsTell'
    BY <1>0, <1>1, <2>1, <2>2, <2>5, NoObjIsNone DEF FlagsTell
  <2> QED BY <2>3, <2>4, <2>6, <2>7 DEF LoopsHold
<1> QED BY <1>2, <1>3 DEF RunNow, Skips

LEMMA RunNowReturnsKept == ASSUME LoopsHold, NEW h \in Hands, RunNowReturns(h) PROVE LoopsHold'
<1>0. LoopTypes /\ OneExecutes /\ FlagsTell /\ ListsTell
  BY DEF LoopsHold
<1>1. /\ hands[h] # NoObj /\ flag' = flag \ {hands[h]} /\ hands' = [hands EXCEPT ![h] = NoObj]
      /\ UNCHANGED <<made, filed, listed, loops, loopPhase>>
  BY DEF RunNowReturns
<1>2. hands'[h] = NoObj /\ \A g \in Hands \ {h} : hands'[g] = hands[g] /\ hands[g] # hands[h]
  BY <1>0, <1>1 DEF LoopTypes, OneExecutes
<1>3. LoopTypes'
  BY <1>0, <1>1 DEF LoopTypes
<1>4. ListsTell'
  BY <1>0, <1>1 DEF ListsTell, GoesOn
<1>5. OneExecutes'
  BY <1>0, <1>1, <1>2, NoObjIsNone DEF OneExecutes
<1>6. \A l \in LoopIds : loops[l].at = "executes" => loops[l].obj # hands[h]
  BY <1>0 DEF OneExecutes
<1>7. FlagsTell'
  BY <1>0, <1>1, <1>2, <1>6, NoObjIsNone DEF FlagsTell
<1> QED BY <1>3, <1>4, <1>5, <1>7 DEF LoopsHold

LEMMA LoopsKept == LoopsHold /\ [LoopsNext]_loopVars => LoopsHold'
<1> SUFFICES ASSUME LoopsHold, [LoopsNext]_loopVars PROVE LoopsHold'
  OBVIOUS
<1>1. CASE StartLoops \/ StopLoops \/ LoopsStopped
  BY <1>1, StartLoopsKept, StopLoopsKept, LoopsStoppedKept
<1>2. ASSUME NEW n \in Names, (\E on \in BOOLEAN : AddTask(n, on)) \/ Enable(n) PROVE LoopsHold'
  BY <1>2, AddTaskKept, EnableKept
<1>3. ASSUME NEW n \in Names, RemoveTask(n) \/ Disable(n) PROVE LoopsHold'
  <2>1. filed' \in [Names -> Nat]
    BY <1>3 DEF RemoveTask, Disable, LoopsHold, LoopTypes
  <2> QED BY <1>3, <2>1, UnlistedKept DEF RemoveTask, Disable
<1>4. ASSUME NEW h \in Hands, (\E n \in Names : RunNow(h, n)) \/ RunNowReturns(h) PROVE LoopsHold'
  BY <1>4, RunNowKept, RunNowReturnsKept
<1>5. ASSUME NEW l \in LoopIds, LoopTurns(l) \/ LoopReturns(l) PROVE LoopsHold'
  BY <1>5, LoopTurnsKept, LoopReturnsKept
<1>6. CASE UNCHANGED loopVars
  <2>1. LoopTypes'
    BY <1>6 DEF loopVars, LoopsHold, LoopTypes
  <2>2. OneExecutes' /\ FlagsTell' /\ ListsTell'
    BY <1>6 DEF loopVars, LoopsHold, OneExecutes, FlagsTell, ListsTell, GoesOn
  <2> QED BY <2>1, <2>2 DEF LoopsHold
<1> QED BY <1>1, <1>2, <1>3, <1>4, <1>5, <1>6 DEF LoopsNext

LEMMA LoopsAreInHand == LoopsHold => LoopsInHand
<1> SUFFICES ASSUME LoopsHold PROVE LoopsInHand
  OBVIOUS
<1>0. LoopTypes /\ OneExecutes /\ FlagsTell /\ ListsTell
  BY DEF LoopsHold
<1>1. ASSUME NEW n \in Names, NEW e \in 1..MaxEdition
      PROVE  /\ Cardinality(Executors(<<n, e>>)) <= 1
             /\ <<n, e>> \in flag <=> Executors(<<n, e>>) # {}
  <2> DEFINE obj == <<n, e>>
  <2>1. obj \in Objs
    BY TaskLoopsAssumption DEF Objs
  <2>2. obj \in flag <=> Executors(obj) # {}
    BY <1>0, <2>1 DEF FlagsTell, Executors
  <2>3. \A x, y \in Executors(obj) : x = y
    BY <1>0, <2>1, NoObjIsNone DEF OneExecutes, Executors
  <2>4. Executors(obj) = {} \/ \E x : Executors(obj) = {x}
    BY <2>3
  <2>5. Cardinality(Executors(obj)) <= 1
    <3>1. CASE Executors(obj) = {}
      <4>1. Cardinality(Executors(obj)) = 0
        BY <3>1, FS_EmptySet
      <4> QED BY <4>1
    <3>2. ASSUME NEW x, Executors(obj) = {x} PROVE Cardinality(Executors(obj)) <= 1
      <4>1. Cardinality(Executors(obj)) = 1
        BY <3>2, FS_Singleton
      <4> QED BY <4>1
    <3> QED BY <2>4, <3>1, <3>2
  <2> QED BY <2>2, <2>5
<1>2. \A l \in LoopIds :
        loops[l].at \in {"starts", "sleeps", "executes"} /\ ~loops[l].kill =>
          \E n \in Names : listed[n] = l /\ loops[l].obj[1] = n
  BY <1>0 DEF ListsTell, GoesOn
<1>3. loopPhase = "down" => \A l \in LoopIds : loops[l].at = "gone" \/ loops[l].kill \/ loops[l].at = "unmade"
  BY <1>0 DEF ListsTell, GoesOn, LoopTypes, LoopStates
<1> QED BY <1>1, <1>2, <1>3 DEF LoopsInHand

\* What is scheduled is what runs: no task is executed twice at once and disable,
\* remove and stop reach every loop; a user's row is active exactly if its timer is
\* there; and a date fires at most once, however calls and restarts interleave.
THEOREM SchedulesStayInHand == LoopsSpec /\ UserSpec => []SchedulesInHand
<1>1. LoopsHold /\ UserHolds => SchedulesInHand
  BY LoopsAreInHand, UsersAreInHand DEF SchedulesInHand
<1> QED BY <1>1, LoopsStart, LoopsKept, UserStarts, UserKept, PTL DEF LoopsSpec, UserSpec

-----------------------------------------------------------------------------
(* The statistics of the cascades. *)

Phases == {"new", "ready", "agent", "direct", "done", "failed", "cancelled"}

PiTypes ==
  /\ phase \in [Runs -> Phases] /\ lossy \in BOOLEAN
  /\ DOMAIN mine = Runs /\ DOMAIN chain = Runs
  /\ mine = [r \in Runs |-> mine[r]] /\ chain = [r \in Runs |-> chain[r]]

\* As long as nothing was lost, one cascade goes at most, and its own statistics
\* have every attempt; those of the team have them when none goes.
CascadesTell ==
  ~lossy =>
    /\ Going \cap Cascades = {} => stats = tried
    /\ \A r \in Going \cap Cascades :
         /\ mine[r] = tried /\ (Escalates(r) \/ stats = tried)
         /\ \A s \in Going \cap Cascades : s = r

\* The inductive invariant of a Pi's runs.
PiHolds == PiTypes /\ CascadesTell

LEMMA GoesIs == \A r \in Runs : r \in Going <=> phase[r] \in {"ready", "agent", "direct"}
BY DEF Going

LEMMA PiStarts == PiInit => PiHolds
<1> SUFFICES ASSUME PiInit PROVE PiHolds
  OBVIOUS
<1>1. PiTypes
  BY DEF PiInit, PiTypes, Phases
<1>2. Going = {} /\ stats = tried
  BY DEF PiInit, Going
<1>3. CascadesTell
  BY <1>2 DEF CascadesTell
<1> QED BY <1>1, <1>3 DEF PiHolds

\* A run goes on, and counts nothing.
LEMMA GoesOnKept ==
  ASSUME PiHolds, PiTypes', Going' = Going, UNCHANGED <<stats, mine, tried, chain, lossy>>
  PROVE  PiHolds'
BY DEF PiHolds, CascadesTell, Escalates

LEMMA BeginKept == ASSUME PiHolds, NEW r \in Runs, Begin(r) PROVE PiHolds'
<1>0. PiTypes /\ CascadesTell /\ r \notin Going
  BY DEF PiHolds, Begin, Going
<1>1. PiTypes'
  <2>1. phase' \in [Runs -> Phases]
    BY <1>0 DEF PiTypes, Begin, Phases
  <2>2. lossy' \in BOOLEAN
    BY <1>0 DEF PiTypes, Begin
  <2>3. DOMAIN mine' = Runs /\ DOMAIN chain' = Runs
    BY <1>0 DEF PiTypes, Begin
  <2>4. mine' = [s \in Runs |-> mine'[s]] /\ chain' = [s \in Runs |-> chain'[s]]
    BY <1>0, <2>3 DEF PiTypes, Begin
  <2> QED BY <2>1, <2>2, <2>3, <2>4 DEF PiTypes
<1>2. Going' = Going \cup {r}
  BY <1>0 DEF PiTypes, Begin, Going
<1>3. /\ mine'[r] = stats /\ \A s \in Runs \ {r} : mine'[s] = mine[s] /\ chain'[s] = chain[s]
      /\ UNCHANGED <<stats, tried>>
      /\ ~lossy' => ~lossy /\ (r \in Cascades => Going \cap Cascades = {})
  BY <1>0 DEF PiTypes, Begin
<1>4. CascadesTell'
  <2>1. CASE r \in Cascades
    BY <1>0, <1>2, <1>3, <2>1 DEF CascadesTell
  <2>2. CASE r \notin Cascades
    <3>1. Going' \cap Cascades = Going \cap Cascades
      BY <1>2, <2>2
    <3>2. \A s \in Going \cap Cascades : s \in Runs \ {r}
      BY <2>2 DEF Going
    <3>3. \A s \in Going \cap Cascades : (Escalates(s)' <=> Escalates(s)) /\ mine'[s] = mine[s]
      BY <1>3, <3>2 DEF Escalates
    <3> QED BY <1>0, <1>3, <3>1, <3>3 DEF CascadesTell
  <2> QED BY <2>1, <2>2
<1> QED BY <1>1, <1>4 DEF PiHolds

\* Its end, with nothing to count.
LEMMA EndsKept ==
  ASSUME PiHolds, NEW r \in Runs, NEW how \in {"done", "failed", "cancelled"}, NEW what, Ends(r, how, what),
         UNCHANGED <<stats, mine, tried, chain>>, lossy' \in BOOLEAN,
         ~lossy' => ~lossy /\ (r \in Going \cap Cascades => ~Escalates(r))
  PROVE  PiHolds'
<1>0. PiTypes /\ CascadesTell
  BY DEF PiHolds
<1>1. PiTypes'
  BY <1>0 DEF PiTypes, Ends, Phases
<1>2. Going' = Going \ {r}
  BY <1>0 DEF PiTypes, Ends, Going
<1>3. \A s \in Runs : Escalates(s)' <=> Escalates(s)
  BY DEF Escalates
<1>4. CascadesTell'
  <2> SUFFICES ASSUME ~lossy'
               PROVE  /\ Going' \cap Cascades = {} => stats' = tried'
                      /\ \A q \in Going' \cap Cascades :
                           /\ mine'[q] = tried' /\ (Escalates(q)' \/ stats' = tried')
                           /\ \A s \in Going' \cap Cascades : s = q
    BY DEF CascadesTell
  <2>1. ASSUME Going' \cap Cascades = {} PROVE stats' = tried'
    <3>1. CASE r \in Going \cap Cascades
      BY <1>0, <3>1 DEF CascadesTell
    <3>2. CASE r \notin Going \cap Cascades
      BY <1>0, <1>2, <2>1, <3>2 DEF CascadesTell
    <3> QED BY <3>1, <3>2
  <2>2. \A q \in Going' \cap Cascades : q \in Going \cap Cascades /\ q \in Runs
    BY <1>2 DEF Going
  <2> QED BY <1>0, <1>3, <2>1, <2>2 DEF CascadesTell
<1> QED BY <1>1, <1>4 DEF PiHolds

\* An attempt of a cascade is counted; its run ends and is saved, or goes on.
LEMMA CountKept ==
  ASSUME PiHolds, NEW r \in Runs, r \in Going \cap Cascades, NEW m, NEW succeeded, Count(r, m, succeeded),
         NEW to \in {"ready", "done", "failed"}, phase' = [phase EXCEPT ![r] = to],
         to # "ready" => stats' = mine'[r], UNCHANGED <<chain, lossy>>, Escalates(r)
  PROVE  PiHolds'
<1>0. PiTypes /\ CascadesTell
  BY DEF PiHolds
<1>1. PiTypes'
  <2>1. phase' \in [Runs -> Phases] /\ lossy' \in BOOLEAN /\ DOMAIN chain' = Runs /\ DOMAIN mine' = Runs
    BY <1>0 DEF PiTypes, Count, Phases
  <2>2. mine' = [s \in Runs |-> mine'[s]] /\ chain' = [s \in Runs |-> chain'[s]]
    BY <1>0, <2>1 DEF PiTypes, Count
  <2> QED BY <2>1, <2>2 DEF PiTypes
<1>2. mine'[r] = Record(mine[r], m, succeeded) /\ tried' = Record(tried, m, succeeded)
  BY <1>0 DEF PiTypes, Count
<1>3. ~lossy => mine'[r] = tried' /\ \A s \in Going \cap Cascades : s = r
  BY <1>0, <1>2 DEF CascadesTell
<1>4. IF to = "ready" THEN Going' = Going ELSE Going' = Going \ {r}
  BY <1>0 DEF PiTypes, Going
<1>5. Escalates(r)'
  BY DEF Escalates
<1>6. CascadesTell'
  <2>1. CASE to = "ready"
    BY <1>3, <1>4, <1>5, <2>1 DEF CascadesTell
  <2>2. CASE to # "ready"
    BY <1>3, <1>4, <2>2 DEF CascadesTell
  <2> QED BY <2>1, <2>2
<1> QED BY <1>1, <1>6 DEF PiHolds

LEMMA AnsweredKept ==
  ASSUME PiHolds, NEW r \in Runs, NEW said \in {"adequate", "poor", "empty"}, Answered(r, said)
  PROVE  PiHolds'
<1>0. r \in Going /\ UNCHANGED <<chain, lossy>> /\ lossy \in BOOLEAN
  BY DEF Answered, Going, PiHolds, PiTypes
<1>1. CASE ~Escalates(r)
  <2>1. /\ \E what : Ends(r, "done", what)
        /\ UNCHANGED <<stats, mine, tried>>
    BY <1>1 DEF Answered
  <2> QED BY <1>0, <1>1, <2>1, EndsKept
<1>2. CASE Escalates(r)
  <2>1. r \in Going \cap Cascades
    BY <1>0, <1>2 DEF Escalates
  <2>2. CASE IsLast(r) \/ said = "adequate"
    <3>1. Count(r, Model(r), TRUE) /\ stats' = mine'[r] /\ phase' = [phase EXCEPT ![r] = "done"]
      BY <1>2, <2>2 DEF Answered, Ends
    <3> QED BY <1>0, <1>2, <2>1, <3>1, CountKept
  <2>3. CASE ~(IsLast(r) \/ said = "adequate")
    <3>1. Count(r, Model(r), FALSE) /\ phase' = [phase EXCEPT ![r] = "ready"]
      BY <1>2, <2>3 DEF Answered
    <3> QED BY <1>0, <1>2, <2>1, <3>1, CountKept
  <2> QED BY <2>2, <2>3
<1> QED BY <1>1, <1>2

LEMMA FailsKept == ASSUME PiHolds, NEW r \in Runs, Fails(r) PROVE PiHolds'
<1>0. r \in Going /\ UNCHANGED <<chain, lossy>> /\ lossy \in BOOLEAN
  BY DEF Fails, Going, PiHolds, PiTypes
<1>1. CASE ~Escalates(r)
  <2>1. Ends(r, "failed", Nothing) /\ UNCHANGED <<stats, mine, tried>>
    BY <1>1 DEF Fails
  <2> QED BY <1>0, <1>1, <2>1, EndsKept
<1>2. CASE Escalates(r)
  <2>1. r \in Going \cap Cascades
    BY <1>0, <1>2 DEF Escalates
  <2>2. Count(r, Model(r), FALSE)
    BY <1>2 DEF Fails
  <2>3. CASE ~IsLast(r)
    <3>1. phase' = [phase EXCEPT ![r] = "ready"]
      BY <1>2, <2>3 DEF Fails
    <3> QED BY <1>0, <1>2, <2>1, <2>2, <3>1, CountKept
  <2>4. CASE IsLast(r)
    <3>1. /\ stats' = mine'[r]
          /\ phase' = [phase EXCEPT ![r] = "done"] \/ phase' = [phase EXCEPT ![r] = "failed"]
      BY <1>2, <2>4 DEF Fails, Ends
    <3>2. CASE phase' = [phase EXCEPT ![r] = "done"]
      BY <1>0, <1>2, <2>1, <2>2, <3>1, <3>2, CountKept
    <3>3. CASE phase' = [phase EXCEPT ![r] = "failed"]
      BY <1>0, <1>2, <2>1, <2>2, <3>1, <3>3, CountKept
    <3> QED BY <3>1, <3>2, <3>3
  <2> QED BY <2>3, <2>4
<1> QED BY <1>1, <1>2

LEMMA RunCancelledKept == ASSUME PiHolds, NEW r \in Runs, RunCancelled(r) PROVE PiHolds'
<1>1. Ends(r, "cancelled", Nothing) /\ UNCHANGED <<stats, mine, tried, chain>>
  BY DEF RunCancelled
<1>2. lossy' = (lossy \/ r \in Cascades) /\ lossy' \in BOOLEAN
  BY DEF RunCancelled, PiHolds, PiTypes
<1> QED BY <1>1, <1>2, EndsKept

LEMMA AgainKept == ASSUME PiHolds, NEW r \in Runs, Again(r) PROVE PiHolds'
<1>0. PiTypes /\ CascadesTell /\ r \notin Going
  BY DEF PiHolds, Again, Going
<1>1. PiTypes'
  <2>1. phase' \in [Runs -> Phases] /\ lossy' \in BOOLEAN /\ DOMAIN chain' = Runs /\ DOMAIN mine' = Runs
    BY <1>0 DEF PiTypes, Again, Phases
  <2>2. mine' = [s \in Runs |-> mine'[s]] /\ chain' = [s \in Runs |-> chain'[s]]
    BY <1>0, <2>1 DEF PiTypes, Again
  <2> QED BY <2>1, <2>2 DEF PiTypes
<1>2. Going' = Going
  BY <1>0 DEF PiTypes, Again, Going
<1>3. \A s \in Going : s \in Runs \ {r}
  BY <1>0 DEF Going
<1>4. \A s \in Going : mine'[s] = mine[s] /\ (Escalates(s)' <=> Escalates(s))
  BY <1>0, <1>3 DEF PiTypes, Again, Escalates
<1>5. CascadesTell'
  BY <1>0, <1>2, <1>4 DEF CascadesTell, Again
<1> QED BY <1>1, <1>5 DEF PiHolds

LEMMA PiKept == PiHolds /\ [PiNext]_piVars => PiHolds'
<1> SUFFICES ASSUME PiHolds, [PiNext]_piVars PROVE PiHolds'
  OBVIOUS
<1>1. CASE BackoffEnds \/ UNCHANGED piVars
  <2>1. PiTypes' /\ Going' = Going
    BY <1>1 DEF BackoffEnds, piVars, PiHolds, PiTypes, Going
  <2> QED BY <1>1, <2>1, GoesOnKept DEF BackoffEnds, piVars
<1>2. ASSUME NEW r \in Runs, Ask(r) \/ AgentFallsBack(r) PROVE PiHolds'
  <2>1. phase[r] \in {"ready", "agent"} /\ UNCHANGED <<stats, mine, tried, chain, lossy>>
    BY <1>2 DEF Ask, AgentFallsBack
  <2>2. phase' = [phase EXCEPT ![r] = "direct"] \/ phase' = [phase EXCEPT ![r] = "agent"]
    BY <1>2 DEF Ask, AgentFallsBack
  <2>3. PiTypes' /\ Going' = Going
    BY <2>1, <2>2 DEF PiHolds, PiTypes, Phases, Going
  <2> QED BY <2>1, <2>3, GoesOnKept
<1>3. ASSUME NEW r \in Runs, Begin(r) \/ Fails(r) \/ RunCancelled(r) \/ Again(r) PROVE PiHolds'
  BY <1>3, BeginKept, FailsKept, RunCancelledKept, AgainKept
<1>4. ASSUME NEW r \in Runs, NEW said \in {"adequate", "poor", "empty"}, Answered(r, said) PROVE PiHolds'
  BY <1>4, AnsweredKept
<1> QED BY <1>1, <1>2, <1>3, <1>4 DEF PiNext

\* The statistics of a team count every attempt of its cascades, whatever models
\* and chains there are, as long as no two cascades overlapped and none was given up.
THEOREM NoAttemptIsLost == PiSpec => []AttemptsCounted
<1>1. PiHolds => AttemptsCounted
  BY DEF PiHolds, CascadesTell, AttemptsCounted
<1> QED BY <1>1, PiStarts, PiKept, PTL DEF PiSpec

-----------------------------------------------------------------------------
(* The chains of the cascades, and what a run settles for. *)

\* A chain has each of the cheaper models once and the target at its end.
LEMMA ChainIs ==
  ASSUME NEW target \in Models, NEW same \in BOOLEAN, NEW l, NEW c \in Chains(target, same, l)
  PROVE  \E n \in Nat :
           /\ DOMAIN c = 1..(n + 1) /\ Len(c) = n + 1 /\ c[n + 1] = target
           /\ \A i \in 1..n : /\ c[i] \in Models \ {target} /\ CostRank[c[i]] <= CostRank[target]
                              /\ \A j \in 1..n : c[i] = c[j] => i = j
           /\ \A m \in Models \ {target} :
                CostRank[m] <= CostRank[target] /\ (same => ProviderOf[m] = ProviderOf[target]) =>
                  \E i \in 1..n : c[i] = m
<1> DEFINE cheaper == {m \in Models \ {target} :
                         CostRank[m] <= CostRank[target] /\ (same => ProviderOf[m] = ProviderOf[target])}
           n == Cardinality(cheaper)
<1>1. IsFiniteSet(cheaper) /\ n \in Nat
  <2>1. IsFiniteSet(Models) /\ cheaper \subseteq Models
    BY PiRunAssumption
  <2> QED BY <2>1, FS_Subset, FS_CardinalityType
<1>2. PICK h \in [1..n -> cheaper] : IsInjective(h) /\ c = Append(h, target)
  BY DEF Chains
<1>3. h \in Injection(1..n, cheaper)
  BY <1>2 DEF Injection, IsInjective
<1>4. Cardinality(1..n) = n
  BY <1>1, FS_Interval
<1>5. h \in Surjection(1..n, cheaper)
  BY <1>1, <1>3, <1>4, FS_Injection
<1>6. \A m \in cheaper : \E i \in 1..n : h[i] = m
  BY <1>5 DEF Surjection
<1>7. \A i, j \in 1..n : h[i] = h[j] => i = j
  BY <1>2 DEF IsInjective
<1>8. \A m : m \in cheaper <=> /\ m \in Models \ {target} /\ CostRank[m] <= CostRank[target]
                               /\ same => ProviderOf[m] = ProviderOf[target]
  OBVIOUS
<1> HIDE DEF n, cheaper
<1>9. h \in Seq(cheaper) /\ Len(h) = n
  BY <1>1
<1>10. /\ DOMAIN c = 1..(n + 1) /\ Len(c) = n + 1 /\ c[n + 1] = target
       /\ \A i \in 1..n : c[i] = h[i]
  <2>1. h \in Seq(cheaper \cup {target})
    BY <1>1, <1>2
  <2> QED BY <1>1, <1>2, <1>9, <2>1
<1>11. \A i \in 1..n : c[i] \in cheaper
  BY <1>10
<1>12. \A i \in 1..n : \A j \in 1..n : c[i] = c[j] => i = j
  BY <1>7, <1>10
<1>13. \A m \in cheaper : \E i \in 1..n : c[i] = m
  BY <1>6, <1>10
<1> QED BY <1>1, <1>8, <1>10, <1>11, <1>12, <1>13

LEMMA ChainsAlwaysClimb == ChainsClimb
<1> SUFFICES ASSUME NEW target \in Models, NEW same \in BOOLEAN, NEW l \in DOMAIN Penalty,
                    NEW c \in Chains(target, same, l)
             PROVE  /\ c[Len(c)] = target /\ IsInjective(c)
                    /\ \A i \in 1..Len(c) : CostRank[c[i]] <= CostRank[target]
                    /\ Downgrade(target) \subseteq ToSet(c)
  BY DEF ChainsClimb
<1>1. PICK n \in Nat :
           /\ DOMAIN c = 1..(n + 1) /\ Len(c) = n + 1 /\ c[n + 1] = target
           /\ \A i \in 1..n : /\ c[i] \in Models \ {target} /\ CostRank[c[i]] <= CostRank[target]
                              /\ \A j \in 1..n : c[i] = c[j] => i = j
           /\ \A m \in Models \ {target} :
                CostRank[m] <= CostRank[target] /\ (same => ProviderOf[m] = ProviderOf[target]) =>
                  \E i \in 1..n : c[i] = m
  BY ChainIs
<1>2. CostRank \in [Models -> Nat]
  BY PiRunAssumption
<1>3. \A i \in 1..(n + 1) : i \in 1..n \/ i = n + 1
  OBVIOUS
<1>4. IsInjective(c)
  <2> SUFFICES ASSUME NEW a \in 1..(n + 1), NEW b \in 1..(n + 1), c[a] = c[b] PROVE a = b
    BY <1>1 DEF IsInjective
  <2> QED BY <1>1, <1>3
<1>5. \A i \in 1..Len(c) : CostRank[c[i]] <= CostRank[target]
  BY <1>1, <1>2, <1>3
<1>6. Downgrade(target) \subseteq ToSet(c)
  <2> SUFFICES ASSUME NEW m \in Downgrade(target) PROVE m \in ToSet(c)
    OBVIOUS
  <2>1. m \in Models /\ ProviderOf[m] = ProviderOf[target] /\ CostRank[m] < CostRank[target]
    BY DEF Downgrade
  <2>2. m # target /\ CostRank[m] <= CostRank[target]
    BY <1>2, <2>1
  <2>3. PICK i \in 1..n : c[i] = m
    BY <1>1, <2>1, <2>2
  <2>4. i \in DOMAIN c
    BY <1>1
  <2> QED BY <2>3, <2>4 DEF ToSet
<1> QED BY <1>1, <1>4, <1>5, <1>6

\* What a run that is over has settled for.
SettledFor(r) ==
  /\ phase[r] = "done" /\ ~given[r].adequate /\ Escalates(r) => step[r] = Len(chain[r])
  /\ phase[r] = "failed" /\ Escalates(r) => last[r] = "none"

SettlingTypes ==
  /\ phase = [r \in Runs |-> phase[r]] /\ chain = [r \in Runs |-> chain[r]]
  /\ step = [r \in Runs |-> step[r]] /\ given = [r \in Runs |-> given[r]] /\ last = [r \in Runs |-> last[r]]

\* The inductive invariant.
AllSettle == SettlingTypes /\ \A r \in Runs : SettledFor(r)

LEMMA AllSettleFirst == PiInit => AllSettle
BY DEF PiInit, AllSettle, SettlingTypes, SettledFor

\* One run moves.
LEMMA OneMoves ==
  ASSUME AllSettle, NEW r \in Runs, SettlingTypes', SettledFor(r)',
         \A s \in Runs \ {r} : /\ phase'[s] = phase[s] /\ chain'[s] = chain[s] /\ step'[s] = step[s]
                               /\ given'[s] = given[s] /\ last'[s] = last[s]
  PROVE  AllSettle'
<1>1. \A s \in Runs \ {r} : SettledFor(s)'
  BY DEF AllSettle, SettledFor, Escalates
<1> QED BY <1>1 DEF AllSettle

LEMMA AllSettleOn == AllSettle /\ [PiNext]_piVars => AllSettle'
<1> SUFFICES ASSUME AllSettle, [PiNext]_piVars PROVE AllSettle'
  OBVIOUS
<1>0. SettlingTypes /\ \A r \in Runs : SettledFor(r)
  BY DEF AllSettle
<1>1. CASE BackoffEnds \/ UNCHANGED piVars
  BY <1>1 DEF BackoffEnds, piVars, AllSettle, SettlingTypes, SettledFor, Escalates
<1>2. ASSUME NEW r \in Runs, Begin(r) \/ Ask(r) \/ AgentFallsBack(r) \/ RunCancelled(r) \/ Again(r)
      PROVE AllSettle'
  <2>1. phase'[r] \notin {"done", "failed"}
    BY <1>0, <1>2 DEF SettlingTypes, Begin, Ask, AgentFallsBack, RunCancelled, Again, Ends
  <2>2. SettlingTypes'
    BY <1>0, <1>2 DEF SettlingTypes, Begin, Ask, AgentFallsBack, RunCancelled, Again, Ends
  <2>3. \A s \in Runs \ {r} : /\ phase'[s] = phase[s] /\ chain'[s] = chain[s] /\ step'[s] = step[s]
                              /\ given'[s] = given[s] /\ last'[s] = last[s]
    BY <1>0, <1>2 DEF SettlingTypes, Begin, Ask, AgentFallsBack, RunCancelled, Again, Ends
  <2>4. SettledFor(r)'
    BY <2>1 DEF SettledFor
  <2> QED BY <2>2, <2>3, <2>4, OneMoves
<1>3. ASSUME NEW r \in Runs, NEW said \in {"adequate", "poor", "empty"}, Answered(r, said) PROVE AllSettle'
  <2>1. SettlingTypes'
    BY <1>0, <1>3 DEF SettlingTypes, Answered, Ends, Count
  <2>2. \A s \in Runs \ {r} : /\ phase'[s] = phase[s] /\ chain'[s] = chain[s] /\ step'[s] = step[s]
                              /\ given'[s] = given[s] /\ last'[s] = last[s]
    BY <1>0, <1>3 DEF SettlingTypes, Answered, Ends, Count
  <2>3. SettledFor(r)'
    <3>1. CASE ~Escalates(r)
      BY <1>0, <1>3, <3>1 DEF SettlingTypes, SettledFor, Answered, Ends, Escalates
    <3>2. CASE Escalates(r) /\ (IsLast(r) \/ said = "adequate")
      <4>1. /\ phase'[r] = "done" /\ UNCHANGED <<step, chain>>
            /\ given'[r] = [of |-> Model(r), adequate |-> said = "adequate"]
        BY <1>0, <1>3, <3>2 DEF SettlingTypes, Answered, Ends
      <4>2. given'[r].adequate \/ step[r] = Len(chain[r])
        <5>1. CASE said = "adequate"
          <6>1. given'[r] = [of |-> Model(r), adequate |-> TRUE]
            BY <4>1, <5>1
          <6> QED BY <6>1
        <5>2. CASE IsLast(r)
          BY <4>1, <5>2 DEF IsLast
        <5> QED BY <3>2, <5>1, <5>2
      <4> QED BY <4>1, <4>2 DEF SettledFor
    <3>3. CASE Escalates(r) /\ ~(IsLast(r) \/ said = "adequate")
      BY <1>0, <1>3, <3>3 DEF SettlingTypes, SettledFor, Answered
    <3> QED BY <3>1, <3>2, <3>3
  <2> QED BY <2>1, <2>2, <2>3, OneMoves
<1>4. ASSUME NEW r \in Runs, Fails(r) PROVE AllSettle'
  <2>1. SettlingTypes'
    BY <1>0, <1>4 DEF SettlingTypes, Fails, Ends, Count
  <2>2. \A s \in Runs \ {r} : /\ phase'[s] = phase[s] /\ chain'[s] = chain[s] /\ step'[s] = step[s]
                              /\ given'[s] = given[s] /\ last'[s] = last[s]
    BY <1>0, <1>4 DEF SettlingTypes, Fails, Ends, Count
  <2>3. SettledFor(r)'
    <3>1. CASE ~Escalates(r)
      BY <1>0, <1>4, <3>1 DEF SettlingTypes, SettledFor, Fails, Ends, Escalates
    <3>2. CASE Escalates(r) /\ IsLast(r)
      BY <1>0, <1>4, <3>2 DEF SettlingTypes, SettledFor, Fails, Ends, IsLast, Kept
    <3>3. CASE Escalates(r) /\ ~IsLast(r)
      BY <1>0, <1>4, <3>3 DEF SettlingTypes, SettledFor, Fails
    <3> QED BY <3>1, <3>2, <3>3
  <2> QED BY <2>1, <2>2, <2>3, OneMoves
<1> QED BY <1>1, <1>2, <1>3, <1>4 DEF PiNext

\* Whatever models there are and whatever they cost, a chain climbs to the target and
\* has every model the cost gate may lower it to; and an answer that is not adequate
\* is given only after every model of the chain was asked.
THEOREM CascadesEscalate == PiSpec => []EscalatesBeforeSettling
<1>1. AllSettle => EscalatesBeforeSettling
  BY ChainsAlwaysClimb, PiRunAssumption DEF AllSettle, SettledFor, EscalatesBeforeSettling
<1> QED BY <1>1, AllSettleFirst, AllSettleOn, PTL DEF PiSpec

-----------------------------------------------------------------------------
(* Facts about numbers, loops and what is left of a sequence. *)

\* Induction, for a set of numbers.
LEMMA EveryNumber ==
  ASSUME NEW T \in SUBSET Nat, 0 \in T, \A n \in T : n + 1 \in T
  PROVE  Nat \subseteq T
<1> SUFFICES ASSUME NEW x \in Nat, x \notin T PROVE FALSE
  OBVIOUS
<1> DEFINE M == Nat \ T
<1>1. M \subseteq Nat /\ M # {}
  OBVIOUS
<1>2. PICK m \in M : \A y \in M : <<y, m>> \notin OpToRel(<, Nat)
  BY <1>1, NatLessThanWellFounded, WFMin
<1>3. \A y \in M : ~ (y < m)
  BY <1>1, <1>2 DEF OpToRel
<1>4. m # 0 /\ m - 1 \in Nat /\ m - 1 < m /\ (m - 1) + 1 = m
  OBVIOUS
<1>5. m - 1 \in T
  BY <1>3, <1>4
<1> QED BY <1>4, <1>5

\* A loop over the numbers up to N, and that it has a result.
Loops(f, V, v, N, go) ==
  f \in [0..N -> V] /\ f[0] = v /\ \A n \in 1..N : f[n] = go[<<f[n - 1], n>>]

LEMMA LoopExists ==
  ASSUME NEW V, NEW v \in V, NEW N \in Nat, NEW go \in [V \X (1..N) -> V]
  PROVE  \E f : Loops(f, V, v, N, go)
<1> DEFINE Goes(f, m) == \A n \in 0..m : f[n] = IF n = 0 THEN v ELSE go[<<f[n - 1], n>>]
           T == {m \in Nat : m <= N => \E f \in [0..m -> V] : Goes(f, m)}
<1>1. 0 \in T
  <2>1. [n \in 0..0 |-> v] \in [0..0 -> V] /\ Goes([n \in 0..0 |-> v], 0)
    OBVIOUS
  <2> QED BY <2>1
<1>2. ASSUME NEW m \in T PROVE m + 1 \in T
  <2> SUFFICES ASSUME m + 1 <= N PROVE \E f \in [0..(m + 1) -> V] : Goes(f, m + 1)
    OBVIOUS
  <2>1. PICK f \in [0..m -> V] : Goes(f, m)
    OBVIOUS
  <2> DEFINE w == go[<<f[m], m + 1>>]
             g == [n \in 0..(m + 1) |-> IF n <= m THEN f[n] ELSE w]
  <2>2. f[m] \in V /\ m + 1 \in 1..N
    OBVIOUS
  <2>3. <<f[m], m + 1>> \in V \X (1..N)
    BY <2>2
  <2>4. w \in V
    BY <2>3
  <2> HIDE DEF w
  <2>5. g \in [0..(m + 1) -> V]
    BY <2>4
  <2>6. \A n \in 0..m : g[n] = f[n]
    OBVIOUS
  <2>7. g[m + 1] = w
    OBVIOUS
  <2>8. ASSUME NEW n \in 0..(m + 1)
        PROVE  g[n] = IF n = 0 THEN v ELSE go[<<g[n - 1], n>>]
    <3>1. CASE n \in 0..m
      <4>1. n # 0 => n - 1 \in 0..m
        BY <3>1
      <4> HIDE DEF g
      <4> QED BY <3>1, <4>1, <2>1, <2>6
    <3>2. CASE n = m + 1
      <4>1. n # 0 /\ n - 1 = m /\ m \in 0..m
        BY <3>2
      <4>2. g[n - 1] = f[m]
        BY <4>1, <2>6
      <4> QED BY <3>2, <4>1, <4>2, <2>7 DEF w
    <3> QED BY <3>1, <3>2
  <2> HIDE DEF g
  <2> QED BY <2>5, <2>8
<1> HIDE DEF T
<1>3. N \in T
  BY <1>1, <1>2, EveryNumber DEF T
<1>4. PICK f \in [0..N -> V] : Goes(f, N)
  BY <1>3 DEF T
<1>5. f[0] = v /\ \A n \in 1..N : f[n] = go[<<f[n - 1], n>>]
  <2>1. 0 \in 0..N /\ \A n \in 1..N : n \in 0..N /\ n # 0
    OBVIOUS
  <2> HIDE DEF Goes
  <2>2. \A n \in 0..N : f[n] = IF n = 0 THEN v ELSE go[<<f[n - 1], n>>]
    BY <1>4 DEF Goes
  <2> QED BY <2>1, <2>2
<1> QED BY <1>5 DEF Loops

\* A sum of scores is a number.
LEMMA SumIsNumber ==
  ASSUME NEW of \in SUBSET (1..Width), NEW score, \A i \in of : score[i] \in Nat
  PROVE  SumOf(of, score) \in Nat
<1> DEFINE more(i) == IF i \in of THEN score[i] ELSE 0
           go == [x \in Nat \X (1..Width) |-> x[1] + more(x[2])]
           sum[i \in 0..Width] == IF i = 0 THEN 0 ELSE sum[i - 1] + IF i \in of THEN score[i] ELSE 0
<1>1. Width \in Nat /\ \A i \in 1..Width : more(i) \in Nat
  BY ExecutionModesAssumption
<1>2. go \in [Nat \X (1..Width) -> Nat]
  BY <1>1
<1>3. \A a \in Nat, i \in 1..Width : go[<<a, i>>] = a + more(i)
  OBVIOUS
<1> HIDE DEF go
<1>4. PICK f : Loops(f, Nat, 0, Width, go)
  BY <1>1, <1>2, LoopExists
<1>5. ASSUME NEW i \in 0..Width PROVE f[i] = IF i = 0 THEN 0 ELSE f[i - 1] + IF i \in of THEN score[i] ELSE 0
  <2>1. CASE i = 0
    BY <2>1, <1>4 DEF Loops
  <2>2. CASE i # 0
    <3>1. i \in 1..Width /\ i - 1 \in 0..Width
      BY <2>2, <1>1
    <3>2. f[i - 1] \in Nat
      BY <3>1, <1>4 DEF Loops
    <3>3. f[i] = go[<<f[i - 1], i>>]
      BY <3>1, <1>4 DEF Loops
    <3> QED BY <2>2, <3>1, <3>2, <3>3, <1>3
  <2> QED BY <2>1, <2>2
<1>6. f = [i \in 0..Width |-> IF i = 0 THEN 0 ELSE f[i - 1] + IF i \in of THEN score[i] ELSE 0]
  BY <1>4, <1>5 DEF Loops
<1>7. sum = [i \in 0..Width |-> IF i = 0 THEN 0 ELSE sum[i - 1] + IF i \in of THEN score[i] ELSE 0]
  BY <1>6 DEF sum
<1>8. SumOf(of, score) = sum[Width]
  BY DEF SumOf, sum
<1> HIDE DEF sum
<1>9. ASSUME NEW i \in 0..Width PROVE sum[i] = IF i = 0 THEN 0 ELSE sum[i - 1] + more(i)
  BY <1>7
<1> HIDE DEF more
<1> DEFINE T == {n \in Nat : n <= Width => sum[n] \in Nat}
<1>10. 0 \in T
  BY <1>1, <1>9
<1>11. ASSUME NEW n \in T PROVE n + 1 \in T
  <2> SUFFICES ASSUME n + 1 <= Width PROVE sum[n + 1] \in Nat
    OBVIOUS
  <2>1. n \in Nat /\ sum[n] \in Nat /\ n + 1 \in 0..Width /\ n + 1 \in 1..Width /\ n + 1 # 0 /\ (n + 1) - 1 = n
    BY <1>1
  <2> QED BY <2>1, <1>1, <1>9
<1> HIDE DEF T
<1>12. Width \in T
  BY <1>1, <1>10, <1>11, EveryNumber DEF T
<1> QED BY <1>1, <1>8, <1>12 DEF T

\* The beginnings of what is left of a sequence.
Lefts(f, V, s, K) ==
  /\ f \in [0..Len(s) -> Seq(V)]
  /\ \A n \in 0..Len(s) : f[n] = IF n = 0 THEN <<>>
                                 ELSE IF s[n] \in K THEN Append(f[n - 1], s[n]) ELSE f[n - 1]

LEMMA OnlyIs ==
  ASSUME NEW V, NEW s \in Seq(V), NEW K
  PROVE  \E f : Lefts(f, V, s, K) /\ Only(s, K) = f[Len(s)]
<1> DEFINE N == Len(s)
           go == [x \in Seq(V) \X (1..N) |-> IF s[x[2]] \in K THEN Append(x[1], s[x[2]]) ELSE x[1]]
           only[n \in 0..N] == IF n = 0 THEN <<>>
                               ELSE IF s[n] \in K THEN Append(only[n - 1], s[n]) ELSE only[n - 1]
<1>1. N \in Nat /\ \A n \in 1..N : s[n] \in V
  OBVIOUS
<1>2. go \in [Seq(V) \X (1..N) -> Seq(V)]
  BY <1>1
<1>3. \A a \in Seq(V), n \in 1..N : go[<<a, n>>] = IF s[n] \in K THEN Append(a, s[n]) ELSE a
  OBVIOUS
<1> HIDE DEF go
<1>4. PICK f : Loops(f, Seq(V), <<>>, N, go)
  <2>1. <<>> \in Seq(V)
    OBVIOUS
  <2> QED BY <1>1, <1>2, <2>1, LoopExists
<1>5. ASSUME NEW n \in 0..N
      PROVE  f[n] = IF n = 0 THEN <<>> ELSE IF s[n] \in K THEN Append(f[n - 1], s[n]) ELSE f[n - 1]
  <2>1. CASE n = 0
    BY <2>1, <1>4 DEF Loops
  <2>2. CASE n # 0
    <3>1. n \in 1..N /\ n - 1 \in 0..N
      BY <2>2, <1>1
    <3>2. f[n - 1] \in Seq(V)
      BY <3>1, <1>4 DEF Loops
    <3>3. f[n] = go[<<f[n - 1], n>>]
      BY <3>1, <1>4 DEF Loops
    <3> QED BY <2>2, <3>1, <3>2, <3>3, <1>3
  <2> QED BY <2>1, <2>2
<1>6. f = [n \in 0..N |-> IF n = 0 THEN <<>> ELSE IF s[n] \in K THEN Append(f[n - 1], s[n]) ELSE f[n - 1]]
  BY <1>4, <1>5 DEF Loops
<1>7. only = [n \in 0..N |-> IF n = 0 THEN <<>>
                             ELSE IF s[n] \in K THEN Append(only[n - 1], s[n]) ELSE only[n - 1]]
  BY <1>6 DEF only
<1>8. Only(s, K) = only[N]
  BY DEF Only, only
<1> HIDE DEF only
<1>9. \A n \in 0..N : only[n] = IF n = 0 THEN <<>>
                                ELSE IF s[n] \in K THEN Append(only[n - 1], s[n]) ELSE only[n - 1]
  BY <1>7
<1> DEFINE T == {n \in Nat : n <= N => only[n] = f[n]}
<1>10. 0 \in T
  BY <1>1, <1>5, <1>9
<1>11. ASSUME NEW n \in T PROVE n + 1 \in T
  <2> SUFFICES ASSUME n + 1 <= N PROVE only[n + 1] = f[n + 1]
    OBVIOUS
  <2>1. n \in Nat /\ only[n] = f[n] /\ n + 1 \in 0..N /\ n + 1 # 0 /\ (n + 1) - 1 = n
    BY <1>1
  <2> QED BY <2>1, <1>5, <1>9
<1> HIDE DEF T
<1>12. \A n \in 0..N : only[n] = f[n]
  <2>1. Nat \subseteq T
    BY <1>10, <1>11, EveryNumber DEF T
  <2> QED BY <2>1, <1>1 DEF T
<1>13. only \in [0..N -> Seq(V)]
  BY <1>12, <1>4, <1>7 DEF Loops
<1>14. Lefts(only, V, s, K)
  BY <1>9, <1>13 DEF Lefts
<1> QED BY <1>8, <1>14

LEMMA OnlyGrows ==
  ASSUME NEW V, NEW s \in Seq(V), NEW x \in V, NEW K
  PROVE  /\ Only(s, K) \in Seq(V)
         /\ Only(Append(s, x), K) = IF x \in K THEN Append(Only(s, K), x) ELSE Only(s, K)
<1> DEFINE N == Len(s)
           more == Append(s, x)
<1>1. N \in Nat /\ more \in Seq(V) /\ Len(more) = N + 1 /\ more[N + 1] = x /\ \A n \in 1..N : more[n] = s[n]
  BY AppendProperties
<1> HIDE DEF more
<1>2. PICK f : Lefts(f, V, s, K) /\ Only(s, K) = f[N]
  BY OnlyIs
<1>3. PICK g : Lefts(g, V, more, K) /\ Only(more, K) = g[N + 1]
  BY <1>1, OnlyIs
<1> DEFINE T == {n \in Nat : n <= N => f[n] = g[n]}
<1>4. 0 \in T
  BY <1>1, <1>2, <1>3 DEF Lefts
<1>5. ASSUME NEW n \in T PROVE n + 1 \in T
  <2> SUFFICES ASSUME n + 1 <= N PROVE f[n + 1] = g[n + 1]
    OBVIOUS
  <2>1. /\ n \in Nat /\ f[n] = g[n] /\ n + 1 \in 0..N /\ n + 1 \in 0..Len(more) /\ n + 1 # 0
        /\ (n + 1) - 1 = n /\ more[n + 1] = s[n + 1]
    BY <1>1
  <2>2. f[n + 1] = IF s[n + 1] \in K THEN Append(f[n], s[n + 1]) ELSE f[n]
    BY <2>1, <1>2 DEF Lefts
  <2>3. g[n + 1] = IF more[n + 1] \in K THEN Append(g[n], more[n + 1]) ELSE g[n]
    BY <2>1, <1>3 DEF Lefts
  <2> QED BY <2>1, <2>2, <2>3
<1> HIDE DEF T
<1>6. f[N] = g[N]
  <2>1. N \in T
    BY <1>1, <1>4, <1>5, EveryNumber DEF T
  <2> QED BY <2>1, <1>1 DEF T
<1>7. f[N] \in Seq(V)
  BY <1>1, <1>2 DEF Lefts
<1>8. g[N + 1] = IF x \in K THEN Append(g[N], x) ELSE g[N]
  <2>1. N + 1 \in 0..Len(more) /\ N + 1 # 0 /\ (N + 1) - 1 = N
    BY <1>1
  <2> QED BY <2>1, <1>1, <1>3 DEF Lefts
<1> QED BY <1>2, <1>3, <1>6, <1>7, <1>8 DEF more

LEMMA OnlyOfNothing == ASSUME NEW K PROVE Only(<<>>, K) = <<>>
<1>1. PICK f : Lefts(f, {}, <<>>, K) /\ Only(<<>>, K) = f[Len(<<>>)]
  <2>1. <<>> \in Seq({})
    OBVIOUS
  <2> QED BY <2>1, OnlyIs
<1>2. Len(<<>>) = 0 /\ 0 \in 0..0
  OBVIOUS
<1> QED BY <1>1, <1>2 DEF Lefts

-----------------------------------------------------------------------------
(* What a judge leaves of a council. *)

\* Of two numbers the same multiple.
LEMMA Multiples ==
  ASSUME NEW n \in Nat, NEW a \in Nat, NEW b \in Nat
  PROVE  /\ n * a \in Nat /\ 10 * n * a = 10 * (n * a)
         /\ a <= b => n * a <= n * b
<1>1. n * a \in Nat
  OBVIOUS
<1>2. 10 * n * a = 10 * (n * a)
  OBVIOUS
<1>3. ASSUME a <= b PROVE n * a <= n * b
  <2>1. b - a \in Nat /\ b = a + (b - a)
    BY <1>3
  <2>2. n * (b - a) \in Nat
    BY <2>1
  <2>3. n * b = n * a + n * (b - a)
    BY <2>1
  <2> QED BY <2>2, <2>3, <1>1
<1> QED BY <1>1, <1>2, <1>3

\* At least two stay of more, each as good as any that goes, and those that go are
\* below the mean.
LEMMA FilterKeeps ==
  ASSUME NEW of \in SUBSET (1..Width), NEW score, \A i \in of : score[i] \in Nat,
         NEW left \in FilterPerspectives(of, score)
  PROVE  /\ left \subseteq of /\ (Cardinality(of) >= 2 => Cardinality(left) >= 2)
         /\ \A i \in left, j \in of \ left :
              score[i] >= score[j] /\ Cardinality(of) * score[j] < SumOf(of, score)
<1> DEFINE n == Cardinality(of)
           total10 == SumOf(of, score)
           high == {i \in of : 10 * n * score[i] >= 7 * total10}
           best == {pair \in kSubset(2, of) :
                      \A i \in pair, j \in of \ pair : score[i] > score[j] \/ (score[i] = score[j] /\ i < j)}
<1>1. IsFiniteSet(of) /\ n \in Nat
  <2>1. IsFiniteSet(1..Width)
    BY ExecutionModesAssumption, FS_Interval
  <2> QED BY <2>1, FS_Subset, FS_CardinalityType
<1>2. total10 \in Nat
  BY SumIsNumber
<1>3. left \in IF n <= 2 THEN {of} ELSE IF Cardinality(high) < 2 THEN best ELSE {high}
  BY DEF FilterPerspectives
<1>4. high \subseteq of /\ Cardinality(high) \in Nat /\ IsFiniteSet(high)
  BY <1>1, FS_Subset, FS_CardinalityType
<1>5. ASSUME NEW i \in of PROVE i \in high <=> 10 * (n * score[i]) >= 7 * total10
  BY <1>1, Multiples
<1>6. ASSUME NEW j \in of \ high PROVE n * score[j] < total10
  <2>1. score[j] \in Nat
    OBVIOUS
  <2>2. n * score[j] \in Nat
    BY <2>1, <1>1, Multiples
  <2>3. ~(10 * (n * score[j]) >= 7 * total10)
    BY <1>5, <1>6
  <2> HIDE DEF n, total10
  <2> QED BY <2>2, <2>3, <1>2
<1>7. ASSUME NEW i \in high, NEW j \in of \ high PROVE score[i] >= score[j]
  <2>1. score[i] \in Nat /\ score[j] \in Nat /\ i \in of
    BY <1>4
  <2>2. n * score[j] \in Nat /\ n * score[i] \in Nat
    BY <2>1, <1>1, Multiples
  <2>3. ~(10 * (n * score[j]) >= 7 * total10) /\ 10 * (n * score[i]) >= 7 * total10
    BY <1>5, <1>7, <2>1
  <2>4. score[i] <= score[j] => n * score[i] <= n * score[j]
    BY <2>1, <1>1, Multiples
  <2> HIDE DEF n, total10
  <2> QED BY <2>1, <2>2, <2>3, <2>4, <1>2
<1>8. \A pair \in best : /\ pair \subseteq of /\ Cardinality(pair) = 2
                         /\ \A i \in pair, j \in of \ pair : score[i] > score[j] \/ (score[i] = score[j] /\ i < j)
  BY DEF kSubset
<1> HIDE DEF n, total10, high, best
<1>9. CASE n <= 2
  BY <1>3, <1>9 DEF n
<1>10. CASE n > 2 /\ Cardinality(high) >= 2
  <2>1. left = high
    BY <1>1, <1>3, <1>4, <1>10
  <2> QED BY <2>1, <1>4, <1>6, <1>7, <1>10 DEF n, total10
<1>11. CASE n > 2 /\ Cardinality(high) < 2
  <2>1. left \in best
    BY <1>1, <1>3, <1>11
  <2>2. left \subseteq of /\ Cardinality(left) = 2
    BY <2>1, <1>8
  <2>3. ASSUME NEW i \in left, NEW j \in of \ left PROVE score[i] >= score[j]
    <3>1. score[i] \in Nat /\ score[j] \in Nat
      BY <2>2
    <3> QED BY <2>1, <3>1, <1>8
  <2>4. ASSUME NEW i \in left, NEW j \in of \ left PROVE n * score[j] < total10
    <3> SUFFICES ASSUME j \in high PROVE FALSE
      BY <1>6
    <3>1. ASSUME NEW h \in left PROVE h \in high
      <4>1. score[h] \in Nat /\ score[j] \in Nat /\ score[j] <= score[h] /\ h \in of /\ j \in of
        BY <2>2, <2>3
      <4>2. n * score[j] <= n * score[h] /\ n * score[j] \in Nat /\ n * score[h] \in Nat
        BY <4>1, <1>1, Multiples
      <4>3. 10 * (n * score[j]) >= 7 * total10
        BY <4>1, <1>5
      <4>4. 10 * (n * score[h]) >= 7 * total10
        BY <4>2, <4>3, <1>2
      <4> QED BY <4>1, <4>4, <1>5
    <3>2. Cardinality(left) <= Cardinality(high)
      BY <3>1, <1>4, FS_Subset
    <3> QED BY <3>2, <2>2, <1>4, <1>11
  <2> QED BY <2>2, <2>3, <2>4 DEF n, total10
<1> QED BY <1>1, <1>4, <1>9, <1>10, <1>11

LEMMA TheBestAreKept == KeepsTheBest
<1> SUFFICES ASSUME NEW score \in [1..Width -> Scores \cup {Unscored}],
                    NEW left \in FilterPerspectives(1..Width, score),
                    NEW i \in left, NEW j \in (1..Width) \ left
             PROVE  score[i] >= score[j] /\ Width * score[j] < SumOf(1..Width, score)
  BY DEF KeepsTheBest
<1>1. Width \in Nat /\ Cardinality(1..Width) = Width
  BY ExecutionModesAssumption, FS_Interval
<1>2. \A k \in 1..Width : score[k] \in Nat
  BY ExecutionModesAssumption
<1> QED BY <1>1, <1>2, FilterKeeps

-----------------------------------------------------------------------------
(* The executions and their parts. *)

PartStates == {"asked", "done", "empty", "failed", "broke"}

\* Parts asked for one after the other: the last waits, those before came back.
Waits(s, K) == Len(s) >= 1 /\ s[Len(s)] = "asked" /\ \A i \in 1..(Len(s) - 1) : s[i] \in K

\* The ends that one more call of the lead makes.
LeadFails(e, kind) ==
  \/ ModeOf[e] \in {"loop", "council"} /\ kind = "no synthesis"
  \/ ModeOf[e] = "conditional" /\ kind = "broke"
  \/ ModeOf[e] = "council" /\ e \in Judged /\ kind = "unfit scores"

\* What holds of an execution that returned an answer or an error.
Survives(e, s, ans) ==
  /\ ans.kind \notin {"none", "answer"} =>
       \/ DoneOf(s) = {} \/ ModeOf[e] \in {"collaborative", "sequential"}
       \/ ModeOf[e] = "council" /\ e \in Leaderless
       \/ ModeOf[e] \in {"loop", "council"} /\ "broke" \in ToSet(s)
       \/ LeadFails(e, ans.kind)
  /\ ans.kind = "answer" =>
       /\ "asked" \notin ToSet(s) /\ \A i \in ans.of : s[i] \in {"done", "empty"}
       /\ ModeOf[e] = "council" => Cardinality(ans.of) >= IF Cardinality(DoneOf(s)) < 2 THEN 1 ELSE 2
  /\ "asked" \in ToSet(s) => ModeOf[e] = "council" /\ ans.kind = "error" /\ "broke" \in ToSet(s)

\* What the stage of an execution tells of its parts.
StageTells(e, where, s) ==
  /\ where \in {"new", "decompose"} => s = <<>>
  /\ where = "decompose" => ModeOf[e] = "loop"
  /\ where = "alone" => s = <<"asked">>
  /\ where = "subtask" => ModeOf[e] = "loop" /\ Waits(s, {"done", "failed"})
  /\ where = "pipeline" => ModeOf[e] \in {"collaborative", "sequential"} /\ Waits(s, {"done", "empty"})
  /\ where = "branch" => ModeOf[e] = "conditional" /\ Waits(s, {"done", "empty"})
  /\ where \in {"decide", "retry"} => ModeOf[e] = "conditional" /\ \A i \in 1..Len(s) : s[i] \in {"done", "empty"}
  /\ where = "gather" => ModeOf[e] \in {"council", "parallel"} /\ Len(s) = Width
  /\ where = "judge" => ModeOf[e] = "council" /\ e \in Judged
  /\ where \in {"judge", "synthesize"} => "asked" \notin ToSet(s)
  /\ where \in {"judge", "synthesize"} /\ ModeOf[e] = "council" => Len(s) = Width /\ Cardinality(DoneOf(s)) >= 2

ExTells(e, where, s, ans, left) ==
  /\ s \in Seq(PartStates)
  /\ StageTells(e, where, s)
  /\ where = "synthesize" /\ ModeOf[e] = "council" /\ e \in Judged =>
       left \subseteq DoneOf(s) /\ Cardinality(left) >= 2
  /\ IF where = "over" THEN Survives(e, s, ans) ELSE ans = NoAnswer

ExTypes ==
  /\ stage = [e \in Executions |-> stage[e]] /\ parts = [e \in Executions |-> parts[e]]
  /\ answer = [e \in Executions |-> answer[e]] /\ kept = [e \in Executions |-> kept[e]]
  /\ total = [e \in Executions |-> total[e]]

\* The inductive invariant of the executions.
ExHolds == ExTypes /\ \A e \in Executions : ExTells(e, stage[e], parts[e], answer[e], kept[e])

LEMMA ExStarts == ExInit => ExHolds
<1> SUFFICES ASSUME ExInit PROVE ExHolds
  OBVIOUS
<1>1. ExTypes
  BY DEF ExInit, ExTypes
<1>2. ASSUME NEW e \in Executions PROVE ExTells(e, stage[e], parts[e], answer[e], kept[e])
  <2>1. stage[e] = "new" /\ parts[e] = <<>> /\ answer[e] = NoAnswer
    BY DEF ExInit
  <2>2. <<>> \in Seq(PartStates)
    OBVIOUS
  <2> QED BY <2>1, <2>2 DEF ExTells, StageTells
<1> QED BY <1>1, <1>2 DEF ExHolds

\* One execution moves, the others stay.
Moves(e, where, s, ans) ==
  /\ stage' = [stage EXCEPT ![e] = where] /\ parts' = [parts EXCEPT ![e] = s]
  /\ answer' = [answer EXCEPT ![e] = ans]

LEMMA MovesKeep ==
  ASSUME ExHolds, NEW e \in Executions, NEW where, NEW s, NEW ans, Moves(e, where, s, ans),
         NEW left, kept' = [kept EXCEPT ![e] = left],
         total' = total \/ \E n : total' = [total EXCEPT ![e] = n], ExTells(e, where, s, ans, left)
  PROVE  ExHolds'
<1>0. ExTypes /\ \A x \in Executions : ExTells(x, stage[x], parts[x], answer[x], kept[x])
  BY DEF ExHolds
<1>1. ExTypes'
  BY <1>0 DEF ExTypes, Moves
<1>2. stage'[e] = where /\ parts'[e] = s /\ answer'[e] = ans /\ kept'[e] = left
  BY <1>0 DEF ExTypes, Moves
<1>3. \A x \in Executions \ {e} : stage'[x] = stage[x] /\ parts'[x] = parts[x] /\ answer'[x] = answer[x]
                                  /\ kept'[x] = kept[x]
  BY <1>0 DEF ExTypes, Moves
<1>4. ASSUME NEW x \in Executions PROVE ExTells(x, stage'[x], parts'[x], answer'[x], kept'[x])
  <2>1. CASE x = e
    BY <2>1, <1>2
  <2>2. CASE x # e
    BY <2>2, <1>0, <1>3
  <2> QED BY <2>1, <2>2
<1> QED BY <1>1, <1>4 DEF ExHolds

\* The three ways to move.
LEMMA WaysToMove ==
  ASSUME ExTypes, NEW e \in Executions, NEW where, NEW s
  PROVE  /\ WaitsFor(e, where, s) => Moves(e, where, Append(s, "asked"), answer[e])
         /\ WaitsAt(e, where, s) => Moves(e, where, s, answer[e])
         /\ \A what, of : Returns(e, what, of, s) => Moves(e, "over", s, [kind |-> what, of |-> of])
<1>1. UNCHANGED answer => answer' = [answer EXCEPT ![e] = answer[e]]
  BY DEF ExTypes
<1> QED BY <1>1 DEF WaitsFor, WaitsAt, Returns, Moves

\* No part of it was kept: it stays what it was.
LEMMA SameKept ==
  ASSUME ExHolds, NEW e \in Executions, NEW where, NEW s, NEW ans, Moves(e, where, s, ans), kept' = kept,
         total' = total \/ \E n : total' = [total EXCEPT ![e] = n], ExTells(e, where, s, ans, kept[e])
  PROVE  ExHolds'
<1>1. kept' = [kept EXCEPT ![e] = kept[e]]
  BY DEF ExHolds, ExTypes
<1> QED BY <1>1, MovesKeep

\* One more part is asked for.
LEMMA OneMoreWaits ==
  ASSUME NEW s \in Seq(PartStates), NEW K, \A i \in 1..Len(s) : s[i] \in K
  PROVE  Append(s, "asked") \in Seq(PartStates) /\ Waits(Append(s, "asked"), K)
<1>1. "asked" \in PartStates
  BY DEF PartStates
<1>2. /\ Append(s, "asked") \in Seq(PartStates) /\ Len(Append(s, "asked")) = Len(s) + 1
      /\ Append(s, "asked")[Len(s) + 1] = "asked" /\ \A i \in 1..Len(s) : Append(s, "asked")[i] = s[i]
      /\ Len(s) \in Nat
  BY <1>1, AppendProperties
<1> QED BY <1>2 DEF Waits

\* The last part is back.
LEMMA LastIsBack ==
  ASSUME NEW s \in Seq(PartStates), NEW K, Waits(s, K), NEW status \in PartStates
  PROVE  /\ Ending(s, status) \in Seq(PartStates) /\ Len(Ending(s, status)) = Len(s) /\ Len(s) \in Nat /\ Len(s) >= 1
         /\ Ending(s, status)[Len(s)] = status /\ \A i \in 1..(Len(s) - 1) : Ending(s, status)[i] \in K
         /\ \A i \in 1..Len(s) : i \in 1..(Len(s) - 1) \/ i = Len(s)
<1>1. Len(s) \in Nat /\ Len(s) >= 1 /\ Len(s) \in 1..Len(s)
  BY DEF Waits
<1>2. /\ Ending(s, status) \in Seq(PartStates) /\ Len(Ending(s, status)) = Len(s)
      /\ \A i \in 1..Len(s) : Ending(s, status)[i] = IF i = Len(s) THEN status ELSE s[i]
  BY <1>1, ExceptSeq DEF Ending
<1> QED BY <1>1, <1>2 DEF Waits

\* What an execution stands at, for its moves.
LEMMA ExIs ==
  ASSUME ExHolds, NEW e \in Executions
  PROVE  ExTypes /\ ExTells(e, stage[e], parts[e], answer[e], kept[e]) /\ parts[e] \in Seq(PartStates)
BY DEF ExHolds, ExTells

LEMMA EmptyParts == <<>> \in Seq(PartStates) /\ ToSet(<<>>) = {} /\ DoneOf(<<>>) = {}
BY DEF ToSet, DoneOf

\* The first part is asked for.
LEMMA FirstWaits ==
  ASSUME NEW K
  PROVE  /\ Append(<<>>, "asked") \in Seq(PartStates) /\ Waits(Append(<<>>, "asked"), K)
         /\ Append(<<>>, "asked") = <<"asked">>
<1>1. Append(<<>>, "asked") = <<"asked">>
  OBVIOUS
<1>2. <<"asked">> \in Seq(PartStates)
  BY DEF PartStates
<1>3. Waits(<<"asked">>, K)
  BY DEF Waits
<1> QED BY <1>1, <1>2, <1>3

\* An error of an execution that has no part done.
LEMMA NothingDone ==
  ASSUME NEW e, NEW s \in Seq(PartStates), NEW left, "asked" \notin ToSet(s), DoneOf(s) = {}
  PROVE  ExTells(e, "over", s, [kind |-> "error", of |-> {}], left)
BY DEF ExTells, StageTells, Survives

\* An end that one more call of the lead makes.
LEMMA OtherEnd ==
  ASSUME NEW e, NEW s \in Seq(PartStates), NEW left, NEW what, "asked" \notin ToSet(s), LeadFails(e, what),
         NEW of
  PROVE  ExTells(e, "over", s, [kind |-> what, of |-> of], left)
<1>1. what \notin {"answer", "error"}
  BY DEF LeadFails
<1> QED BY <1>1 DEF ExTells, StageTells, Survives

LEMMA ExecuteKept == ASSUME ExHolds, NEW e \in Executions, Execute(e) PROVE ExHolds'
<1>0. /\ ExTypes /\ ExTells(e, stage[e], parts[e], answer[e], kept[e])
      /\ answer[e] = NoAnswer /\ kept' = kept /\ total' = [total EXCEPT ![e] = Width]
  BY ExIs DEF Execute, ExTells
<1> DEFINE mode == IF ModeOf[e] = "council" /\ Width < 2 THEN "default" ELSE ModeOf[e]
<1>1. CASE Returns(e, "error", {}, <<>>)
  <2>1. Moves(e, "over", <<>>, [kind |-> "error", of |-> {}])
    BY <1>0, <1>1, WaysToMove
  <2>2. ExTells(e, "over", <<>>, [kind |-> "error", of |-> {}], kept[e])
    BY EmptyParts, NothingDone
  <2> QED BY <1>0, <2>1, <2>2, SameKept
<1>2. CASE WaitsFor(e, "alone", <<>>)
  <2>1. Moves(e, "alone", Append(<<>>, "asked"), NoAnswer)
    BY <1>0, <1>2, WaysToMove
  <2>2. Append(<<>>, "asked") = <<"asked">> /\ <<"asked">> \in Seq(PartStates)
    BY DEF PartStates
  <2>3. ExTells(e, "alone", <<"asked">>, NoAnswer, kept[e])
    BY <2>2 DEF ExTells, StageTells
  <2> QED BY <1>0, <2>1, <2>2, <2>3, SameKept
<1>3. CASE mode = "loop" /\ WaitsAt(e, "decompose", <<>>)
  <2>1. Moves(e, "decompose", <<>>, NoAnswer)
    BY <1>0, <1>3, WaysToMove
  <2>2. ExTells(e, "decompose", <<>>, NoAnswer, kept[e])
    BY <1>3, EmptyParts DEF ExTells, StageTells
  <2> QED BY <1>0, <2>1, <2>2, SameKept
<1>4. CASE mode = "conditional" /\ WaitsAt(e, "decide", <<>>)
  <2>1. Moves(e, "decide", <<>>, NoAnswer)
    BY <1>0, <1>4, WaysToMove
  <2>2. ExTells(e, "decide", <<>>, NoAnswer, kept[e])
    BY <1>4, EmptyParts DEF ExTells, StageTells
  <2> QED BY <1>0, <2>1, <2>2, SameKept
<1>5. CASE mode \in {"council", "parallel"} /\ WaitsAt(e, "gather", [i \in 1..Width |-> "asked"])
  <2>1. Moves(e, "gather", [i \in 1..Width |-> "asked"], NoAnswer)
    BY <1>0, <1>5, WaysToMove
  <2>2. /\ [i \in 1..Width |-> "asked"] \in Seq(PartStates)
        /\ Len([i \in 1..Width |-> "asked"]) = Width
    BY ExecutionModesAssumption DEF PartStates
  <2>3. ExTells(e, "gather", [i \in 1..Width |-> "asked"], NoAnswer, kept[e])
    BY <1>5, <2>2 DEF ExTells, StageTells
  <2> QED BY <1>0, <2>1, <2>3, SameKept
<1>6. CASE mode \in {"collaborative", "sequential"} /\ WaitsFor(e, "pipeline", <<>>)
  <2>1. Moves(e, "pipeline", Append(<<>>, "asked"), NoAnswer)
    BY <1>0, <1>6, WaysToMove
  <2>2. Append(<<>>, "asked") \in Seq(PartStates) /\ Waits(Append(<<>>, "asked"), {"done", "empty"})
    BY FirstWaits
  <2>3. ExTells(e, "pipeline", Append(<<>>, "asked"), NoAnswer, kept[e])
    BY <1>6, <2>2 DEF ExTells, StageTells
  <2> QED BY <1>0, <2>1, <2>3, SameKept
<1> QED BY <1>1, <1>2, <1>3, <1>4, <1>5, <1>6 DEF Execute

LEMMA AloneEndsKept ==
  ASSUME ExHolds, NEW e \in Executions, NEW status \in Statuses, AloneEnds(e, status) PROVE ExHolds'
<1> DEFINE now == Ending(parts[e], status)
<1>0. ExTypes /\ parts[e] = <<"asked">> /\ kept' = kept /\ total' = total
  BY ExIs DEF AloneEnds, ExTells, StageTells
<1>1. now = <<status>> /\ now \in Seq(PartStates) /\ status \in Statuses /\ Len(now) = 1
  BY <1>0 DEF Ending, PartStates, Statuses
<1>2. ToSet(now) = {status} /\ DoneOf(now) = {i \in {1} : status = "done"}
  BY <1>1 DEF ToSet, DoneOf
<1>3. "asked" \notin ToSet(now)
  BY <1>2 DEF Statuses
<1>4. CASE status \in {"done", "empty"}
  <2>1. Moves(e, "over", now, [kind |-> "answer", of |-> {1}])
    BY <1>0, <1>1, <1>4, WaysToMove DEF AloneEnds
  <2>2. Cardinality(DoneOf(now)) < 2 /\ Cardinality({1}) = 1
    <3>1. DoneOf(now) \subseteq {1} /\ IsFiniteSet({1}) /\ Cardinality({1}) = 1
      BY <1>2, FS_Singleton
    <3>2. Cardinality(DoneOf(now)) <= 1 /\ Cardinality(DoneOf(now)) \in Nat
      BY <3>1, FS_Subset, FS_CardinalityType
    <3> QED BY <3>1, <3>2
  <2>3. now[1] = status
    BY <1>1
  <2>4. ExTells(e, "over", now, [kind |-> "answer", of |-> {1}], kept[e])
    BY <1>1, <1>3, <1>4, <2>2, <2>3 DEF ExTells, StageTells, Survives
  <2> QED BY <1>0, <2>1, <2>4, SameKept
<1>5. CASE status \notin {"done", "empty"}
  <2>1. Moves(e, "over", now, [kind |-> "error", of |-> {}])
    BY <1>0, <1>1, <1>5, WaysToMove DEF AloneEnds
  <2>2. DoneOf(now) = {}
    BY <1>2, <1>5
  <2> QED BY <1>0, <1>1, <1>3, <2>1, <2>2, NothingDone, SameKept
<1> QED BY <1>4, <1>5

LEMMA DecomposedKept ==
  ASSUME ExHolds, NEW e \in Executions, NEW n, Decomposed(e, n) PROVE ExHolds'
<1>0. ExTypes /\ answer[e] = NoAnswer /\ ModeOf[e] = "loop" /\ kept' = kept /\ total' = [total EXCEPT ![e] = n]
  BY ExIs DEF Decomposed, ExTells, StageTells
<1>1. /\ Append(<<>>, "asked") \in Seq(PartStates) /\ Waits(Append(<<>>, "asked"), {"done", "failed"})
      /\ Append(<<>>, "asked") = <<"asked">>
  BY FirstWaits
<1>2. CASE n <= 1
  <2>1. Moves(e, "alone", Append(<<>>, "asked"), NoAnswer)
    BY <1>0, <1>2, WaysToMove DEF Decomposed
  <2>2. ExTells(e, "alone", Append(<<>>, "asked"), NoAnswer, kept[e])
    BY <1>1 DEF ExTells, StageTells
  <2> QED BY <1>0, <2>1, <2>2, SameKept
<1>3. CASE ~(n <= 1)
  <2>1. Moves(e, "subtask", Append(<<>>, "asked"), NoAnswer)
    BY <1>0, <1>3, WaysToMove DEF Decomposed
  <2>2. ExTells(e, "subtask", Append(<<>>, "asked"), NoAnswer, kept[e])
    BY <1>0, <1>1 DEF ExTells, StageTells
  <2> QED BY <1>0, <2>1, <2>2, SameKept
<1> QED BY <1>2, <1>3

LEMMA DecomposeFailsKept ==
  ASSUME ExHolds, NEW e \in Executions, DecomposeFails(e) PROVE ExHolds'
<1>0. ExTypes /\ kept' = kept /\ total' = total
  BY ExIs DEF DecomposeFails
<1>1. Moves(e, "over", <<>>, [kind |-> "error", of |-> {}])
  BY <1>0, WaysToMove DEF DecomposeFails
<1>2. ExTells(e, "over", <<>>, [kind |-> "error", of |-> {}], kept[e])
  BY EmptyParts, NothingDone
<1> QED BY <1>0, <1>1, <1>2, SameKept

LEMMA SubtaskEndsKept ==
  ASSUME ExHolds, NEW e \in Executions, NEW status \in {"done", "failed", "broke"}, SubtaskEnds(e, status)
  PROVE  ExHolds'
<1> DEFINE now == Ending(parts[e], status)
           K == {"done", "failed"}
<1>0. /\ ExTypes /\ parts[e] \in Seq(PartStates) /\ Waits(parts[e], K) /\ ModeOf[e] = "loop"
      /\ answer[e] = NoAnswer /\ kept' = kept /\ total' = total
  BY ExIs DEF SubtaskEnds, ExTells, StageTells
<1>1. status \in PartStates
  BY DEF PartStates
<1>2. /\ now \in Seq(PartStates) /\ Len(now) = Len(parts[e]) /\ Len(now) \in Nat /\ Len(now) >= 1
      /\ now[Len(now)] = status /\ \A i \in 1..Len(now) : i = Len(now) \/ now[i] \in K
  <2>1. /\ now \in Seq(PartStates) /\ Len(now) = Len(parts[e]) /\ Len(parts[e]) \in Nat /\ Len(parts[e]) >= 1
        /\ now[Len(parts[e])] = status /\ \A i \in 1..(Len(parts[e]) - 1) : now[i] \in K
        /\ \A i \in 1..Len(parts[e]) : i \in 1..(Len(parts[e]) - 1) \/ i = Len(parts[e])
    BY <1>0, <1>1, LastIsBack
  <2> HIDE DEF now
  <2> QED BY <2>1
<1>3. /\ status = "broke" => Returns(e, "error", {}, now)
      /\ status # "broke" => \/ WaitsFor(e, "subtask", now) \/ WaitsAt(e, "synthesize", now)
                             \/ (\A i \in DOMAIN now : now[i] = "failed") /\ Returns(e, "error", {}, now)
  BY DEF SubtaskEnds
<1> HIDE DEF now
<1>4. "asked" \notin ToSet(now) /\ DOMAIN now = 1..Len(now)
  BY <1>2 DEF ToSet
<1>5. CASE status = "broke"
  <2>1. Moves(e, "over", now, [kind |-> "error", of |-> {}])
    BY <1>0, <1>3, <1>5, WaysToMove
  <2>2. "broke" \in ToSet(now)
    <3>1. Len(now) \in DOMAIN now
      BY <1>2, <1>4
    <3> QED BY <1>2, <1>5, <3>1 DEF ToSet
  <2>3. ExTells(e, "over", now, [kind |-> "error", of |-> {}], kept[e])
    BY <1>0, <1>2, <1>4, <2>2 DEF ExTells, StageTells, Survives
  <2> QED BY <1>0, <2>1, <2>3, SameKept
<1>6. CASE WaitsFor(e, "subtask", now) /\ status # "broke"
  <2>1. Moves(e, "subtask", Append(now, "asked"), NoAnswer)
    BY <1>0, <1>6, WaysToMove
  <2>2. \A i \in 1..Len(now) : now[i] \in K
    BY <1>2, <1>6
  <2>3. Append(now, "asked") \in Seq(PartStates) /\ Waits(Append(now, "asked"), K)
    BY <1>2, <2>2, OneMoreWaits
  <2>4. ExTells(e, "subtask", Append(now, "asked"), NoAnswer, kept[e])
    BY <1>0, <2>3 DEF ExTells, StageTells
  <2> QED BY <1>0, <2>1, <2>4, SameKept
<1>7. CASE WaitsAt(e, "synthesize", now)
  <2>1. Moves(e, "synthesize", now, NoAnswer)
    BY <1>0, <1>7, WaysToMove
  <2>2. ExTells(e, "synthesize", now, NoAnswer, kept[e])
    BY <1>0, <1>2, <1>4 DEF ExTells, StageTells
  <2> QED BY <1>0, <2>1, <2>2, SameKept
<1>8. CASE (\A i \in DOMAIN now : now[i] = "failed") /\ Returns(e, "error", {}, now)
  <2>1. Moves(e, "over", now, [kind |-> "error", of |-> {}])
    BY <1>0, <1>8, WaysToMove
  <2>2. DoneOf(now) = {}
    BY <1>8 DEF DoneOf
  <2> QED BY <1>0, <1>2, <1>4, <2>1, <2>2, NothingDone, SameKept
<1> QED BY <1>3, <1>5, <1>6, <1>7, <1>8

LEMMA LoopSynthesizedKept ==
  ASSUME ExHolds, NEW e \in Executions, NEW well, LoopSynthesized(e, well) PROVE ExHolds'
<1>0. /\ ExTypes /\ parts[e] \in Seq(PartStates) /\ "asked" \notin ToSet(parts[e]) /\ ModeOf[e] = "loop"
      /\ kept' = kept /\ total' = total
  BY ExIs DEF LoopSynthesized, ExTells, StageTells
<1>1. CASE Returns(e, "answer", Good(e), parts[e])
  <2>1. Moves(e, "over", parts[e], [kind |-> "answer", of |-> Good(e)])
    BY <1>0, <1>1, WaysToMove
  <2>2. \A i \in Good(e) : parts[e][i] = "done"
    BY DEF Good
  <2>3. ExTells(e, "over", parts[e], [kind |-> "answer", of |-> Good(e)], kept[e])
    BY <1>0, <2>2 DEF ExTells, StageTells, Survives
  <2> QED BY <1>0, <2>1, <2>3, SameKept
<1>2. CASE Returns(e, "no synthesis", {}, parts[e])
  <2>1. Moves(e, "over", parts[e], [kind |-> "no synthesis", of |-> {}])
    BY <1>0, <1>2, WaysToMove
  <2> QED BY <1>0, <2>1, OtherEnd, SameKept DEF LeadFails
<1> QED BY <1>1, <1>2 DEF LoopSynthesized

\* The parts of a sequence are numbered, and finitely many.
LEMMA SomeOfParts ==
  ASSUME NEW s \in Seq(PartStates), NEW D \in SUBSET (DOMAIN s)
  PROVE  /\ DOMAIN s = 1..Len(s) /\ Len(s) \in Nat /\ IsFiniteSet(D) /\ Cardinality(D) \in Nat
         /\ D # {} => Cardinality(D) >= 1
<1>1. DOMAIN s = 1..Len(s) /\ Len(s) \in Nat
  OBVIOUS
<1>2. IsFiniteSet(1..Len(s)) /\ D \in SUBSET (1..Len(s))
  BY <1>1, FS_Interval
<1>3. IsFiniteSet(D)
  BY <1>2, FS_Subset
<1>4. Cardinality(D) \in Nat
  BY <1>3, FS_CardinalityType
<1>5. D # {} => Cardinality(D) # 0
  BY <1>3, FS_EmptySet
<1> QED BY <1>1, <1>3, <1>4, <1>5

\* All parts of a gathering are back.
LEMMA GatheredKept ==
  ASSUME ExHolds, NEW e \in Executions, NEW s \in Seq(PartStates), answer[e] = NoAnswer,
         "asked" \notin ToSet(s), Len(s) = Width, kept' = kept, total' = total,
         \/ ModeOf[e] = "council" /\ CouncilGathered(e, s)
         \/ ModeOf[e] = "parallel" /\ TeamsGathered(e, s)
  PROVE  ExHolds'
<1> DEFINE good == DoneOf(s)
           came == {i \in DOMAIN s : s[i] \in {"done", "empty"}}
<1>0. ExTypes
  BY ExIs
<1>1. good \subseteq DOMAIN s /\ \A i \in good : s[i] = "done"
  BY DEF DoneOf
<1>2. came \subseteq DOMAIN s /\ (\A i \in came : s[i] \in {"done", "empty"}) /\ good \subseteq came
  BY DEF DoneOf
<1>3. Cardinality(good) \in Nat /\ (good # {} => Cardinality(good) >= 1)
  BY <1>1, SomeOfParts
<1>4. /\ ModeOf[e] = "council" =>
           \/ good = {} /\ Returns(e, "error", {}, s)
           \/ good # {} /\ Cardinality(good) = 1 /\ Returns(e, "answer", good, s)
           \/ e \in Leaderless /\ Returns(e, "error", {}, s)
           \/ good # {} /\ Cardinality(good) # 1 /\ e \in Judged /\ WaitsAt(e, "judge", s)
           \/ good # {} /\ Cardinality(good) # 1 /\ e \notin Judged /\ WaitsAt(e, "synthesize", s)
      /\ ModeOf[e] = "parallel" =>
           \/ came = {} /\ Returns(e, "error", {}, s)
           \/ Returns(e, "answer", came, s)
  BY DEF CouncilGathered, TeamsGathered
<1> HIDE DEF good, came
<1>5. CASE (good = {} \/ came = {}) /\ Returns(e, "error", {}, s)
  <2>1. Moves(e, "over", s, [kind |-> "error", of |-> {}])
    BY <1>0, <1>5, WaysToMove
  <2>2. DoneOf(s) = {}
    BY <1>2, <1>5 DEF good
  <2> QED BY <2>1, <2>2, NothingDone, SameKept
<1>6. CASE ModeOf[e] = "council" /\ Cardinality(good) = 1 /\ Returns(e, "answer", good, s)
  <2>1. Moves(e, "over", s, [kind |-> "answer", of |-> good])
    BY <1>0, <1>6, WaysToMove
  <2>2. ExTells(e, "over", s, [kind |-> "answer", of |-> good], kept[e])
    BY <1>1, <1>6 DEF ExTells, StageTells, Survives, good
  <2> QED BY <2>1, <2>2, SameKept
<1>7. CASE ModeOf[e] = "council" /\ e \in Leaderless /\ Returns(e, "error", {}, s)
  <2>1. Moves(e, "over", s, [kind |-> "error", of |-> {}])
    BY <1>0, <1>7, WaysToMove
  <2>2. ExTells(e, "over", s, [kind |-> "error", of |-> {}], kept[e])
    BY <1>7 DEF ExTells, StageTells, Survives
  <2> QED BY <2>1, <2>2, SameKept
<1>8. CASE ModeOf[e] = "council" /\ good # {} /\ Cardinality(good) # 1 /\ e \in Judged /\ WaitsAt(e, "judge", s)
  <2>1. Moves(e, "judge", s, NoAnswer)
    BY <1>0, <1>8, WaysToMove
  <2>2. Cardinality(DoneOf(s)) >= 2
    BY <1>3, <1>8 DEF good
  <2>3. ExTells(e, "judge", s, NoAnswer, kept[e])
    BY <1>8, <2>2 DEF ExTells, StageTells
  <2> QED BY <2>1, <2>3, SameKept
<1>9. CASE ModeOf[e] = "council" /\ good # {} /\ Cardinality(good) # 1 /\ e \notin Judged /\ WaitsAt(e, "synthesize", s)
  <2>1. Moves(e, "synthesize", s, NoAnswer)
    BY <1>0, <1>9, WaysToMove
  <2>2. Cardinality(DoneOf(s)) >= 2
    BY <1>3, <1>9 DEF good
  <2>3. ExTells(e, "synthesize", s, NoAnswer, kept[e])
    BY <1>9, <2>2 DEF ExTells, StageTells
  <2> QED BY <2>1, <2>3, SameKept
<1>10. CASE ModeOf[e] = "parallel" /\ Returns(e, "answer", came, s)
  <2>1. Moves(e, "over", s, [kind |-> "answer", of |-> came])
    BY <1>0, <1>10, WaysToMove
  <2>2. ExTells(e, "over", s, [kind |-> "answer", of |-> came], kept[e])
    BY <1>2, <1>10 DEF ExTells, StageTells, Survives
  <2> QED BY <2>1, <2>2, SameKept
<1> QED BY <1>4, <1>5, <1>6, <1>7, <1>8, <1>9, <1>10

LEMMA GatherEndsKept ==
  ASSUME ExHolds, NEW e \in Executions, NEW i, NEW status \in Statuses, GatherEnds(e, i, status)
  PROVE  ExHolds'
<1> DEFINE s == parts[e]
           now == [parts[e] EXCEPT ![i] = status]
<1>0. /\ ExTypes /\ s \in Seq(PartStates) /\ ModeOf[e] \in {"council", "parallel"} /\ stage[e] \in {"gather", "over"}
      /\ stage[e] = "gather" => answer[e] = NoAnswer /\ Len(s) = Width
      /\ stage[e] = "over" => Survives(e, s, answer[e])
      /\ i \in DOMAIN s /\ s[i] = "asked" /\ kept' = kept /\ total' = total
  BY ExIs DEF GatherEnds, ExTells, StageTells, Asked
<1>1. status \in PartStates /\ status # "asked"
  BY DEF PartStates, Statuses
<1>2. i \in 1..Len(s) /\ Len(s) \in Nat
  BY <1>0
<1>3. /\ now \in Seq(PartStates) /\ Len(now) = Len(s) /\ DOMAIN now = 1..Len(s) /\ DOMAIN s = 1..Len(s)
      /\ \A j \in 1..Len(s) : now[j] = IF j = i THEN status ELSE s[j]
  <2>1. /\ now \in Seq(PartStates) /\ Len(now) = Len(s)
        /\ \A j \in 1..Len(s) : now[j] = IF j = i THEN status ELSE s[j]
    BY <1>0, <1>1, <1>2, ExceptSeq
  <2> QED BY <1>0, <2>1
<1>4. /\ stage[e] = "over" => WaitsAt(e, "over", now)
      /\ stage[e] = "gather" =>
           \/ status = "broke" /\ ModeOf[e] = "council" /\ Returns(e, "error", {}, now)
           \/ WaitsAt(e, "gather", now)
           \/ /\ Waited(now)
              /\ \/ ModeOf[e] = "council" /\ CouncilGathered(e, now)
                 \/ ModeOf[e] = "parallel" /\ TeamsGathered(e, now)
  BY <1>0 DEF GatherEnds
<1> HIDE DEF s, now
<1>5. "broke" \in ToSet(s) => "broke" \in ToSet(now)
  <2> SUFFICES ASSUME NEW j \in 1..Len(s), s[j] = "broke" PROVE "broke" \in ToSet(now)
    BY <1>3 DEF ToSet
  <2>1. j # i /\ now[j] = "broke" /\ j \in DOMAIN now
    BY <1>0, <1>3
  <2> QED BY <2>1 DEF ToSet
<1>6. CASE stage[e] = "over"
  <2>1. Moves(e, "over", now, answer[e])
    BY <1>0, <1>4, <1>6, WaysToMove
  <2>2. "asked" \in ToSet(s)
    BY <1>0 DEF ToSet
  <2>3. ModeOf[e] = "council" /\ answer[e].kind = "error" /\ "broke" \in ToSet(s)
    BY <1>0, <1>6, <2>2 DEF Survives
  <2>4. ExTells(e, "over", now, answer[e], kept[e])
    BY <1>3, <1>5, <2>3 DEF ExTells, StageTells, Survives
  <2> QED BY <1>0, <2>1, <2>4, SameKept
<1>7. CASE stage[e] = "gather" /\ status = "broke" /\ ModeOf[e] = "council" /\ Returns(e, "error", {}, now)
  <2>1. Moves(e, "over", now, [kind |-> "error", of |-> {}])
    BY <1>0, <1>7, WaysToMove
  <2>2. "broke" \in ToSet(now)
    <3>1. now[i] = "broke" /\ i \in DOMAIN now
      BY <1>2, <1>3, <1>7
    <3> QED BY <3>1 DEF ToSet
  <2>3. ExTells(e, "over", now, [kind |-> "error", of |-> {}], kept[e])
    BY <1>3, <1>7, <2>2 DEF ExTells, StageTells, Survives
  <2> QED BY <1>0, <2>1, <2>3, SameKept
<1>8. CASE stage[e] = "gather" /\ WaitsAt(e, "gather", now)
  <2>1. Moves(e, "gather", now, NoAnswer)
    BY <1>0, <1>8, WaysToMove
  <2>2. ExTells(e, "gather", now, NoAnswer, kept[e])
    BY <1>0, <1>3, <1>8 DEF ExTells, StageTells
  <2> QED BY <1>0, <2>1, <2>2, SameKept
<1>9. CASE /\ stage[e] = "gather" /\ Waited(now)
           /\ \/ ModeOf[e] = "council" /\ CouncilGathered(e, now)
              \/ ModeOf[e] = "parallel" /\ TeamsGathered(e, now)
  BY <1>0, <1>3, <1>9, GatheredKept DEF Waited
<1> QED BY <1>0, <1>4, <1>6, <1>7, <1>8, <1>9

LEMMA JudgeKept ==
  ASSUME ExHolds, NEW e \in Executions, NEW scored \in SUBSET (1..Width), NEW score \in [scored -> Scores],
         Judge(e, scored, score)
  PROVE  ExHolds'
<1> DEFINE s == parts[e]
           given1 == [i \in Good(e) |-> IF i \in scored THEN score[i] ELSE Unscored]
<1>0. /\ ExTypes /\ s \in Seq(PartStates) /\ ModeOf[e] = "council" /\ "asked" \notin ToSet(s)
      /\ Len(s) = Width /\ Cardinality(DoneOf(s)) >= 2 /\ answer[e] = NoAnswer /\ total' = total
      /\ WaitsAt(e, "synthesize", s)
  BY ExIs DEF Judge, ExTells, StageTells
<1>1. Good(e) = DoneOf(s)
  BY DEF Good, DoneOf
<1>2. PICK of \in IF scored = {} THEN {Good(e)} ELSE FilterPerspectives(Good(e), given1) :
        kept' = [kept EXCEPT ![e] = of]
  BY DEF Judge
<1>3. Good(e) \in SUBSET (1..Width)
  BY <1>0, <1>1 DEF DoneOf
<1>4. \A i \in Good(e) : given1[i] \in Nat
  BY ExecutionModesAssumption
<1> HIDE DEF given1, s
<1>5. of \subseteq DoneOf(s) /\ Cardinality(of) >= 2
  <2>1. CASE scored = {}
    BY <1>0, <1>1, <1>2, <2>1
  <2>2. CASE scored # {}
    BY <1>0, <1>1, <1>2, <1>3, <1>4, <2>2, FilterKeeps
  <2> QED BY <2>1, <2>2
<1>6. Moves(e, "synthesize", s, NoAnswer)
  BY <1>0, WaysToMove
<1>7. ExTells(e, "synthesize", s, NoAnswer, of)
  BY <1>0, <1>5 DEF ExTells, StageTells
<1> QED BY <1>0, <1>2, <1>6, <1>7, MovesKeep

LEMMA JudgeBreaksKept == ASSUME ExHolds, NEW e \in Executions, JudgeBreaks(e) PROVE ExHolds'
<1>0. /\ ExTypes /\ parts[e] \in Seq(PartStates) /\ ModeOf[e] = "council" /\ e \in Judged
      /\ "asked" \notin ToSet(parts[e]) /\ kept' = kept /\ total' = total
  BY ExIs DEF JudgeBreaks, ExTells, StageTells
<1>1. Moves(e, "over", parts[e], [kind |-> "unfit scores", of |-> {}])
  BY <1>0, WaysToMove DEF JudgeBreaks
<1>2. LeadFails(e, "unfit scores")
  BY <1>0 DEF LeadFails
<1> QED BY <1>0, <1>1, <1>2, OtherEnd, SameKept

LEMMA CouncilSynthesizedKept ==
  ASSUME ExHolds, NEW e \in Executions, NEW well, CouncilSynthesized(e, well) PROVE ExHolds'
<1> DEFINE s == parts[e]
           of == IF e \in Judged THEN kept[e] ELSE Good(e)
<1>0. /\ ExTypes /\ s \in Seq(PartStates) /\ ModeOf[e] = "council" /\ "asked" \notin ToSet(s)
      /\ Cardinality(DoneOf(s)) >= 2 /\ kept' = kept /\ total' = total
      /\ e \in Judged => kept[e] \subseteq DoneOf(s) /\ Cardinality(kept[e]) >= 2
  BY ExIs DEF CouncilSynthesized, ExTells, StageTells
<1>1. of \subseteq DoneOf(s) /\ Cardinality(of) >= 2
  BY <1>0 DEF Good, DoneOf
<1>2. (\A i \in of : s[i] = "done") /\ Cardinality(of) \in Nat /\ Cardinality(DoneOf(s)) \in Nat
  <2>1. DoneOf(s) \subseteq DOMAIN s /\ of \subseteq DOMAIN s
    BY <1>1 DEF DoneOf
  <2> QED BY <1>0, <1>1, <2>1, SomeOfParts DEF DoneOf
<1>3. Returns(e, "answer", of, s) \/ Returns(e, "no synthesis", {}, s)
  BY DEF CouncilSynthesized
<1> HIDE DEF s, of
<1>4. CASE Returns(e, "answer", of, s)
  <2>1. Moves(e, "over", s, [kind |-> "answer", of |-> of])
    BY <1>0, <1>4, WaysToMove
  <2>2. ExTells(e, "over", s, [kind |-> "answer", of |-> of], kept[e])
    BY <1>0, <1>1, <1>2 DEF ExTells, StageTells, Survives
  <2> QED BY <1>0, <2>1, <2>2, SameKept
<1>5. CASE Returns(e, "no synthesis", {}, s)
  <2>1. Moves(e, "over", s, [kind |-> "no synthesis", of |-> {}])
    BY <1>0, <1>5, WaysToMove
  <2> QED BY <1>0, <2>1, OtherEnd, SameKept DEF LeadFails
<1> QED BY <1>3, <1>4, <1>5

LEMMA StageEndsKept ==
  ASSUME ExHolds, NEW e \in Executions, NEW status \in Statuses, StageEnds(e, status) PROVE ExHolds'
<1> DEFINE now == Ending(parts[e], status)
           K == {"done", "empty"}
<1>0. /\ ExTypes /\ parts[e] \in Seq(PartStates) /\ Waits(parts[e], K)
      /\ ModeOf[e] \in {"collaborative", "sequential"}
      /\ answer[e] = NoAnswer /\ kept' = kept /\ total' = total
  BY ExIs DEF StageEnds, ExTells, StageTells
<1>1. status \in PartStates /\ status # "asked"
  BY DEF PartStates, Statuses
<1>2. /\ now \in Seq(PartStates) /\ Len(now) \in Nat /\ Len(now) >= 1
      /\ now[Len(now)] = status /\ \A i \in 1..(Len(now) - 1) : now[i] \in K
      /\ \A i \in 1..Len(now) : i = Len(now) \/ now[i] \in K
  <2>1. /\ now \in Seq(PartStates) /\ Len(now) = Len(parts[e]) /\ Len(parts[e]) \in Nat /\ Len(parts[e]) >= 1
        /\ now[Len(parts[e])] = status /\ \A i \in 1..(Len(parts[e]) - 1) : now[i] \in K
        /\ \A i \in 1..Len(parts[e]) : i \in 1..(Len(parts[e]) - 1) \/ i = Len(parts[e])
    BY <1>0, <1>1, LastIsBack
  <2> HIDE DEF now
  <2> QED BY <2>1
<1>3. /\ status \in {"failed", "broke"} => Returns(e, "error", {}, now)
      /\ status \in K => WaitsFor(e, "pipeline", now) \/ Returns(e, "error", {}, now)
                         \/ Returns(e, "answer", {Len(now)}, now)
  BY DEF StageEnds
<1> HIDE DEF now
<1>4. "asked" \notin ToSet(now) /\ DOMAIN now = 1..Len(now)
  BY <1>1, <1>2 DEF ToSet
<1>5. CASE Returns(e, "error", {}, now)
  <2>1. Moves(e, "over", now, [kind |-> "error", of |-> {}])
    BY <1>0, <1>5, WaysToMove
  <2>2. ExTells(e, "over", now, [kind |-> "error", of |-> {}], kept[e])
    BY <1>0, <1>2, <1>4 DEF ExTells, StageTells, Survives
  <2> QED BY <1>0, <2>1, <2>2, SameKept
<1>6. CASE status \in K /\ WaitsFor(e, "pipeline", now)
  <2>1. Moves(e, "pipeline", Append(now, "asked"), NoAnswer)
    BY <1>0, <1>6, WaysToMove
  <2>2. \A i \in 1..Len(now) : now[i] \in K
    BY <1>2, <1>6
  <2>3. Append(now, "asked") \in Seq(PartStates) /\ Waits(Append(now, "asked"), K)
    BY <1>2, <2>2, OneMoreWaits
  <2>4. ExTells(e, "pipeline", Append(now, "asked"), NoAnswer, kept[e])
    BY <1>0, <2>3 DEF ExTells, StageTells
  <2> QED BY <1>0, <2>1, <2>4, SameKept
<1>7. CASE status \in K /\ Returns(e, "answer", {Len(now)}, now)
  <2>1. Moves(e, "over", now, [kind |-> "answer", of |-> {Len(now)}])
    BY <1>0, <1>7, WaysToMove
  <2>2. ExTells(e, "over", now, [kind |-> "answer", of |-> {Len(now)}], kept[e])
    BY <1>0, <1>2, <1>4, <1>7 DEF ExTells, StageTells, Survives
  <2> QED BY <1>0, <2>1, <2>2, SameKept
<1>8. status \in {"failed", "broke"} \/ status \in K
  BY DEF Statuses
<1> QED BY <1>3, <1>5, <1>6, <1>7, <1>8

\* The steps end early: the last of the branches that came back is the answer.
LEMMA LastOrKept ==
  ASSUME ExHolds, NEW e \in Executions, ModeOf[e] = "conditional", NEW s \in Seq(PartStates), NEW m \in Nat,
         \A i \in 1..m : s[i] \in {"done", "empty"}, "asked" \notin ToSet(s),
         Len(s) = m \/ (Len(s) = m + 1 /\ s[m + 1] \in {"failed", "broke"}),
         NEW what \in {"answer", "error"}, LastOr(e, what, s), kept' = kept, total' = total
  PROVE  ExHolds'
<1> DEFINE came == {i \in DOMAIN s : s[i] \in {"done", "empty"}}
           n == Cardinality(came)
<1>0. ExTypes /\ DOMAIN s = 1..Len(s)
  BY ExIs
<1>1. came = 1..m
  <2>1. \A i \in 1..Len(s) : i \in 1..m \/ s[i] \in {"failed", "broke"}
    OBVIOUS
  <2>2. \A i \in 1..m : i \in 1..Len(s)
    OBVIOUS
  <2> QED BY <1>0, <2>1, <2>2
<1>2. n = m
  <2>1. Cardinality(1..m) = m
    BY FS_Interval
  <2> QED BY <1>1, <2>1
<1>3. IF n > 0 THEN Returns(e, "answer", {n}, s) ELSE Returns(e, what, {}, s)
  BY DEF LastOr
<1>4. DoneOf(s) \subseteq came
  BY DEF DoneOf
<1> HIDE DEF n, came
<1>5. CASE m > 0
  <2>1. Moves(e, "over", s, [kind |-> "answer", of |-> {m}])
    BY <1>0, <1>2, <1>3, <1>5, WaysToMove
  <2>2. ExTells(e, "over", s, [kind |-> "answer", of |-> {m}], kept[e])
    BY <1>5 DEF ExTells, StageTells, Survives
  <2> QED BY <2>1, <2>2, SameKept
<1>6. CASE m = 0
  <2>0. Returns(e, what, {}, s)
    BY <1>2, <1>3, <1>6
  <2>1. Moves(e, "over", s, [kind |-> what, of |-> {}])
    BY <1>0, <2>0, WaysToMove
  <2>2. DoneOf(s) = {}
    BY <1>1, <1>4, <1>6
  <2>3. ExTells(e, "over", s, [kind |-> what, of |-> {}], kept[e])
    BY <2>2 DEF ExTells, StageTells, Survives
  <2> QED BY <2>1, <2>3, SameKept
<1> QED BY <1>5, <1>6

LEMMA DecidesKept ==
  ASSUME ExHolds, NEW e \in Executions, NEW what, Decides(e, what) PROVE ExHolds'
<1> DEFINE s == parts[e]
<1>0. /\ ExTypes /\ s \in Seq(PartStates) /\ ModeOf[e] = "conditional"
      /\ \A i \in 1..Len(s) : s[i] \in {"done", "empty"}
      /\ answer[e] = NoAnswer /\ kept' = kept /\ total' = total
  BY ExIs DEF Decides, ExTells, StageTells
<1>1. "asked" \notin ToSet(s) /\ Len(s) \in Nat
  BY <1>0 DEF ToSet
<1>2. \/ WaitsFor(e, "branch", s) \/ LastOr(e, "answer", s) \/ LastOr(e, "error", s)
      \/ WaitsAt(e, "retry", s) \/ Returns(e, "answer", {}, s) \/ Returns(e, "broke", {}, s)
  BY DEF Decides
<1> HIDE DEF s
<1>3. CASE WaitsFor(e, "branch", s)
  <2>1. Moves(e, "branch", Append(s, "asked"), NoAnswer)
    BY <1>0, <1>3, WaysToMove
  <2>2. Append(s, "asked") \in Seq(PartStates) /\ Waits(Append(s, "asked"), {"done", "empty"})
    BY <1>0, OneMoreWaits
  <2>3. ExTells(e, "branch", Append(s, "asked"), NoAnswer, kept[e])
    BY <1>0, <2>2 DEF ExTells, StageTells
  <2> QED BY <1>0, <2>1, <2>3, SameKept
<1>4. CASE LastOr(e, "answer", s) \/ LastOr(e, "error", s)
  BY <1>0, <1>1, <1>4, LastOrKept
<1>5. CASE WaitsAt(e, "retry", s)
  <2>1. Moves(e, "retry", s, NoAnswer)
    BY <1>0, <1>5, WaysToMove
  <2>2. ExTells(e, "retry", s, NoAnswer, kept[e])
    BY <1>0 DEF ExTells, StageTells
  <2> QED BY <1>0, <2>1, <2>2, SameKept
<1>6. CASE Returns(e, "answer", {}, s)
  <2>1. Moves(e, "over", s, [kind |-> "answer", of |-> {}])
    BY <1>0, <1>6, WaysToMove
  <2>2. ExTells(e, "over", s, [kind |-> "answer", of |-> {}], kept[e])
    BY <1>0, <1>1 DEF ExTells, StageTells, Survives
  <2> QED BY <1>0, <2>1, <2>2, SameKept
<1>7. CASE Returns(e, "broke", {}, s)
  <2>1. Moves(e, "over", s, [kind |-> "broke", of |-> {}])
    BY <1>0, <1>7, WaysToMove
  <2>2. LeadFails(e, "broke")
    BY <1>0 DEF LeadFails
  <2> QED BY <1>0, <1>1, <2>1, <2>2, OtherEnd, SameKept
<1> QED BY <1>2, <1>3, <1>4, <1>5, <1>6, <1>7

LEMMA BranchEndsKept ==
  ASSUME ExHolds, NEW e \in Executions, NEW status \in Statuses, BranchEnds(e, status) PROVE ExHolds'
<1> DEFINE now == Ending(parts[e], status)
           K == {"done", "empty"}
<1>0. /\ ExTypes /\ parts[e] \in Seq(PartStates) /\ Waits(parts[e], K) /\ ModeOf[e] = "conditional"
      /\ answer[e] = NoAnswer /\ kept' = kept /\ total' = total
  BY ExIs DEF BranchEnds, ExTells, StageTells
<1>1. status \in PartStates /\ status # "asked" /\ (status \in K \/ status \in {"failed", "broke"})
  BY DEF PartStates, Statuses
<1>2. /\ now \in Seq(PartStates) /\ Len(now) \in Nat /\ Len(now) >= 1
      /\ now[Len(now)] = status /\ \A i \in 1..(Len(now) - 1) : now[i] \in K
      /\ \A i \in 1..Len(now) : i = Len(now) \/ now[i] \in K
  <2>1. /\ now \in Seq(PartStates) /\ Len(now) = Len(parts[e]) /\ Len(parts[e]) \in Nat /\ Len(parts[e]) >= 1
        /\ now[Len(parts[e])] = status /\ \A i \in 1..(Len(parts[e]) - 1) : now[i] \in K
        /\ \A i \in 1..Len(parts[e]) : i \in 1..(Len(parts[e]) - 1) \/ i = Len(parts[e])
    BY <1>0, <1>1, LastIsBack
  <2> HIDE DEF now
  <2> QED BY <2>1
<1>3. LastOr(e, "error", now) \/ (status \in K /\ WaitsAt(e, "decide", now))
  BY <1>1 DEF BranchEnds
<1> HIDE DEF now
<1>4. "asked" \notin ToSet(now)
  BY <1>1, <1>2 DEF ToSet
<1>5. CASE LastOr(e, "error", now)
  <2>1. CASE status \in K
    <3>1. \A i \in 1..Len(now) : now[i] \in K
      BY <1>2, <2>1
    <3> QED BY <1>0, <1>2, <1>4, <1>5, <3>1, LastOrKept
  <2>2. CASE status \in {"failed", "broke"}
    <3>1. Len(now) - 1 \in Nat /\ Len(now) = (Len(now) - 1) + 1 /\ now[(Len(now) - 1) + 1] \in {"failed", "broke"}
      BY <1>2, <2>2
    <3> QED BY <1>0, <1>2, <1>4, <1>5, <3>1, LastOrKept
  <2> QED BY <1>1, <2>1, <2>2
<1>6. CASE status \in K /\ WaitsAt(e, "decide", now)
  <2>1. Moves(e, "decide", now, NoAnswer)
    BY <1>0, <1>6, WaysToMove
  <2>2. \A i \in 1..Len(now) : now[i] \in K
    BY <1>2, <1>6
  <2>3. ExTells(e, "decide", now, NoAnswer, kept[e])
    BY <1>0, <1>2, <2>2 DEF ExTells, StageTells
  <2> QED BY <1>0, <2>1, <2>3, SameKept
<1> QED BY <1>3, <1>5, <1>6

LEMMA ExKept == ExHolds /\ [\E e \in Executions : ExStep(e)]_exVars => ExHolds'
<1> SUFFICES ASSUME ExHolds, [\E e \in Executions : ExStep(e)]_exVars PROVE ExHolds'
  OBVIOUS
<1>1. CASE UNCHANGED exVars
  BY <1>1 DEF exVars, ExHolds, ExTypes
<1>2. ASSUME NEW e \in Executions, Execute(e) \/ DecomposeFails(e) \/ JudgeBreaks(e) PROVE ExHolds'
  BY <1>2, ExecuteKept, DecomposeFailsKept, JudgeBreaksKept
<1>3. ASSUME NEW e \in Executions, NEW n \in 0..MaxSubtasks, Decomposed(e, n) PROVE ExHolds'
  BY <1>3, DecomposedKept
<1>4. ASSUME NEW e \in Executions, NEW well \in BOOLEAN, LoopSynthesized(e, well) \/ CouncilSynthesized(e, well)
      PROVE ExHolds'
  BY <1>4, LoopSynthesizedKept, CouncilSynthesizedKept
<1>5. ASSUME NEW e \in Executions, NEW status \in Statuses,
             AloneEnds(e, status) \/ StageEnds(e, status) \/ BranchEnds(e, status)
      PROVE ExHolds'
  BY <1>5, AloneEndsKept, StageEndsKept, BranchEndsKept
<1>6. ASSUME NEW e \in Executions, NEW status \in Statuses,
             SubtaskEnds(e, IF status = "empty" THEN "done" ELSE status)
      PROVE ExHolds'
  <2>1. (IF status = "empty" THEN "done" ELSE status) \in {"done", "failed", "broke"}
    BY DEF Statuses
  <2> QED BY <1>6, <2>1, SubtaskEndsKept
<1>7. ASSUME NEW e \in Executions, NEW status \in Statuses, NEW i \in 1..Width, GatherEnds(e, i, status)
      PROVE ExHolds'
  BY <1>7, GatherEndsKept
<1>8. ASSUME NEW e \in Executions, NEW scored \in SUBSET (1..Width), NEW score \in [scored -> Scores],
             Judge(e, scored, score)
      PROVE ExHolds'
  BY <1>8, JudgeKept
<1>9. ASSUME NEW e \in Executions,
             NEW what \in {"route", "done", "summary", "no team", "no json", "failed", "broke"}, Decides(e, what)
      PROVE ExHolds'
  BY <1>9, DecidesKept
<1> QED BY <1>1, <1>2, <1>3, <1>4, <1>5, <1>6, <1>7, <1>8, <1>9 DEF ExStep

LEMMA WorkIsThere == ExHolds => DoneWorkSurvives
<1> SUFFICES ASSUME ExHolds, NEW e \in Executions
             PROVE  /\ answer[e].kind \notin {"none", "answer"} =>
                         \/ Good(e) = {} \/ ModeOf[e] \in {"collaborative", "sequential"}
                         \/ ModeOf[e] = "council" /\ e \in Leaderless
                         \/ ModeOf[e] \in {"loop", "council"} /\ "broke" \in ToSet(parts[e])
                         \/ LeadFails(e, answer[e].kind)
                    /\ answer[e].kind = "answer" =>
                         /\ Asked(e) = {} /\ \A i \in answer[e].of : parts[e][i] \in {"done", "empty"}
                         /\ ModeOf[e] = "council" =>
                              Cardinality(answer[e].of) >= IF Cardinality(Good(e)) < 2 THEN 1 ELSE 2
  BY TheBestAreKept DEF DoneWorkSurvives, LeadFails
<1>1. Good(e) = DoneOf(parts[e]) /\ (Asked(e) = {} <=> "asked" \notin ToSet(parts[e]))
  BY DEF Good, DoneOf, Asked, ToSet
<1>2. Survives(e, parts[e], answer[e]) \/ answer[e] = NoAnswer
  BY ExIs DEF ExTells
<1>3. CASE answer[e] = NoAnswer
  BY <1>3 DEF NoAnswer
<1>4. CASE Survives(e, parts[e], answer[e])
  BY <1>1, <1>4 DEF Survives
<1> QED BY <1>2, <1>3, <1>4

\* In whatever mode, with however many parts and whichever of them fail: what was done
\* is not lost with what failed, and a judge keeps the best.
THEOREM DoneWorkIsKept == ExSpec => []DoneWorkSurvives
BY ExStarts, ExKept, WorkIsThere, PTL DEF ExSpec

-----------------------------------------------------------------------------
(* The progress file of the loops. *)

Entries == Executions \X PartStates

\* What is written of a loop, and which of its parts are over.
Written(e, log) == Only(log, {e} \X Statuses)
Pairs(e, s) == [i \in DOMAIN s |-> <<e, s[i]>>]
EndedOf(e, s) == Only(Pairs(e, s), {e} \X {"done", "failed"})

TailOf(u, t) == \E n \in 0..Len(t) : u = SubSeq(t, n + 1, Len(t))

OtherIsDone(e) == \E x \in Executions \ {e} : ModeOf[x] = "loop" /\ answer[x].kind = "answer"

\* A loop has none of its entries, or those of its parts up to the last that is over.
EntriesTell(e) ==
  IF answer[e].kind = "answer" THEN Written(e, progress) = <<>>
  ELSE /\ TailOf(Written(e, progress), EndedOf(e, parts[e]))
       /\ Written(e, progress) = EndedOf(e, parts[e]) \/ OtherIsDone(e)

LoopTells(e) ==
  /\ stage[e] \in {"new", "decompose", "alone"} => Written(e, progress) = <<>>
  /\ stage[e] \in {"new", "alone"} => ~(total[e] > 1)
  /\ total[e] > 1 => EntriesTell(e)

\* The inductive invariant of the progress file.
LogHolds ==
  /\ progress \in Seq(Entries)
  /\ \A e \in Executions : ModeOf[e] = "loop" => LoopTells(e)

\* One more entry is a loop's own, or another's.
LEMMA WrittenGrows ==
  ASSUME NEW log \in Seq(Entries), NEW e \in Executions, NEW y \in Executions, NEW status \in {"done", "failed"}
  PROVE  /\ Append(log, <<y, status>>) \in Seq(Entries) /\ Written(e, log) \in Seq(Entries)
         /\ Written(e, Append(log, <<y, status>>)) =
              IF y = e THEN Append(Written(e, log), <<y, status>>) ELSE Written(e, log)
<1> DEFINE x == <<y, status>>
           K == {e} \X Statuses
<1>1. x \in Entries /\ (x \in K <=> y = e)
  BY DEF Entries, PartStates, Statuses
<1> HIDE DEF x, K
<1>2. /\ Only(log, K) \in Seq(Entries)
      /\ Only(Append(log, x), K) = IF x \in K THEN Append(Only(log, K), x) ELSE Only(log, K)
  BY <1>1, OnlyGrows
<1>3. Append(log, x) \in Seq(Entries)
  BY <1>1
<1> QED BY <1>1, <1>2, <1>3 DEF Written, x, K

LEMMA EmptyLog == \A e : Written(e, <<>>) = <<>> /\ EndedOf(e, <<>>) = <<>>
<1>1. \A e : Pairs(e, <<>>) = <<>>
  BY DEF Pairs
<1> QED BY <1>1, OnlyOfNothing DEF Written, EndedOf

\* One part more is over, or not.
LEMMA EndedGrows ==
  ASSUME NEW e \in Executions, NEW s \in Seq(PartStates), NEW w \in PartStates
  PROVE  /\ EndedOf(e, s) \in Seq(Entries)
         /\ EndedOf(e, Append(s, w)) = IF w \in {"done", "failed"} THEN Append(EndedOf(e, s), <<e, w>>)
                                                                   ELSE EndedOf(e, s)
<1> DEFINE x == <<e, w>>
           K == {e} \X {"done", "failed"}
<1>1. x \in Entries /\ (x \in K <=> w \in {"done", "failed"})
  BY DEF Entries
<1>2. Pairs(e, s) \in Seq(Entries) /\ Len(Pairs(e, s)) = Len(s)
  <2>1. \A i \in 1..Len(s) : <<e, s[i]>> \in Entries
    BY DEF Entries
  <2> QED BY <2>1 DEF Pairs
<1>3. Append(Pairs(e, s), x) = Pairs(e, Append(s, w))
  <2> DEFINE more == Append(s, w)
  <2>1. /\ more \in Seq(PartStates) /\ Len(more) = Len(s) + 1 /\ more[Len(s) + 1] = w
        /\ \A i \in 1..Len(s) : more[i] = s[i] /\ Len(s) \in Nat
    BY AppendProperties
  <2> HIDE DEF more
  <2>2. Pairs(e, more) \in Seq(Entries) /\ Len(Pairs(e, more)) = Len(s) + 1
    <3>1. \A i \in 1..Len(more) : <<e, more[i]>> \in Entries
      BY <2>1 DEF Entries
    <3> QED BY <3>1, <2>1 DEF Pairs
  <2>3. \A i \in 1..(Len(s) + 1) : Pairs(e, more)[i] = <<e, more[i]>>
    BY <2>1 DEF Pairs
  <2>4. \A i \in 1..Len(s) : Pairs(e, s)[i] = <<e, s[i]>>
    BY DEF Pairs
  <2>5. /\ Append(Pairs(e, s), x) \in Seq(Entries) /\ Len(Append(Pairs(e, s), x)) = Len(s) + 1
        /\ Append(Pairs(e, s), x)[Len(s) + 1] = x
        /\ \A i \in 1..Len(s) : Append(Pairs(e, s), x)[i] = Pairs(e, s)[i]
    BY <1>1, <1>2, AppendProperties
  <2>6. \A i \in 1..(Len(s) + 1) : i \in 1..Len(s) \/ i = Len(s) + 1
    OBVIOUS
  <2>7. \A i \in 1..(Len(s) + 1) : Append(Pairs(e, s), x)[i] = Pairs(e, more)[i]
    BY <2>1, <2>3, <2>4, <2>5, <2>6
  <2> QED BY <2>2, <2>5, <2>7, SeqEqual DEF more
<1> DEFINE p == Pairs(e, s)
<1> HIDE DEF x, K, p
<1>4. /\ Only(p, K) \in Seq(Entries)
      /\ Only(Append(p, x), K) = IF x \in K THEN Append(Only(p, K), x) ELSE Only(p, K)
  <2>1. p \in Seq(Entries) /\ x \in Entries
    BY <1>1, <1>2 DEF p
  <2>2. \A q \in Seq(Entries), y \in Entries :
          /\ Only(q, K) \in Seq(Entries)
          /\ Only(Append(q, y), K) = IF y \in K THEN Append(Only(q, K), y) ELSE Only(q, K)
    BY OnlyGrows
  <2> QED BY <2>1, <2>2
<1> QED BY <1>1, <1>3, <1>4 DEF EndedOf, x, K, p

\* What is before the part that waits.
LEMMA BeforeTheLast ==
  ASSUME NEW s \in Seq(PartStates), NEW K, Waits(s, K), NEW w \in PartStates
  PROVE  \E t \in Seq(PartStates) : s = Append(t, "asked") /\ Ending(s, w) = Append(t, w)
<1> DEFINE n == Len(s) - 1
           t == [i \in 1..n |-> s[i]]
<1>1. n \in Nat /\ Len(s) = n + 1 /\ s[n + 1] = "asked" /\ \A i \in 1..n : s[i] \in PartStates
  BY DEF Waits
<1>2. t \in Seq(PartStates) /\ Len(t) = n /\ \A i \in 1..n : t[i] = s[i]
  BY <1>1
<1> HIDE DEF n, t
<1>3. ASSUME NEW x \in PartStates
      PROVE  /\ Append(t, x) \in Seq(PartStates) /\ Len(Append(t, x)) = n + 1
             /\ \A i \in 1..(n + 1) : Append(t, x)[i] = IF i = n + 1 THEN x ELSE s[i]
  <2>1. /\ Append(t, x) \in Seq(PartStates) /\ Len(Append(t, x)) = n + 1 /\ Append(t, x)[n + 1] = x
        /\ \A i \in 1..n : Append(t, x)[i] = t[i]
    BY <1>2, <1>3, AppendProperties
  <2>2. \A i \in 1..(n + 1) : i # n + 1 => i \in 1..n
    BY <1>1
  <2> QED BY <1>1, <1>2, <2>1, <2>2
<1>4. "asked" \in PartStates
  BY DEF PartStates
<1>5. s = Append(t, "asked")
  <2>1. \A i \in 1..Len(s) : s[i] = Append(t, "asked")[i]
    BY <1>1, <1>3, <1>4
  <2> QED BY <1>1, <1>3, <1>4, <2>1, SeqEqual
<1>6. Ending(s, w) = Append(t, w)
  <2>1. /\ Ending(s, w) \in Seq(PartStates) /\ Len(Ending(s, w)) = Len(s)
        /\ \A i \in 1..Len(s) : Ending(s, w)[i] = IF i = Len(s) THEN w ELSE s[i]
    <3>1. Len(s) \in 1..Len(s)
      BY <1>1
    <3> QED BY <3>1, ExceptSeq DEF Ending
  <2>2. \A i \in 1..Len(Ending(s, w)) : Ending(s, w)[i] = Append(t, w)[i]
    BY <1>1, <1>3, <2>1
  <2> QED BY <1>1, <1>3, <2>1, <2>2, SeqEqual
<1> QED BY <1>2, <1>5, <1>6

\* Both grow, and the one is still the end of the other.
LEMMA TailGrows ==
  ASSUME NEW V, NEW u \in Seq(V), NEW t \in Seq(V), NEW x \in V, TailOf(u, t)
  PROVE  TailOf(Append(u, x), Append(t, x))
<1>1. PICK n \in 0..Len(t) : u = SubSeq(t, n + 1, Len(t))
  BY DEF TailOf
<1>2. n \in Nat /\ Len(t) \in Nat /\ n <= Len(t)
  OBVIOUS
<1>3. Len(u) = Len(t) - n /\ \A i \in 1..(Len(t) - n) : u[i] = t[n + i]
  BY <1>1, <1>2
<1>4. /\ Append(t, x) \in Seq(V) /\ Len(Append(t, x)) = Len(t) + 1 /\ Append(t, x)[Len(t) + 1] = x
      /\ \A i \in 1..Len(t) : Append(t, x)[i] = t[i]
  BY AppendProperties
<1>5. /\ Append(u, x) \in Seq(V) /\ Len(Append(u, x)) = Len(u) + 1 /\ Append(u, x)[Len(u) + 1] = x
      /\ \A i \in 1..Len(u) : Append(u, x)[i] = u[i]
  BY AppendProperties
<1> DEFINE tt == Append(t, x)
           uu == Append(u, x)
           vv == SubSeq(tt, n + 1, Len(tt))
<1> HIDE DEF tt, uu
<1>6. /\ vv \in Seq(V) /\ Len(vv) = Len(t) + 1 - n
      /\ \A i \in 1..(Len(t) + 1 - n) : vv[i] = tt[n + i]
  BY <1>2, <1>4 DEF tt
<1>7. \A i \in 1..(Len(t) + 1 - n) : uu[i] = tt[n + i]
  <2> SUFFICES ASSUME NEW i \in 1..(Len(t) + 1 - n) PROVE uu[i] = tt[n + i]
    OBVIOUS
  <2>1. CASE i = Len(t) + 1 - n
    BY <1>2, <1>3, <1>4, <1>5, <2>1 DEF uu, tt
  <2>2. CASE i # Len(t) + 1 - n
    <3>1. i \in 1..(Len(t) - n) /\ i \in 1..Len(u) /\ n + i \in 1..Len(t)
      BY <1>2, <1>3, <2>2
    <3> QED BY <3>1, <1>3, <1>4, <1>5 DEF uu, tt
  <2> QED BY <2>1, <2>2
<1>8. uu = vv
  <2> HIDE DEF vv
  <2>1. uu \in Seq(V) /\ Len(uu) = Len(vv)
    BY <1>2, <1>3, <1>5, <1>6 DEF uu
  <2>2. \A i \in 1..Len(uu) : uu[i] = vv[i]
    BY <1>2, <1>6, <1>7, <2>1
  <2> QED BY <1>6, <2>1, <2>2, SeqEqual
<1>9. n \in 0..Len(tt)
  BY <1>2, <1>4 DEF tt
<1> QED BY <1>8, <1>9 DEF TailOf, tt, uu

\* A sequence is the end of itself, and so is nothing.
LEMMA OwnTail == ASSUME NEW V, NEW t \in Seq(V) PROVE TailOf(t, t) /\ TailOf(<<>>, t)
<1>1. Len(t) \in Nat /\ 0 \in 0..Len(t) /\ Len(t) \in 0..Len(t)
  OBVIOUS
<1>2. SubSeq(t, 0 + 1, Len(t)) = t
  OBVIOUS
<1>3. SubSeq(t, Len(t) + 1, Len(t)) = <<>>
  BY <1>1
<1> QED BY <1>1, <1>2, <1>3 DEF TailOf

\* What a step of an execution does to the others and to the file.
Stays(x) ==
  stage'[x] = stage[x] /\ parts'[x] = parts[x] /\ answer'[x] = answer[x] /\ total'[x] = total[x]

FileGoesOn(e) ==
  \/ progress' = progress
  \/ ModeOf[e] = "loop" /\ \E status \in {"done", "failed"} : progress' = Append(progress, <<e, status>>)
  \/ ModeOf[e] = "loop" /\ progress' = <<>> /\ answer'[e].kind = "answer"

OneSteps(e) ==
  /\ \A x \in Executions \ {e} : Stays(x)
  /\ stage[e] # "over" \/ ModeOf[e] # "loop"
  /\ FileGoesOn(e)

LEMMA MovesStep ==
  ASSUME ExTypes, NEW e \in Executions, NEW where, NEW s, NEW ans, Moves(e, where, s, ans),
         total' = total \/ \E n : total' = [total EXCEPT ![e] = n],
         stage[e] # "over" \/ ModeOf[e] # "loop", FileGoesOn(e)
  PROVE  OneSteps(e)
<1>1. \A x \in Executions \ {e} : stage'[x] = stage[x] /\ parts'[x] = parts[x] /\ answer'[x] = answer[x]
  BY DEF ExTypes, Moves
<1>2. \A x \in Executions \ {e} : total'[x] = total[x]
  BY DEF ExTypes
<1> QED BY <1>1, <1>2 DEF OneSteps, Stays

\* Whatever is done with the parts, it is one of the three moves.
LEMMA SomeMove ==
  ASSUME ExTypes, NEW e \in Executions, ExStep(e)
  PROVE  \E where, s, ans : Moves(e, where, s, ans)
<1>1. ASSUME NEW where, NEW s, NEW what, NEW of,
             WaitsFor(e, where, s) \/ WaitsAt(e, where, s) \/ Returns(e, what, of, s)
      PROVE  \E w, t, ans : Moves(e, w, t, ans)
  BY <1>1, WaysToMove
<1>2. ASSUME NEW what, NEW s, LastOr(e, what, s) PROVE \E w, t, ans : Moves(e, w, t, ans)
  BY <1>1, <1>2 DEF LastOr
<1>3. ASSUME NEW s, CouncilGathered(e, s) \/ TeamsGathered(e, s) PROVE \E w, t, ans : Moves(e, w, t, ans)
  BY <1>1, <1>3 DEF CouncilGathered, TeamsGathered
<1>4. ASSUME Execute(e) \/ DecomposeFails(e) PROVE \E w, t, ans : Moves(e, w, t, ans)
  BY <1>1, <1>4 DEF Execute, DecomposeFails
<1>5. ASSUME NEW n, Decomposed(e, n) PROVE \E w, t, ans : Moves(e, w, t, ans)
  BY <1>1, <1>5 DEF Decomposed
<1>6. ASSUME NEW well, LoopSynthesized(e, well) \/ CouncilSynthesized(e, well) PROVE \E w, t, ans : Moves(e, w, t, ans)
  BY <1>1, <1>6 DEF LoopSynthesized, CouncilSynthesized
<1>7. ASSUME NEW status, AloneEnds(e, status) \/ StageEnds(e, status) PROVE \E w, t, ans : Moves(e, w, t, ans)
  BY <1>1, <1>7 DEF AloneEnds, StageEnds
<1>8. ASSUME NEW status, BranchEnds(e, status) PROVE \E w, t, ans : Moves(e, w, t, ans)
  BY <1>1, <1>2, <1>8 DEF BranchEnds
<1>9. ASSUME NEW status, SubtaskEnds(e, status) PROVE \E w, t, ans : Moves(e, w, t, ans)
  BY <1>1, <1>9 DEF SubtaskEnds
<1>10. ASSUME NEW i, NEW status, GatherEnds(e, i, status) PROVE \E w, t, ans : Moves(e, w, t, ans)
  BY <1>1, <1>3, <1>10 DEF GatherEnds
<1>11. ASSUME NEW scored, NEW score, Judge(e, scored, score) \/ JudgeBreaks(e) PROVE \E w, t, ans : Moves(e, w, t, ans)
  BY <1>1, <1>11 DEF Judge, JudgeBreaks
<1>12. ASSUME NEW what, Decides(e, what) PROVE \E w, t, ans : Moves(e, w, t, ans)
  BY <1>1, <1>2, <1>12 DEF Decides
<1> QED BY <1>4, <1>5, <1>6, <1>7, <1>8, <1>9, <1>10, <1>11, <1>12 DEF ExStep

\* What each leaves of the file and of the totals.
LEMMA FileSteps ==
  ASSUME ExHolds, NEW e \in Executions, ExStep(e)
  PROVE  /\ total' = total \/ \E n : total' = [total EXCEPT ![e] = n]
         /\ stage[e] # "over" \/ ModeOf[e] # "loop"
         /\ FileGoesOn(e)
<1>1. ASSUME Execute(e) \/ DecomposeFails(e) PROVE progress' = progress /\ stage[e] # "over" /\
               (total' = total \/ \E n : total' = [total EXCEPT ![e] = n])
  BY <1>1 DEF Execute, DecomposeFails
<1>2. ASSUME NEW n, Decomposed(e, n)
      PROVE  progress' = progress /\ stage[e] # "over" /\ \E k : total' = [total EXCEPT ![e] = k]
  BY <1>2 DEF Decomposed
<1>3. ASSUME NEW well, CouncilSynthesized(e, well) PROVE progress' = progress /\ stage[e] # "over" /\ total' = total
  BY <1>3 DEF CouncilSynthesized
<1>4. ASSUME NEW well, LoopSynthesized(e, well) PROVE FileGoesOn(e) /\ stage[e] # "over" /\ total' = total
  <2>1. total' = total /\ stage[e] # "over" /\ ModeOf[e] = "loop"
    BY <1>4 DEF LoopSynthesized
  <2>2. \/ progress' = progress
        \/ progress' = <<>> /\ Returns(e, "answer", Good(e), parts[e])
    BY <1>4 DEF LoopSynthesized, Cleared
  <2>3. ASSUME Returns(e, "answer", Good(e), parts[e]) PROVE answer'[e].kind = "answer"
    BY <2>3 DEF Returns, ExHolds, ExTypes
  <2> QED BY <2>1, <2>2, <2>3 DEF FileGoesOn
<1>5. ASSUME NEW status, AloneEnds(e, status) \/ StageEnds(e, status) \/ BranchEnds(e, status)
      PROVE progress' = progress /\ stage[e] # "over" /\ total' = total
  BY <1>5 DEF AloneEnds, StageEnds, BranchEnds
<1>6. ASSUME NEW status \in {"done", "failed", "broke"}, SubtaskEnds(e, status)
      PROVE FileGoesOn(e) /\ stage[e] # "over" /\ total' = total
  <2>1. total' = total /\ stage[e] = "subtask"
    BY <1>6 DEF SubtaskEnds
  <2>2. ModeOf[e] = "loop"
    BY <2>1, ExIs DEF ExTells, StageTells
  <2>3. progress' = IF status = "broke" THEN progress ELSE Append(progress, <<e, status>>)
    BY <1>6 DEF SubtaskEnds
  <2> QED BY <2>1, <2>2, <2>3 DEF FileGoesOn
<1>7. ASSUME NEW i, NEW status, GatherEnds(e, i, status)
      PROVE progress' = progress /\ ModeOf[e] # "loop" /\ total' = total
  BY <1>7 DEF GatherEnds
<1>8. ASSUME NEW scored, NEW score, Judge(e, scored, score) \/ JudgeBreaks(e)
      PROVE progress' = progress /\ stage[e] # "over" /\ total' = total
  BY <1>8 DEF Judge, JudgeBreaks
<1>9. ASSUME NEW what, Decides(e, what) PROVE progress' = progress /\ stage[e] # "over" /\ total' = total
  BY <1>9 DEF Decides
<1>10. ASSUME NEW status \in Statuses, SubtaskEnds(e, IF status = "empty" THEN "done" ELSE status)
       PROVE FileGoesOn(e) /\ stage[e] # "over" /\ total' = total
  <2>1. (IF status = "empty" THEN "done" ELSE status) \in {"done", "failed", "broke"}
    BY DEF Statuses
  <2> QED BY <1>6, <1>10, <2>1
<1>11. progress' = progress => FileGoesOn(e)
  BY DEF FileGoesOn
<1> QED BY <1>1, <1>2, <1>3, <1>4, <1>5, <1>7, <1>8, <1>9, <1>10, <1>11 DEF ExStep

LEMMA EachSteps == ASSUME ExHolds, NEW e \in Executions, ExStep(e) PROVE OneSteps(e)
<1>1. PICK where, s, ans : Moves(e, where, s, ans)
  BY ExIs, SomeMove
<1> QED BY <1>1, ExIs, FileSteps, MovesStep

\* A loop that another has stepped beside.
LEMMA BesideKept ==
  ASSUME ExHolds, LogHolds, NEW y \in Executions, OneSteps(y), NEW e \in Executions \ {y}, ModeOf[e] = "loop"
  PROVE  LoopTells(e)'
<1>1. Stays(e) /\ LoopTells(e) /\ progress \in Seq(Entries) /\ parts[e] \in Seq(PartStates)
  BY ExIs DEF LogHolds, OneSteps
<1>2. OtherIsDone(e) => OtherIsDone(e)'
  <2> SUFFICES ASSUME NEW x \in Executions \ {e}, ModeOf[x] = "loop", answer[x].kind = "answer"
               PROVE  answer'[x].kind = "answer"
    BY DEF OtherIsDone
  <2>1. stage[x] = "over"
    <3>1. NoAnswer.kind = "none"
      BY DEF NoAnswer
    <3> QED BY <3>1, ExIs DEF ExTells
  <2> QED BY <2>1 DEF OneSteps, Stays
<1>3. CASE progress' = progress
  BY <1>1, <1>2, <1>3 DEF LoopTells, EntriesTell, Stays
<1>4. ASSUME NEW status \in {"done", "failed"}, progress' = Append(progress, <<y, status>>) PROVE LoopTells(e)'
  <2>1. Written(e, progress') = Written(e, progress)
    BY <1>1, <1>4, WrittenGrows
  <2> QED BY <1>1, <1>2, <2>1 DEF LoopTells, EntriesTell, Stays
<1>5. CASE ModeOf[y] = "loop" /\ progress' = <<>> /\ answer'[y].kind = "answer"
  <2>1. Written(e, progress') = <<>>
    BY <1>5, EmptyLog
  <2>2. OtherIsDone(e)'
    BY <1>5 DEF OtherIsDone
  <2>3. TailOf(<<>>, EndedOf(e, parts[e]))
    <3>1. EndedOf(e, parts[e]) \in Seq(Entries)
      <4>1. "done" \in PartStates
        BY DEF PartStates
      <4> QED BY <1>1, <4>1, EndedGrows
    <3> QED BY <3>1, OwnTail
  <2> QED BY <1>1, <2>1, <2>2, <2>3 DEF LoopTells, EntriesTell, Stays
<1> QED BY <1>3, <1>4, <1>5 DEF OneSteps, FileGoesOn

\* A loop's own steps.  Where it goes with nothing written ...
LEMMA NothingWritten ==
  ASSUME ExTypes, NEW e \in Executions, NEW where, NEW s, NEW ans, Moves(e, where, s, ans), progress' = progress,
         Written(e, progress) = <<>>, where # "new",
         where = "alone" => ~(total'[e] > 1),
         total'[e] > 1 => ans.kind # "answer" /\ EndedOf(e, s) = <<>>
  PROVE  LoopTells(e)'
<1>1. stage'[e] = where /\ parts'[e] = s /\ answer'[e] = ans
  BY DEF ExTypes, Moves
<1>2. TailOf(<<>>, <<>>)
  <2>1. <<>> \in Seq({})
    OBVIOUS
  <2> QED BY <2>1, OwnTail
<1> QED BY <1>1, <1>2 DEF LoopTells, EntriesTell

LEMMA OwnKept ==
  ASSUME ExHolds, LogHolds, NEW e \in Executions, ModeOf[e] = "loop", ExStep(e)
  PROVE  LoopTells(e)' /\ progress' \in Seq(Entries)
<1>0. /\ ExTypes /\ LoopTells(e) /\ progress \in Seq(Entries) /\ parts[e] \in Seq(PartStates)
      /\ ExTells(e, stage[e], parts[e], answer[e], kept[e])
  BY ExIs DEF LogHolds
<1>1. "asked" \in PartStates /\ "broke" \in PartStates /\ "done" \in PartStates /\ "failed" \in PartStates
  BY DEF PartStates
<1>2. EndedOf(e, <<>>) = <<>> /\ EndedOf(e, <<"asked">>) = <<>> /\ Append(<<>>, "asked") = <<"asked">>
  <2>1. <<>> \in Seq(PartStates) /\ Append(<<>>, "asked") = <<"asked">>
    OBVIOUS
  <2>2. EndedOf(e, Append(<<>>, "asked")) = EndedOf(e, <<>>)
    BY <2>1, <1>1, EndedGrows
  <2> QED BY <2>1, <2>2, EmptyLog
<1>3. ASSUME Execute(e) PROVE LoopTells(e)' /\ progress' \in Seq(Entries)
  <2>1. progress' = progress /\ Written(e, progress) = <<>> /\ answer[e] = NoAnswer
    BY <1>0, <1>3 DEF Execute, LoopTells, ExTells
  <2>2. WaitsAt(e, "decompose", <<>>) \/ Returns(e, "error", {}, <<>>)
    BY <1>3 DEF Execute
  <2>3. \/ Moves(e, "decompose", <<>>, NoAnswer)
        \/ Moves(e, "over", <<>>, [kind |-> "error", of |-> {}])
    BY <1>0, <2>1, <2>2, WaysToMove
  <2> QED BY <1>0, <1>2, <2>1, <2>3, NothingWritten DEF NoAnswer
<1>4. ASSUME DecomposeFails(e) PROVE LoopTells(e)' /\ progress' \in Seq(Entries)
  <2>1. progress' = progress /\ Written(e, progress) = <<>>
    BY <1>0, <1>4 DEF DecomposeFails, LoopTells
  <2>2. Moves(e, "over", <<>>, [kind |-> "error", of |-> {}])
    BY <1>0, <1>4, WaysToMove DEF DecomposeFails
  <2> QED BY <1>0, <1>2, <2>1, <2>2, NothingWritten
<1>5. ASSUME NEW n \in 0..MaxSubtasks, Decomposed(e, n) PROVE LoopTells(e)' /\ progress' \in Seq(Entries)
  <2>1. progress' = progress /\ Written(e, progress) = <<>> /\ answer[e] = NoAnswer /\ total'[e] = n
    BY <1>0, <1>5 DEF Decomposed, LoopTells, ExTells, ExTypes
  <2>2. \/ n <= 1 /\ WaitsFor(e, "alone", <<>>)
        \/ WaitsFor(e, "subtask", <<>>)
    BY <1>5 DEF Decomposed
  <2>3. \/ n <= 1 /\ Moves(e, "alone", <<"asked">>, NoAnswer)
        \/ Moves(e, "subtask", <<"asked">>, NoAnswer)
    BY <1>0, <1>2, <2>1, <2>2, WaysToMove
  <2>4. n \in Nat
    BY ExecutionModesAssumption
  <2> QED BY <1>0, <1>2, <2>1, <2>3, <2>4, NothingWritten DEF NoAnswer
<1>6. ASSUME NEW status, AloneEnds(e, status) PROVE LoopTells(e)' /\ progress' \in Seq(Entries)
  <2>1. progress' = progress /\ Written(e, progress) = <<>> /\ total' = total /\ ~(total[e] > 1)
    BY <1>0, <1>6 DEF AloneEnds, LoopTells
  <2>2. \E s, ans : Moves(e, "over", s, ans)
    BY <1>0, <1>6, WaysToMove DEF AloneEnds
  <2> QED BY <1>0, <2>1, <2>2, NothingWritten
<1>7. ASSUME NEW status \in {"done", "failed", "broke"}, SubtaskEnds(e, status)
      PROVE  LoopTells(e)' /\ progress' \in Seq(Entries)
  <2> DEFINE now == Ending(parts[e], status)
             w == Written(e, progress)
             w2 == Written(e, progress')
  <2>0. /\ Waits(parts[e], {"done", "failed"}) /\ answer[e] = NoAnswer /\ total' = total
        /\ progress' = IF status = "broke" THEN progress ELSE Append(progress, <<e, status>>)
        /\ WaitsFor(e, "subtask", now) \/ WaitsAt(e, "synthesize", now) \/ Returns(e, "error", {}, now)
    BY <1>0, <1>7 DEF SubtaskEnds, ExTells, StageTells
  <2>a. status \in PartStates /\ (status \in {"done", "failed"} <=> status # "broke")
    BY DEF PartStates
  <2>1. PICK t \in Seq(PartStates) : parts[e] = Append(t, "asked") /\ now = Append(t, status)
    BY <1>0, <2>0, <2>a, BeforeTheLast
  <2> DEFINE ended == EndedOf(e, t)
             ended2 == EndedOf(e, now)
  <2>2. ended = EndedOf(e, parts[e]) /\ ended \in Seq(Entries)
    BY <1>1, <2>1, EndedGrows
  <2>3. ended2 = IF status = "broke" THEN ended ELSE Append(ended, <<e, status>>)
    <3>1. EndedOf(e, Append(t, status)) = IF status \in {"done", "failed"} THEN Append(ended, <<e, status>>) ELSE ended
      BY <2>1, <2>a, EndedGrows
    <3> QED BY <2>1, <2>a, <3>1
  <2>4. now \in Seq(PartStates) /\ EndedOf(e, Append(now, "asked")) = ended2
    <3>1. now \in Seq(PartStates)
      BY <2>1, <2>a
    <3> QED BY <3>1, <1>1, EndedGrows
  <2>5. /\ w \in Seq(Entries) /\ progress' \in Seq(Entries)
        /\ w2 = IF status = "broke" THEN w ELSE Append(w, <<e, status>>)
    <3>1. w \in Seq(Entries)
      BY <1>0, WrittenGrows
    <3>2. CASE status = "broke"
      BY <1>0, <2>0, <3>1, <3>2
    <3>3. CASE status # "broke"
      <4>1. status \in {"done", "failed"}
        BY <2>a, <3>3
      <4>2. /\ Append(progress, <<e, status>>) \in Seq(Entries)
            /\ Written(e, Append(progress, <<e, status>>)) = Append(w, <<e, status>>)
        BY <1>0, <4>1, WrittenGrows
      <4> QED BY <2>0, <3>1, <3>3, <4>2
    <3> QED BY <3>2, <3>3
  <2>6. \E where, s, ans : /\ Moves(e, where, s, ans) /\ EndedOf(e, s) = ended2 /\ ans.kind # "answer"
                           /\ where \notin {"new", "decompose", "alone"}
    <3>1. CASE WaitsFor(e, "subtask", now)
      <4>1. Moves(e, "subtask", Append(now, "asked"), NoAnswer)
        BY <1>0, <2>0, <3>1, WaysToMove
      <4> QED BY <4>1, <2>4 DEF NoAnswer
    <3>2. CASE WaitsAt(e, "synthesize", now)
      <4>1. Moves(e, "synthesize", now, NoAnswer)
        BY <1>0, <2>0, <3>2, WaysToMove
      <4> QED BY <4>1 DEF NoAnswer
    <3>3. CASE Returns(e, "error", {}, now)
      <4>1. Moves(e, "over", now, [kind |-> "error", of |-> {}])
        BY <1>0, <3>3, WaysToMove
      <4> QED BY <4>1
    <3> QED BY <2>0, <3>1, <3>2, <3>3
  <2>7. PICK where, s, ans : /\ Moves(e, where, s, ans) /\ EndedOf(e, s) = ended2 /\ ans.kind # "answer"
                             /\ where \notin {"new", "decompose", "alone"}
    BY <2>6
  <2>8. stage'[e] = where /\ parts'[e] = s /\ answer'[e] = ans
    BY <1>0, <2>7 DEF ExTypes, Moves
  <2> HIDE DEF w, w2, ended, ended2, now
  <2>9. OtherIsDone(e) => OtherIsDone(e)'
    BY <1>0, <2>7 DEF OtherIsDone, ExTypes, Moves
  <2>10. ASSUME total[e] > 1 PROVE TailOf(w2, ended2) /\ (w2 = ended2 \/ OtherIsDone(e)')
    <3>1. TailOf(w, ended) /\ (w = ended \/ OtherIsDone(e))
      BY <1>0, <2>0, <2>2, <2>10 DEF LoopTells, EntriesTell, NoAnswer, w, ended
    <3>2. TailOf(w2, ended2)
      <4>1. CASE status = "broke"
        BY <2>3, <2>5, <3>1, <4>1
      <4>2. CASE status # "broke"
        <5>1. <<e, status>> \in Entries
          BY <1>1 DEF Entries
        <5> QED BY <2>2, <2>3, <2>5, <3>1, <4>2, <5>1, TailGrows
      <4> QED BY <4>1, <4>2
    <3> QED BY <2>3, <2>5, <2>9, <3>1, <3>2
  <2> QED BY <2>0, <2>5, <2>7, <2>8, <2>10 DEF LoopTells, EntriesTell, w2, ended2
<1>8. ASSUME NEW well \in BOOLEAN, LoopSynthesized(e, well) PROVE LoopTells(e)' /\ progress' \in Seq(Entries)
  <2>0. total' = total /\ answer[e] = NoAnswer
    BY <1>0, <1>8 DEF LoopSynthesized, ExTells
  <2>1. \/ Returns(e, "answer", Good(e), parts[e]) /\ progress' = <<>>
        \/ Returns(e, "no synthesis", {}, parts[e]) /\ progress' = progress
    BY <1>8 DEF LoopSynthesized, Cleared
  <2>2. CASE Returns(e, "answer", Good(e), parts[e]) /\ progress' = <<>>
    <3>1. stage'[e] = "over" /\ answer'[e].kind = "answer"
      BY <1>0, <2>2 DEF Returns, ExTypes
    <3>2. Written(e, progress') = <<>> /\ progress' \in Seq(Entries)
      BY <2>2, EmptyLog
    <3> QED BY <3>1, <3>2 DEF LoopTells, EntriesTell
  <2>3. CASE Returns(e, "no synthesis", {}, parts[e]) /\ progress' = progress
    <3>1. /\ stage'[e] = "over" /\ answer'[e].kind = "no synthesis" /\ parts'[e] = parts[e]
          /\ \A x \in Executions \ {e} : answer'[x] = answer[x]
      BY <1>0, <2>3 DEF Returns, ExTypes
    <3>2. OtherIsDone(e) => OtherIsDone(e)'
      BY <3>1 DEF OtherIsDone
    <3>3. total[e] > 1 => /\ TailOf(Written(e, progress), EndedOf(e, parts[e]))
                          /\ Written(e, progress) = EndedOf(e, parts[e]) \/ OtherIsDone(e)
      BY <1>0, <2>0 DEF LoopTells, EntriesTell, NoAnswer
    <3> QED BY <1>0, <2>0, <2>3, <3>1, <3>2, <3>3 DEF LoopTells, EntriesTell
  <2> QED BY <2>1, <2>2, <2>3
<1>9. /\ stage[e] \notin {"pipeline", "branch", "judge", "decide", "retry"}
  BY <1>0 DEF ExTells, StageTells
<1>11. /\ \A well : ~CouncilSynthesized(e, well)
       /\ \A i, status : ~GatherEnds(e, i, status)
  BY DEF CouncilSynthesized, GatherEnds
<1>12. /\ \A status : ~StageEnds(e, status) /\ ~BranchEnds(e, status)
       /\ ~JudgeBreaks(e) /\ \A scored, score : ~Judge(e, scored, score)
       /\ \A what : ~Decides(e, what)
  BY <1>9 DEF StageEnds, BranchEnds, Judge, JudgeBreaks, Decides
<1>10. \A status \in Statuses : (IF status = "empty" THEN "done" ELSE status) \in {"done", "failed", "broke"}
  BY DEF Statuses
<1> QED BY <1>3, <1>4, <1>5, <1>6, <1>7, <1>8, <1>10, <1>11, <1>12 DEF ExStep

LEMMA LogStarts == ExInit => LogHolds
<1> SUFFICES ASSUME ExInit PROVE LogHolds
  OBVIOUS
<1>1. progress = <<>> /\ progress \in Seq(Entries)
  BY DEF ExInit
<1>2. ASSUME NEW e \in Executions PROVE LoopTells(e)
  <2>1. stage[e] = "new" /\ total[e] = 0
    BY DEF ExInit
  <2> QED BY <1>1, <2>1, EmptyLog DEF LoopTells
<1> QED BY <1>1, <1>2 DEF LogHolds

LEMMA LogKept == ExHolds /\ LogHolds /\ [\E e \in Executions : ExStep(e)]_exVars => LogHolds'
<1> SUFFICES ASSUME ExHolds, LogHolds, [\E e \in Executions : ExStep(e)]_exVars PROVE LogHolds'
  OBVIOUS
<1>1. CASE UNCHANGED exVars
  BY <1>1 DEF exVars, LogHolds, LoopTells, EntriesTell, OtherIsDone
<1>2. ASSUME NEW y \in Executions, ExStep(y) PROVE LogHolds'
  <2>1. OneSteps(y)
    BY <1>2, EachSteps
  <2>2. \A e \in Executions \ {y} : ModeOf[e] = "loop" => LoopTells(e)'
    BY <2>1, BesideKept
  <2>3. ModeOf[y] = "loop" => LoopTells(y)' /\ progress' \in Seq(Entries)
    BY <1>2, OwnKept
  <2>4. ModeOf[y] # "loop" => progress' \in Seq(Entries)
    BY <2>1 DEF OneSteps, FileGoesOn, LogHolds
  <2> QED BY <2>2, <2>3, <2>4 DEF LogHolds
<1> QED BY <1>1, <1>2

LEMMA ProgressIsTold == LogHolds => ProgressTells
<1> SUFFICES ASSUME LogHolds, NEW e \in Executions, ModeOf[e] = "loop", total[e] > 1
             PROVE  LET written == Only(progress, {e} \X Statuses)
                        ended == Only([i \in DOMAIN parts[e] |-> <<e, parts[e][i]>>], {e} \X {"done", "failed"})
                    IN  IF answer[e].kind = "answer" THEN written = <<>>
                        ELSE /\ \E n \in 0..Len(ended) : written = SubSeq(ended, n + 1, Len(ended))
                             /\ \/ written = ended
                                \/ \E x \in Executions \ {e} : ModeOf[x] = "loop" /\ answer[x].kind = "answer"
  BY DEF ProgressTells
<1>1. EntriesTell(e)
  BY DEF LogHolds, LoopTells
<1> QED BY <1>1 DEF EntriesTell, Written, EndedOf, Pairs, TailOf, OtherIsDone

\* However many loops of a task share its progress file: what is in it of a loop are
\* its parts that are over, in their order, up to those that the good end of another
\* loop took away, and a good end leaves none of its own.
THEOREM ProgressStaysTold == ExSpec => []ProgressTells
BY ExStarts, ExKept, LogStarts, LogKept, ProgressIsTold, PTL DEF ExSpec

-----------------------------------------------------------------------------
(* The way of a task to its teams. *)

RunStates == {"none", "called", "at the gate", "refused", "executing", "telling", "done", "failed", "cancelled"}
Unrun == {"new", "asking", "refresh", "routed", "declined"}
AtStates == Unrun \cup {"running", "answered", "error", "cancelled"}

\* What the event stream is told of a team.
Words == {"started", "completed", "failed", "unrecorded"}

RoutingTypes ==
  /\ registered \subseteq Teams /\ at \in [Tasks -> AtStates]
  /\ may \in [Tasks -> SUBSET (Teams \ MetaTeams)] /\ plan \in [Tasks -> Answers]
  /\ declined \in [Tasks -> BOOLEAN] /\ abreast \in [Tasks -> BOOLEAN] /\ audits \in [Tasks -> Nat]
  /\ run \in [Tasks -> [Teams -> RunStates]]
  /\ told \in [Tasks -> [Teams -> Seq(Words)]] /\ spends \in [Tasks -> [Teams -> Nat]]

\* What is told of a run that is at `where', and how often it is charged.
RunSays(r, where, said, n) ==
  /\ where \in {"none", "called", "at the gate", "refused"} => said = <<>>
  /\ where = "executing" => said = <<"started">>
  /\ where = "telling" => said = <<"started", "completed">>
  /\ where = "failed" => said = IF r \in Unknown THEN <<"started">> ELSE <<"started", "failed">>
  /\ where = "done" => \/ said = <<"started", "completed">> /\ n = 1
                       \/ said = <<"started", "completed", "unrecorded">> /\ n \in {0, 1}
  /\ where # "done" => n = 0

RunHolds(r) ==
  /\ \A t \in Teams : RunSays(r, run[r][t], told[r][t], spends[r][t])
  /\ at[r] \in Unrun => \A t \in Teams : run[r][t] = "none"
  /\ ~abreast[r] => \A i, j \in DOMAIN plan[r] :
       i < j /\ run[r][plan[r][j]] # "none" => run[r][plan[r][i]] = "done"
  /\ at[r] \in {"refresh", "routed", "running"} => plan[r] # <<>>
  /\ at[r] = "answered" => \E t \in ToSet(plan[r]) : run[r][t] = "done"

Direct(r) == CompanyOf[r] = "none" /\ BoundTo[r] # "none"

DecisionTells(r) ==
  /\ at[r] \in {"new", "asking"} => audits[r] = 0 /\ ~declined[r]
  /\ at[r] = "asking" => ~Direct(r)
  /\ at[r] \notin {"new", "asking", "cancelled"} =>
       /\ declined[r] <=> plan[r] = <<>>
       /\ ~Direct(r) => ToSet(plan[r]) \subseteq may[r] \ MetaTeams
       /\ audits[r] <= 1
       /\ (IF declined[r] THEN TagOf[r] = "none" ELSE ~Direct(r)) => audits[r] = 1

TaskHolds(r) == RunHolds(r) /\ DecisionTells(r)

\* The inductive invariant of the routing.
RoutingHolds == RoutingTypes /\ \A r \in Tasks : TaskHolds(r)

\* What can be decided: no team, one, or two that differ.
LEMMA AnswersAre ==
  ASSUME NEW p \in Answers
  PROVE  /\ \A i \in DOMAIN p : p[i] \in Teams /\ i \in Nat /\ p[i] \in ToSet(p)
         /\ \A i, j \in DOMAIN p : p[i] = p[j] => i = j
         /\ ToSet(p) \subseteq Teams
         /\ p # <<>> => 1 \in DOMAIN p
         /\ p = <<>> => ToSet(p) = {}
         /\ \A i \in DOMAIN p : i >= 1 /\ i <= Len(p)
         /\ \A i \in Nat : i >= 1 /\ i <= Len(p) => i \in DOMAIN p
         /\ Len(p) \in Nat
<1>1. CASE p = <<>>
  BY <1>1 DEF ToSet
<1>2. ASSUME NEW t \in Teams, p = <<t>> PROVE DOMAIN p = {1} /\ Len(p) = 1 /\ p[1] = t
  BY <1>2
<1>3. ASSUME NEW t \in Teams, NEW u \in Teams, t # u, p = <<t, u>>
      PROVE  DOMAIN p = {1, 2} /\ Len(p) = 2 /\ p[1] = t /\ p[2] = u
  BY <1>3
<1>4. \/ p = <<>> \/ \E t \in Teams : p = <<t>>
      \/ \E t, u \in Teams : t # u /\ p = <<t, u>>
  BY DEF Answers
<1>5. CASE \E t \in Teams : p = <<t>>
  <2>1. PICK t \in Teams : DOMAIN p = {1} /\ Len(p) = 1 /\ p[1] = t
    BY <1>2, <1>5
  <2>2. p # <<>>
    BY <2>1
  <2> QED BY <2>1, <2>2 DEF ToSet
<1>6. CASE \E t, u \in Teams : t # u /\ p = <<t, u>>
  <2>1. PICK t, u \in Teams : t # u /\ DOMAIN p = {1, 2} /\ Len(p) = 2 /\ p[1] = t /\ p[2] = u
    BY <1>3, <1>6
  <2>2. p # <<>>
    BY <2>1
  <2> QED BY <2>1, <2>2 DEF ToSet
<1> QED BY <1>1, <1>4, <1>5, <1>6

LEMMA OneTeam == ASSUME NEW t \in Teams PROVE <<t>> \in Answers /\ <<t>> # <<>> /\ ToSet(<<t>>) = {t}
BY DEF Answers, ToSet

LEMMA NoTeam == <<>> \in Answers /\ ToSet(<<>>) = {}
BY DEF Answers, ToSet

LEMMA RoutingStarts == TrInit => RoutingHolds
<1> SUFFICES ASSUME TrInit PROVE RoutingHolds
  OBVIOUS
<1>1. RoutingTypes
  BY NoTeam DEF TrInit, RoutingTypes, Global, AtStates, Unrun, RunStates
<1>2. ASSUME NEW r \in Tasks PROVE TaskHolds(r)
  <2>1. at[r] = "new" /\ plan[r] = <<>> /\ audits[r] = 0 /\ ~declined[r]
    BY DEF TrInit
  <2>2. \A t \in Teams : run[r][t] = "none" /\ told[r][t] = <<>> /\ spends[r][t] = 0
    BY DEF TrInit
  <2>3. RunHolds(r)
    <3>1. DOMAIN plan[r] = {}
      BY <2>1
    <3>2. \A t \in Teams : RunSays(r, run[r][t], told[r][t], spends[r][t])
      BY <2>2 DEF RunSays
    <3> QED BY <2>1, <2>2, <3>1, <3>2 DEF RunHolds
  <2>4. DecisionTells(r)
    BY <2>1 DEF DecisionTells
  <2> QED BY <2>3, <2>4 DEF TaskHolds
<1> QED BY <1>1, <1>2 DEF RoutingHolds

\* What a step leaves alone of a task.
SameTask(r) ==
  /\ at'[r] = at[r] /\ may'[r] = may[r] /\ plan'[r] = plan[r] /\ declined'[r] = declined[r]
  /\ abreast'[r] = abreast[r] /\ audits'[r] = audits[r]
  /\ run'[r] = run[r] /\ told'[r] = told[r] /\ spends'[r] = spends[r]

LEMMA SameTaskHolds == ASSUME NEW r, TaskHolds(r), SameTask(r) PROVE TaskHolds(r)'
BY DEF SameTask, TaskHolds, RunHolds, DecisionTells

LEMMA OneTaskKept ==
  ASSUME RoutingHolds, RoutingTypes', NEW r \in Tasks, \A s \in Tasks \ {r} : SameTask(s), TaskHolds(r)'
  PROVE  RoutingHolds'
BY SameTaskHolds DEF RoutingHolds

\* A task whose teams have not been decided gets them.
LEMMA DecidedKept ==
  ASSUME RoutingHolds, NEW r \in Tasks, at[r] \in {"new", "asking"},
         NEW teams \in Answers, NEW parallel \in BOOLEAN, Decided(r, teams, parallel),
         may' \in [Tasks -> SUBSET (Teams \ MetaTeams)], \A s \in Tasks \ {r} : may'[s] = may[s],
         UNCHANGED <<envVars, runVars>>, ToSet(teams) \subseteq may'[r],
         Audited(r) \/ (audits' = audits /\ teams = <<>> /\ TagOf[r] # "none")
  PROVE  RoutingHolds'
<1>0. RoutingTypes /\ TaskHolds(r)
  BY DEF RoutingHolds
<1>1. /\ at'[r] \in {"declined", "routed", "refresh"} /\ (at'[r] = "declined" <=> teams = <<>>)
      /\ plan'[r] = teams /\ (declined'[r] <=> teams = <<>>) /\ abreast'[r] \in BOOLEAN
      /\ audits'[r] = (IF Audited(r) THEN 1 ELSE 0)
  <2>1. audits[r] = 0
    BY <1>0 DEF TaskHolds, DecisionTells
  <2>2. audits'[r] = (IF Audited(r) THEN 1 ELSE 0)
    BY <1>0, <2>1 DEF RoutingTypes, Audited
  <2> QED BY <1>0, <2>2 DEF RoutingTypes, Decided
<1>2. RoutingTypes'
  <2>1. audits' \in [Tasks -> Nat]
    <3>1. audits \in [Tasks -> Nat] /\ audits[r] + 1 \in Nat
      BY <1>0 DEF RoutingTypes
    <3>2. CASE Audited(r)
      BY <3>1, <3>2 DEF Audited
    <3>3. CASE audits' = audits
      BY <3>1, <3>3
    <3> QED BY <3>2, <3>3
  <2>2. at' \in [Tasks -> AtStates]
    BY <1>0 DEF RoutingTypes, Decided, AtStates, Unrun
  <2>3. plan' \in [Tasks -> Answers] /\ declined' \in [Tasks -> BOOLEAN] /\ abreast' \in [Tasks -> BOOLEAN]
    BY <1>0 DEF RoutingTypes, Decided
  <2> QED BY <1>0, <2>1, <2>2, <2>3 DEF RoutingTypes, envVars, runVars
<1>3. \A s \in Tasks \ {r} : SameTask(s)
  BY <1>0 DEF RoutingTypes, Decided, Audited, SameTask, runVars
<1>4. run'[r] = run[r] /\ told'[r] = told[r] /\ spends'[r] = spends[r]
  BY DEF runVars
<1>5. \A t \in Teams : run[r][t] = "none" /\ RunSays(r, run[r][t], told[r][t], spends[r][t])
  BY <1>0 DEF TaskHolds, RunHolds, Unrun
<1>6. \A i \in DOMAIN teams : teams[i] \in Teams
  BY AnswersAre
<1>7. RunHolds(r)'
  BY <1>1, <1>4, <1>5, <1>6 DEF RunHolds
<1>8. DecisionTells(r)'
  <2>1. ToSet(teams) \subseteq may'[r] \ MetaTeams
    BY DEF RoutingTypes
  <2> QED BY <1>1, <2>1 DEF DecisionTells
<1> QED BY <1>2, <1>3, <1>7, <1>8, OneTaskKept DEF TaskHolds

\* The keywords decide, within what the task may use.
LEMMA FallbackKept ==
  ASSUME RoutingHolds, NEW r \in Tasks, at[r] \in {"new", "asking"}, NEW allowed, Fallback(r, allowed),
         may' \in [Tasks -> SUBSET (Teams \ MetaTeams)], \A s \in Tasks \ {r} : may'[s] = may[s],
         allowed = may'[r], UNCHANGED <<envVars, runVars>>
  PROVE  RoutingHolds'
<1>1. Audited(r)
  BY DEF Fallback
<1>2. ASSUME NEW t \in KeywordTeams(r), t \in allowed, Decided(r, <<t>>, FALSE) PROVE RoutingHolds'
  <2>1. t \in Teams
    BY DEF KeywordTeams
  <2>2. <<t>> \in Answers /\ ToSet(<<t>>) \subseteq may'[r]
    BY <1>2, <2>1, OneTeam
  <2> QED BY <1>1, <1>2, <2>2, DecidedKept
<1>3. ASSUME Decided(r, <<>>, FALSE) PROVE RoutingHolds'
  BY <1>1, <1>3, NoTeam, DecidedKept
<1> QED BY <1>2, <1>3 DEF Fallback

LEMMA RunAutoKept == ASSUME RoutingHolds, NEW r \in Tasks, RunAuto(r) PROVE RoutingHolds'
<1>0. RoutingTypes /\ TaskHolds(r)
  BY DEF RoutingHolds
<1> DEFINE allowed == Available(CompanyOf[r])
<1>1. /\ at[r] = "new" /\ may' = [may EXCEPT ![r] = allowed] /\ UNCHANGED <<envVars, runVars>>
  BY DEF RunAuto
<1>2. allowed \subseteq Teams \ MetaTeams /\ allowed \subseteq registered
  BY <1>0 DEF Available, RoutingTypes
<1> HIDE DEF allowed
<1>3. /\ may' \in [Tasks -> SUBSET (Teams \ MetaTeams)] /\ allowed = may'[r]
      /\ \A s \in Tasks \ {r} : may'[s] = may[s]
  BY <1>0, <1>1, <1>2 DEF RoutingTypes
<1>4. ASSUME NEW t \in allowed, Decided(r, <<t>>, FALSE), Audited(r) PROVE RoutingHolds'
  <2>1. <<t>> \in Answers /\ ToSet(<<t>>) \subseteq may'[r]
    BY <1>2, <1>3, OneTeam
  <2> QED BY <1>1, <1>3, <1>4, <2>1, DecidedKept
<1>5. CASE CompanyOf[r] = "none" /\ BoundTo[r] # "none"
  <2> DEFINE teams == <<BoundTo[r]>>
  <2>1. /\ at' = [at EXCEPT ![r] = "routed"] /\ plan' = [plan EXCEPT ![r] = teams]
        /\ UNCHANGED <<declined, abreast, audits>>
    BY <1>5 DEF RunAuto
  <2>2. teams \in Answers /\ teams # <<>> /\ BoundTo[r] \in Teams
    BY <1>5, OneTeam, TaskRoutingAssumption
  <2>3. Direct(r)
    BY <1>5 DEF Direct
  <2> HIDE DEF teams
  <2>4. RoutingTypes'
    <3>1. at' \in [Tasks -> AtStates] /\ plan' \in [Tasks -> Answers]
      BY <1>0, <2>1, <2>2 DEF RoutingTypes, AtStates, Unrun
    <3> QED BY <1>0, <1>1, <1>3, <2>1, <3>1 DEF RoutingTypes, envVars, runVars
  <2>5. \A s \in Tasks \ {r} : SameTask(s)
    BY <1>0, <1>1, <1>3, <2>1 DEF RoutingTypes, SameTask, runVars
  <2>6. at'[r] = "routed" /\ plan'[r] = teams /\ audits'[r] = 0 /\ ~declined'[r] /\ abreast'[r] = abreast[r]
    BY <1>0, <1>1, <2>1 DEF RoutingTypes, TaskHolds, DecisionTells
  <2>7. RunHolds(r)'
    <3>1. \A t \in Teams : run[r][t] = "none" /\ RunSays(r, run[r][t], told[r][t], spends[r][t])
      BY <1>0, <1>1 DEF TaskHolds, RunHolds, Unrun
    <3>2. run'[r] = run[r] /\ told'[r] = told[r] /\ spends'[r] = spends[r]
      BY <1>1 DEF runVars
    <3>3. \A i \in DOMAIN teams : teams[i] \in Teams
      BY <2>2, AnswersAre
    <3> QED BY <2>2, <2>6, <3>1, <3>2, <3>3 DEF RunHolds
  <2>8. DecisionTells(r)'
    BY <2>2, <2>3, <2>6 DEF DecisionTells, Direct
  <2> QED BY <2>4, <2>5, <2>7, <2>8, OneTaskKept DEF TaskHolds
<1>6. CASE ~(CompanyOf[r] = "none" /\ BoundTo[r] # "none") /\ Tagged(r)
  <2>1. CASE TagOf[r] \in allowed
    <3>1. Decided(r, <<TagOf[r]>>, FALSE) /\ Audited(r)
      BY <1>6, <2>1 DEF RunAuto, allowed
    <3> QED BY <1>4, <2>1, <3>1
  <2>2. CASE TagOf[r] \notin allowed
    <3>1. Decided(r, <<>>, FALSE) /\ audits' = audits
      BY <1>6, <2>2 DEF RunAuto, allowed
    <3>2. TagOf[r] # "none"
      BY <1>6 DEF Tagged
    <3> QED BY <1>1, <1>3, <3>1, <3>2, NoTeam, DecidedKept
  <2> QED BY <2>1, <2>2
<1>7. CASE ~(CompanyOf[r] = "none" /\ BoundTo[r] # "none") /\ ~Tagged(r) /\ BindingTeams(r, allowed) # {}
  <2>1. PICK t \in BindingTeams(r, allowed) : Decided(r, <<t>>, FALSE) /\ Audited(r)
    BY <1>7 DEF RunAuto, allowed
  <2>2. t \in allowed
    BY DEF BindingTeams
  <2> QED BY <1>4, <2>1, <2>2
<1>8. CASE /\ ~(CompanyOf[r] = "none" /\ BoundTo[r] # "none") /\ ~Tagged(r) /\ BindingTeams(r, allowed) = {}
           /\ Visible(CompanyOf[r]) # {}
  <2>1. at' = [at EXCEPT ![r] = "asking"] /\ UNCHANGED <<plan, declined, abreast, audits>>
    BY <1>8 DEF RunAuto, allowed
  <2>2. RoutingTypes'
    <3>1. at' \in [Tasks -> AtStates]
      BY <1>0, <2>1 DEF RoutingTypes, AtStates, Unrun
    <3> QED BY <1>0, <1>1, <1>3, <2>1, <3>1 DEF RoutingTypes, envVars, runVars
  <2>3. \A s \in Tasks \ {r} : SameTask(s)
    BY <1>0, <1>1, <1>3, <2>1 DEF RoutingTypes, SameTask, runVars
  <2>4. at'[r] = "asking" /\ plan'[r] = plan[r] /\ audits'[r] = 0 /\ ~declined'[r] /\ abreast'[r] = abreast[r]
    BY <1>0, <1>1, <2>1 DEF RoutingTypes, TaskHolds, DecisionTells
  <2>5. RunHolds(r)' /\ DecisionTells(r)'
    <3>1. run'[r] = run[r] /\ told'[r] = told[r] /\ spends'[r] = spends[r]
      BY <1>1 DEF runVars
    <3>2. RunHolds(r)'
      BY <1>0, <1>1, <2>4, <3>1 DEF TaskHolds, RunHolds, Unrun
    <3>3. DecisionTells(r)'
      BY <1>8, <2>4 DEF DecisionTells, Direct
    <3> QED BY <3>2, <3>3
  <2> QED BY <2>2, <2>3, <2>5, OneTaskKept DEF TaskHolds
<1>9. CASE /\ ~(CompanyOf[r] = "none" /\ BoundTo[r] # "none") /\ ~Tagged(r) /\ BindingTeams(r, allowed) = {}
           /\ Visible(CompanyOf[r]) = {}
  <2>1. Fallback(r, allowed)
    BY <1>9 DEF RunAuto, allowed
  <2> QED BY <1>1, <1>3, <2>1, FallbackKept
<1> QED BY <1>5, <1>6, <1>7, <1>8, <1>9

LEMMA ModelAnswersKept ==
  ASSUME RoutingHolds, NEW r \in Tasks, NEW named, NEW parallel \in BOOLEAN, ModelAnswers(r, named, parallel)
  PROVE  RoutingHolds'
<1>1. at[r] = "asking" /\ may' = may /\ UNCHANGED <<envVars, runVars>>
  BY DEF ModelAnswers
<1>2. may' \in [Tasks -> SUBSET (Teams \ MetaTeams)]
  BY <1>1 DEF RoutingHolds, RoutingTypes
<1>3. PICK teams \in Usable(r, named) :
        IF teams # <<>> THEN Decided(r, teams, parallel) /\ Audited(r) ELSE Fallback(r, may[r])
  BY DEF ModelAnswers
<1>4. teams \in Answers /\ ToSet(teams) \subseteq may'[r]
  BY <1>1 DEF Usable
<1>5. CASE teams # <<>>
  BY <1>1, <1>2, <1>3, <1>4, <1>5, DecidedKept
<1>6. CASE teams = <<>>
  BY <1>1, <1>2, <1>3, <1>6, FallbackKept
<1> QED BY <1>5, <1>6

LEMMA RefreshedKept == ASSUME RoutingHolds, NEW r \in Tasks, Refreshed(r) PROVE RoutingHolds'
<1>0. RoutingTypes /\ TaskHolds(r)
  BY DEF RoutingHolds
<1> DEFINE first == [t \in Teams |->
                       IF t = plan[r][1] \/ (abreast[r] /\ t \in ToSet(plan[r])) THEN "called" ELSE "none"]
<1>1. /\ at[r] \in {"refresh", "routed"} /\ at' = [at EXCEPT ![r] = "running"]
      /\ run' = [run EXCEPT ![r] = first]
      /\ UNCHANGED <<envVars, may, plan, declined, abreast, audits, told, spends>>
  BY DEF Refreshed
<1>2. first \in [Teams -> RunStates] /\ \A t \in Teams : first[t] \in {"called", "none"}
  BY DEF RunStates
<1>3. ~abreast[r] => \A t \in Teams : first[t] # "none" => t = plan[r][1]
  OBVIOUS
<1> HIDE DEF first
<1>4. RoutingTypes'
  <2>1. at' \in [Tasks -> AtStates] /\ run' \in [Tasks -> [Teams -> RunStates]]
    BY <1>0, <1>1, <1>2 DEF RoutingTypes, AtStates
  <2> QED BY <1>0, <1>1, <2>1 DEF RoutingTypes, envVars
<1>5. at'[r] = "running" /\ run'[r] = first
  BY <1>0, <1>1 DEF RoutingTypes
<1>6. \A s \in Tasks \ {r} : SameTask(s)
  BY <1>0, <1>1 DEF RoutingTypes, SameTask
<1>7. RunHolds(r)'
  <2>1. ASSUME NEW t \in Teams PROVE RunSays(r, first[t], told[r][t], spends[r][t])
    <3>1. RunSays(r, "none", told[r][t], spends[r][t])
      BY <1>0, <1>1 DEF TaskHolds, RunHolds, Unrun
    <3> QED BY <1>2, <3>1 DEF RunSays
  <2>2. plan[r] # <<>> /\ plan[r] \in Answers
    BY <1>0, <1>1 DEF TaskHolds, RunHolds, RoutingTypes
  <2>3. ASSUME ~abreast[r], NEW i \in DOMAIN plan[r], NEW j \in DOMAIN plan[r], i < j, first[plan[r][j]] # "none"
        PROVE  FALSE
    <3>1. plan[r][j] \in Teams /\ 1 \in DOMAIN plan[r] /\ i >= 1 /\ i \in Nat /\ j \in Nat
      BY <2>2, AnswersAre
    <3>2. plan[r][j] = plan[r][1]
      BY <1>3, <2>3, <3>1
    <3>3. j = 1
      BY <2>2, <3>1, <3>2, AnswersAre
    <3> QED BY <2>3, <3>1, <3>3
  <2> QED BY <1>1, <1>5, <2>1, <2>2, <2>3 DEF RunHolds, Unrun
<1>8. DecisionTells(r)'
  BY <1>0, <1>1, <1>5 DEF TaskHolds, DecisionTells
<1> QED BY <1>4, <1>6, <1>7, <1>8, OneTaskKept DEF TaskHolds

\* A run that is not done goes on, or one in sequence starts after those before it.
LEMMA RunMoves ==
  ASSUME RoutingHolds, NEW r \in Tasks, NEW t \in Teams, NEW where \in RunStates \ {"none"},
         run' = [run EXCEPT ![r][t] = where], UNCHANGED <<envVars, routeVars>>,
         NEW said \in Seq(Words), told' = [told EXCEPT ![r][t] = said],
         NEW n \in Nat, spends' = [spends EXCEPT ![r][t] = n],
         RunSays(r, where, said, n), run[r][t] # "done",
         \/ run[r][t] # "none"
         \/ /\ at[r] = "running"
            /\ \A i, j \in DOMAIN plan[r] : i < j /\ plan[r][j] = t => run[r][plan[r][i]] = "done"
  PROVE  RoutingHolds'
<1>0. RoutingTypes /\ TaskHolds(r)
  BY DEF RoutingHolds
<1>1. UNCHANGED <<at, may, plan, declined, abreast, audits, registered>>
  BY DEF envVars, routeVars
<1>2. RoutingTypes'
  <2>1. run' \in [Tasks -> [Teams -> RunStates]]
    BY <1>0 DEF RoutingTypes
  <2>2. told' \in [Tasks -> [Teams -> Seq(Words)]]
    BY <1>0 DEF RoutingTypes
  <2>3. spends' \in [Tasks -> [Teams -> Nat]]
    BY <1>0 DEF RoutingTypes
  <2> QED BY <1>0, <1>1, <2>1, <2>2, <2>3 DEF RoutingTypes
<1>3. /\ run'[r][t] = where /\ told'[r][t] = said /\ spends'[r][t] = n
      /\ \A u \in Teams \ {t} : run'[r][u] = run[r][u] /\ told'[r][u] = told[r][u] /\ spends'[r][u] = spends[r][u]
  BY <1>0 DEF RoutingTypes
<1>4. \A s \in Tasks \ {r} : SameTask(s)
  BY <1>0, <1>1 DEF RoutingTypes, SameTask
<1>5. at[r] \notin Unrun
  BY <1>0 DEF TaskHolds, RunHolds, Unrun
<1>6. \A u \in Teams : RunSays(r, run'[r][u], told'[r][u], spends'[r][u])
  BY <1>0, <1>3 DEF TaskHolds, RunHolds
<1>7. \A u \in Teams : run[r][u] = "done" => run'[r][u] = "done"
  BY <1>3
<1>8. ToSet(plan[r]) \subseteq Teams /\ \A i \in DOMAIN plan[r] : plan[r][i] \in Teams
  BY <1>0, AnswersAre DEF RoutingTypes
<1>9. ASSUME ~abreast[r], NEW i \in DOMAIN plan[r], NEW j \in DOMAIN plan[r], i < j, run'[r][plan[r][j]] # "none"
      PROVE  run'[r][plan[r][i]] = "done"
  <2>1. run[r][plan[r][i]] = "done"
    <3>1. CASE run[r][plan[r][j]] # "none"
      BY <1>0, <1>9, <3>1 DEF TaskHolds, RunHolds
    <3>2. CASE run[r][plan[r][j]] = "none"
      <4>1. plan[r][j] = t
        BY <1>3, <1>8, <1>9, <3>2
      <4> QED BY <1>9, <3>2, <4>1
    <3> QED BY <3>1, <3>2
  <2> QED BY <1>7, <1>8, <2>1
<1>10. RunHolds(r)'
  <2>1. at'[r] = "answered" => \E u \in ToSet(plan'[r]) : run'[r][u] = "done"
    BY <1>0, <1>1, <1>7, <1>8 DEF TaskHolds, RunHolds
  <2>2. at'[r] \in {"refresh", "routed", "running"} => plan'[r] # <<>>
    BY <1>0, <1>1 DEF TaskHolds, RunHolds
  <2> QED BY <1>1, <1>5, <1>6, <1>9, <2>1, <2>2 DEF RunHolds
<1>11. DecisionTells(r)'
  BY <1>0, <1>1 DEF TaskHolds, DecisionTells
<1> QED BY <1>2, <1>4, <1>10, <1>11, OneTaskKept DEF TaskHolds

\* A part of the tables that is not written is as if it were written again.
LEMMA WrittenAgain ==
  ASSUME RoutingHolds, NEW r \in Tasks, NEW t \in Teams
  PROVE  /\ told = [told EXCEPT ![r][t] = told[r][t]] /\ told[r][t] \in Seq(Words)
         /\ spends = [spends EXCEPT ![r][t] = spends[r][t]] /\ spends[r][t] \in Nat
         /\ RunSays(r, run[r][t], told[r][t], spends[r][t])
BY DEF RoutingHolds, RoutingTypes, TaskHolds, RunHolds

LEMMA TellingOnce == ASSUME NEW S, NEW a \in S
                     PROVE  Append(<<>>, a) = <<a>> /\ <<>> \in Seq(S) /\ <<a>> \in Seq(S)
<1>1. <<>> \in Seq(S) /\ <<a>> \in Seq(S) /\ Len(<<>>) = 0 /\ Len(<<a>>) = 1 /\ <<a>>[1] = a
  OBVIOUS
<1>2. Append(<<>>, a) \in Seq(S) /\ Len(Append(<<>>, a)) = 1 /\ Append(<<>>, a)[1] = a
  BY <1>1, AppendProperties
<1>3. \A i \in 1 .. Len(<<a>>) : <<a>>[i] = Append(<<>>, a)[i]
  BY <1>1, <1>2
<1> QED BY <1>1, <1>2, <1>3, SeqEqual

LEMMA TellingTwice == ASSUME NEW S, NEW a \in S, NEW b \in S
                      PROVE  Append(<<a>>, b) = <<a, b>> /\ <<a, b>> \in Seq(S)
<1>1. /\ <<a>> \in Seq(S) /\ Len(<<a>>) = 1 /\ <<a>>[1] = a
      /\ <<a, b>> \in Seq(S) /\ Len(<<a, b>>) = 2 /\ <<a, b>>[1] = a /\ <<a, b>>[2] = b
  OBVIOUS
<1>2. /\ Append(<<a>>, b) \in Seq(S) /\ Len(Append(<<a>>, b)) = 2
      /\ Append(<<a>>, b)[1] = a /\ Append(<<a>>, b)[2] = b
  BY <1>1, AppendProperties
<1>3. \A i \in 1 .. Len(<<a, b>>) : <<a, b>>[i] = Append(<<a>>, b)[i]
  BY <1>1, <1>2
<1> QED BY <1>1, <1>2, <1>3, SeqEqual

LEMMA TellingThrice == ASSUME NEW S, NEW a \in S, NEW b \in S, NEW c \in S
                       PROVE  Append(<<a, b>>, c) = <<a, b, c>> /\ <<a, b, c>> \in Seq(S)
<1>1. /\ <<a, b>> \in Seq(S) /\ Len(<<a, b>>) = 2 /\ <<a, b>>[1] = a /\ <<a, b>>[2] = b
      /\ <<a, b, c>> \in Seq(S) /\ Len(<<a, b, c>>) = 3
      /\ <<a, b, c>>[1] = a /\ <<a, b, c>>[2] = b /\ <<a, b, c>>[3] = c
  OBVIOUS
<1>2. /\ Append(<<a, b>>, c) \in Seq(S) /\ Len(Append(<<a, b>>, c)) = 3
      /\ Append(<<a, b>>, c)[1] = a /\ Append(<<a, b>>, c)[2] = b /\ Append(<<a, b>>, c)[3] = c
  BY <1>1, AppendProperties
<1>3. \A i \in 1 .. Len(<<a, b, c>>) : <<a, b, c>>[i] = Append(<<a, b>>, c)[i]
  BY <1>1, <1>2
<1> QED BY <1>1, <1>2, <1>3, SeqEqual

LEMMA Telling ==
  /\ Append(<<>>, "started") = <<"started">>
  /\ Append(<<"started">>, "completed") = <<"started", "completed">>
  /\ Append(<<"started">>, "failed") = <<"started", "failed">>
  /\ Append(<<"started", "completed">>, "unrecorded") = <<"started", "completed", "unrecorded">>
  /\ <<"started">> \in Seq(Words) /\ <<"started", "completed">> \in Seq(Words)
  /\ <<"started", "failed">> \in Seq(Words) /\ <<>> \in Seq(Words)
  /\ <<"started", "completed", "unrecorded">> \in Seq(Words)
<1>1. "started" \in Words /\ "completed" \in Words /\ "failed" \in Words /\ "unrecorded" \in Words
  BY DEF Words
<1> QED BY <1>1, TellingOnce, TellingTwice, TellingThrice

LEMMA CheckedKept == ASSUME RoutingHolds, NEW r \in Tasks, NEW t \in Teams, Checked(r, t) PROVE RoutingHolds'
<1>1. PICK where \in {"at the gate", "refused"} : run' = [run EXCEPT ![r][t] = where]
  BY DEF Checked, Steps
<1>2. run[r][t] = "called" /\ UNCHANGED <<envVars, routeVars, told, spends>>
  BY DEF Checked
<1>3. RunSays(r, where, told[r][t], spends[r][t]) /\ where \in RunStates \ {"none"}
  BY <1>2, WrittenAgain DEF RunSays, RunStates
<1> QED BY <1>1, <1>2, <1>3, WrittenAgain, RunMoves

LEMMA GateAnswersKept ==
  ASSUME RoutingHolds, NEW r \in Tasks, NEW t \in Teams, NEW approved \in BOOLEAN, GateAnswers(r, t, approved)
  PROVE  RoutingHolds'
<1>1. run[r][t] = "at the gate" /\ UNCHANGED <<envVars, routeVars, spends>>
  BY DEF GateAnswers
<1>2. told[r][t] = <<>> /\ spends[r][t] = 0
  BY <1>1, WrittenAgain DEF RunSays
<1>3. CASE approved
  <2>1. run' = [run EXCEPT ![r][t] = "executing"] /\ told' = [told EXCEPT ![r][t] = <<"started">>]
    BY <1>2, <1>3, Telling DEF GateAnswers, Steps, Tells
  <2>2. RunSays(r, "executing", <<"started">>, spends[r][t]) /\ "executing" \in RunStates \ {"none"}
    BY <1>2 DEF RunSays, RunStates
  <2> QED BY <1>1, <2>1, <2>2, WrittenAgain, Telling, RunMoves
<1>4. CASE ~approved
  <2>1. run' = [run EXCEPT ![r][t] = "refused"] /\ told' = told
    BY <1>4 DEF GateAnswers, Steps
  <2>2. RunSays(r, "refused", told[r][t], spends[r][t]) /\ "refused" \in RunStates \ {"none"}
    BY <1>2 DEF RunSays, RunStates
  <2> QED BY <1>1, <2>1, <2>2, WrittenAgain, RunMoves
<1> QED BY <1>3, <1>4

LEMMA ExecutedKept ==
  ASSUME RoutingHolds, NEW r \in Tasks, NEW t \in Teams, NEW well \in BOOLEAN, Executed(r, t, well)
  PROVE  RoutingHolds'
<1>1. run[r][t] = "executing" /\ r \notin Unknown /\ UNCHANGED <<envVars, routeVars, spends>>
  BY DEF Executed
<1>2. told[r][t] = <<"started">> /\ spends[r][t] = 0
  BY <1>1, WrittenAgain DEF RunSays
<1>3. CASE well
  <2>1. run' = [run EXCEPT ![r][t] = "telling"] /\ told' = [told EXCEPT ![r][t] = <<"started", "completed">>]
    BY <1>2, <1>3, Telling DEF Executed, Steps, Tells
  <2>2. RunSays(r, "telling", <<"started", "completed">>, spends[r][t]) /\ "telling" \in RunStates \ {"none"}
    BY <1>2 DEF RunSays, RunStates
  <2> QED BY <1>1, <2>1, <2>2, WrittenAgain, Telling, RunMoves
<1>4. CASE ~well
  <2>1. run' = [run EXCEPT ![r][t] = "failed"] /\ told' = [told EXCEPT ![r][t] = <<"started", "failed">>]
    BY <1>2, <1>4, Telling DEF Executed, Steps, Tells
  <2>2. RunSays(r, "failed", <<"started", "failed">>, spends[r][t]) /\ "failed" \in RunStates \ {"none"}
    BY <1>1, <1>2 DEF RunSays, RunStates
  <2> QED BY <1>1, <2>1, <2>2, WrittenAgain, Telling, RunMoves
<1> QED BY <1>3, <1>4

LEMMA NoSuchModeKept == ASSUME RoutingHolds, NEW r \in Tasks, NEW t \in Teams, NoSuchMode(r, t) PROVE RoutingHolds'
<1>1. /\ run[r][t] = "executing" /\ r \in Unknown /\ run' = [run EXCEPT ![r][t] = "failed"]
      /\ UNCHANGED <<envVars, routeVars, told, spends>>
  BY DEF NoSuchMode, Steps
<1>2. RunSays(r, "failed", told[r][t], spends[r][t]) /\ "failed" \in RunStates \ {"none"}
  BY <1>1, WrittenAgain DEF RunSays, RunStates
<1> QED BY <1>1, <1>2, WrittenAgain, RunMoves

LEMMA RecordedKept ==
  ASSUME RoutingHolds, NEW r \in Tasks, NEW t \in Teams, NEW well \in BOOLEAN, Recorded(r, t, well)
  PROVE  RoutingHolds'
<1>1. /\ run[r][t] = "telling" /\ run' = [run EXCEPT ![r][t] = "done"] /\ "done" \in RunStates \ {"none"}
      /\ UNCHANGED <<envVars, routeVars>>
  BY DEF Recorded, Steps, RunStates
<1>2. told[r][t] = <<"started", "completed">> /\ spends[r][t] = 0
  BY <1>1, WrittenAgain DEF RunSays
<1>3. spends' = [spends EXCEPT ![r][t] = 1] \/ (~well /\ spends' = [spends EXCEPT ![r][t] = 0])
  <2>1. spends' = [spends EXCEPT ![r][t] = spends[r][t] + 1] \/ (~well /\ spends' = spends)
    BY DEF Recorded
  <2>2. spends = [spends EXCEPT ![r][t] = spends[r][t]] /\ spends[r][t] \in Nat
    BY WrittenAgain, Zenon
  <2>3. spends[r][t] + 1 = 1
    BY <1>2
  <2>4. spends = [spends EXCEPT ![r][t] = 0]
    BY <1>2, <2>2
  <2>5. [spends EXCEPT ![r][t] = spends[r][t] + 1] = [spends EXCEPT ![r][t] = 1]
    BY <2>3
  <2> QED BY <2>1, <2>4, <2>5
<1>4. CASE well
  <2>1. told' = [told EXCEPT ![r][t] = told[r][t]] /\ spends' = [spends EXCEPT ![r][t] = 1]
    BY <1>3, <1>4, WrittenAgain DEF Recorded
  <2>2. RunSays(r, "done", told[r][t], 1)
    BY <1>2 DEF RunSays
  <2> QED BY <1>1, <2>1, <2>2, WrittenAgain, RunMoves
<1>5. CASE ~well
  <2> DEFINE said == <<"started", "completed", "unrecorded">>
  <2>1. told' = [told EXCEPT ![r][t] = said] /\ said \in Seq(Words)
    BY <1>2, <1>5, Telling DEF Recorded, Tells
  <2>2. PICK n \in {0, 1} : spends' = [spends EXCEPT ![r][t] = n]
    BY <1>3
  <2>3. RunSays(r, "done", said, n)
    BY DEF RunSays
  <2> QED BY <1>1, <2>1, <2>2, <2>3, RunMoves
<1> QED BY <1>4, <1>5

LEMMA NextTeamKept == ASSUME RoutingHolds, NEW r \in Tasks, NEW i \in 1..2, NextTeam(r, i) PROVE RoutingHolds'
<1>0. RoutingTypes /\ TaskHolds(r) /\ plan[r] \in Answers
  BY DEF RoutingHolds, RoutingTypes
<1> DEFINE t == plan[r][i + 1]
<1>1. /\ at[r] = "running" /\ ~abreast[r] /\ i < Len(plan[r]) /\ run[r][plan[r][i]] = "done" /\ run[r][t] = "none"
      /\ run' = [run EXCEPT ![r][t] = "called"] /\ UNCHANGED <<envVars, routeVars, told, spends>>
  BY DEF NextTeam, Steps
<1>2. /\ i \in DOMAIN plan[r] /\ i + 1 \in DOMAIN plan[r] /\ t \in Teams
      /\ \A j \in DOMAIN plan[r] : j \in Nat /\ (plan[r][j] = t => j = i + 1)
  <2>1. i \in Nat /\ i >= 1 /\ i + 1 \in Nat /\ Len(plan[r]) \in Nat
    BY <1>0, AnswersAre
  <2>2. i \in DOMAIN plan[r] /\ i + 1 \in DOMAIN plan[r]
    BY <1>0, <1>1, <2>1, AnswersAre
  <2>3. t \in Teams
    BY <1>0, <2>2, AnswersAre
  <2>4. \A j \in DOMAIN plan[r] : j \in Nat /\ (plan[r][j] = t => j = i + 1)
    BY <1>0, <2>2, AnswersAre
  <2> QED BY <2>2, <2>3, <2>4
<1>3. ASSUME NEW k \in DOMAIN plan[r], NEW j \in DOMAIN plan[r], k < j, plan[r][j] = t
      PROVE  run[r][plan[r][k]] = "done"
  <2>1. j = i + 1 /\ k \in Nat
    BY <1>2, <1>3
  <2>2. CASE k = i
    BY <1>1, <2>2
  <2>3. CASE k < i
    BY <1>0, <1>1, <1>2, <2>3 DEF TaskHolds, RunHolds
  <2> QED BY <1>3, <2>1, <2>2, <2>3
<1> HIDE DEF t
<1>4. RunSays(r, "called", told[r][t], spends[r][t]) /\ "called" \in RunStates \ {"none"}
  BY <1>1, <1>2, WrittenAgain DEF RunSays, RunStates
<1> QED BY <1>1, <1>2, <1>3, <1>4, WrittenAgain, RunMoves

LEMMA ReturnedKept == ASSUME RoutingHolds, NEW r \in Tasks, Returned(r) PROVE RoutingHolds'
<1>0. RoutingTypes /\ TaskHolds(r) /\ plan[r] \in Answers /\ plan[r] # <<>>
  BY DEF RoutingHolds, RoutingTypes, TaskHolds, RunHolds, Returned
<1> DEFINE done == {t \in Reached(r) : run[r][t] = "done"}
<1>1. /\ at[r] = "running" /\ UNCHANGED <<envVars, may, plan, declined, abreast, audits, runVars>>
      /\ \/ done = ToSet(plan[r]) /\ at' = [at EXCEPT ![r] = "answered"]
         \/ done # {} /\ abreast[r] /\ at' = [at EXCEPT ![r] = "answered"]
         \/ Reached(r) # done /\ ~(abreast[r] /\ done # {}) /\ at' = [at EXCEPT ![r] = "error"]
  BY DEF Returned
<1>2. /\ at'[r] \in {"answered", "error"} /\ at' \in [Tasks -> AtStates]
      /\ \A s \in Tasks \ {r} : at'[s] = at[s]
  BY <1>0, <1>1 DEF RoutingTypes, AtStates
<1>3. at'[r] = "answered" => \E t \in ToSet(plan[r]) : run[r][t] = "done"
  <2>1. done \subseteq ToSet(plan[r]) /\ \A t \in done : run[r][t] = "done"
    BY DEF Reached
  <2>2. plan[r][1] \in ToSet(plan[r])
    BY <1>0, AnswersAre
  <2>3. at'[r] = "answered" => done # {}
    BY <1>0, <1>1, <2>2 DEF RoutingTypes
  <2> QED BY <2>1, <2>3
<1>4. RoutingTypes'
  BY <1>0, <1>1, <1>2 DEF RoutingTypes, envVars, runVars
<1>5. \A s \in Tasks \ {r} : SameTask(s)
  BY <1>1, <1>2 DEF SameTask, runVars
<1>6. RunHolds(r)'
  BY <1>0, <1>1, <1>2, <1>3 DEF TaskHolds, RunHolds, runVars, Unrun
<1>7. DecisionTells(r)'
  BY <1>0, <1>1, <1>2 DEF TaskHolds, DecisionTells
<1> QED BY <1>4, <1>5, <1>6, <1>7, OneTaskKept DEF TaskHolds

LEMMA TaskCancelledKept == ASSUME RoutingHolds, NEW r \in Tasks, TaskCancelled(r) PROVE RoutingHolds'
<1>0. RoutingTypes /\ TaskHolds(r) /\ \A i \in DOMAIN plan[r] : plan[r][i] \in Teams
  BY AnswersAre DEF RoutingHolds, RoutingTypes
<1> DEFINE then == [t \in Teams |->
                      IF run[r][t] \in {"called", "at the gate", "executing", "telling"} THEN "cancelled" ELSE run[r][t]]
<1>1. /\ at' = [at EXCEPT ![r] = "cancelled"] /\ run' = [run EXCEPT ![r] = then]
      /\ UNCHANGED <<envVars, may, plan, declined, abreast, audits, told, spends>>
  BY DEF TaskCancelled
<1>2. \A t \in Teams : \/ then[t] = run[r][t]
                       \/ then[t] = "cancelled" /\ run[r][t] \notin {"none", "done"}
  OBVIOUS
<1>3. then \in [Teams -> RunStates]
  <2>1. run[r] \in [Teams -> RunStates] /\ "cancelled" \in RunStates
    BY <1>0 DEF RoutingTypes, RunStates
  <2>2. \A t \in Teams : then[t] \in RunStates
    BY <2>1, <1>2
  <2> QED BY <2>2
<1> HIDE DEF then
<1>4. RoutingTypes'
  <2>1. at' \in [Tasks -> AtStates] /\ run' \in [Tasks -> [Teams -> RunStates]]
    BY <1>0, <1>1, <1>3 DEF RoutingTypes, AtStates
  <2> QED BY <1>0, <1>1, <2>1 DEF RoutingTypes, envVars
<1>5. at'[r] = "cancelled" /\ run'[r] = then
  BY <1>0, <1>1 DEF RoutingTypes
<1>6. \A s \in Tasks \ {r} : SameTask(s)
  BY <1>0, <1>1 DEF RoutingTypes, SameTask
<1>7. RunHolds(r)'
  <2>1. ASSUME NEW t \in Teams PROVE RunSays(r, then[t], told[r][t], spends[r][t])
    <3>1. RunSays(r, run[r][t], told[r][t], spends[r][t])
      BY <1>0 DEF TaskHolds, RunHolds
    <3>2. CASE then[t] = run[r][t]
      BY <3>1, <3>2
    <3>3. CASE then[t] = "cancelled" /\ run[r][t] \notin {"none", "done"}
      BY <3>1, <3>3 DEF RunSays
    <3> QED BY <1>2, <3>2, <3>3
  <2>2. ASSUME ~abreast[r], NEW i \in DOMAIN plan[r], NEW j \in DOMAIN plan[r], i < j, then[plan[r][j]] # "none"
        PROVE  then[plan[r][i]] = "done"
    <3>1. run[r][plan[r][j]] # "none"
      BY <1>0, <1>2, <2>2
    <3>2. run[r][plan[r][i]] = "done"
      BY <1>0, <2>2, <3>1 DEF TaskHolds, RunHolds
    <3> QED BY <1>0, <1>2, <3>2
  <2> QED BY <1>1, <1>5, <2>1, <2>2 DEF RunHolds, Unrun
<1>8. DecisionTells(r)'
  BY <1>5 DEF DecisionTells
<1> QED BY <1>4, <1>6, <1>7, <1>8, OneTaskKept DEF TaskHolds

\* Companies come, go and change, and nothing that was decided changes with them.
LEMMA EnvStepKept == ASSUME RoutingHolds, EnvStep \/ UNCHANGED trVars PROVE RoutingHolds'
<1>1. registered' \subseteq Teams
  BY DEF EnvStep, SetUp, TearDown, Shares, RoutingHolds, RoutingTypes, trVars, envVars
<1>2. UNCHANGED <<routeVars, runVars>>
  BY DEF EnvStep, SetUp, TearDown, Shares, trVars
<1>3. RoutingTypes'
  BY <1>1, <1>2 DEF RoutingHolds, RoutingTypes, routeVars, runVars
<1>4. \A s \in Tasks : SameTask(s)
  BY <1>2 DEF SameTask, routeVars, runVars
<1> QED BY <1>3, <1>4, SameTaskHolds DEF RoutingHolds

LEMMA RoutingKept ==
  RoutingHolds /\ [EnvStep \/ \E r \in Tasks : TaskStep(r)]_trVars => RoutingHolds'
<1>1. ASSUME RoutingHolds, EnvStep \/ UNCHANGED trVars PROVE RoutingHolds'
  BY <1>1, EnvStepKept
<1>2. ASSUME RoutingHolds, NEW r \in Tasks, TaskStep(r) PROVE RoutingHolds'
  <2>1. ASSUME RunAuto(r) \/ Refreshed(r) \/ Returned(r) \/ TaskCancelled(r) PROVE RoutingHolds'
    BY <1>2, <2>1, RunAutoKept, RefreshedKept, ReturnedKept, TaskCancelledKept
  <2>2. ASSUME NEW named \in Answers, NEW parallel \in BOOLEAN, ModelAnswers(r, named, parallel)
        PROVE  RoutingHolds'
    BY <1>2, <2>2, ModelAnswersKept
  <2>3. ASSUME NEW i \in 1..2, NextTeam(r, i) PROVE RoutingHolds'
    BY <1>2, <2>3, NextTeamKept
  <2>4. ASSUME NEW t \in Teams, Checked(r, t) \/ NoSuchMode(r, t) PROVE RoutingHolds'
    BY <1>2, <2>4, CheckedKept, NoSuchModeKept
  <2>5. ASSUME NEW t \in Teams, NEW well \in BOOLEAN,
               GateAnswers(r, t, well) \/ Executed(r, t, well) \/ Recorded(r, t, well)
        PROVE  RoutingHolds'
    BY <1>2, <2>5, GateAnswersKept, ExecutedKept, RecordedKept
  <2> QED BY <1>2, <2>1, <2>2, <2>3, <2>4, <2>5 DEF TaskStep
<1> QED BY <1>1, <1>2

LEMMA RoutingTells == RoutingHolds => DecisionsHold /\ RunsAreTold
<1> SUFFICES ASSUME RoutingHolds PROVE DecisionsHold /\ RunsAreTold
  OBVIOUS
<1>1. DecisionsHold
  BY DEF RoutingHolds, TaskHolds, DecisionTells, Direct, DecisionsHold
<1>2. ASSUME NEW r \in Tasks, NEW t \in Teams
      PROVE  /\ told[r][t] \in CASE run[r][t] \in {"none", "called", "at the gate", "refused"} -> {<<>>}
                                [] run[r][t] = "executing" -> {<<"started">>}
                                [] run[r][t] = "telling" -> {<<"started", "completed">>}
                                [] run[r][t] = "done" -> {<<"started", "completed">>, <<"started", "completed", "unrecorded">>}
                                [] run[r][t] = "cancelled" -> {told[r][t]}
                                [] run[r][t] = "failed" -> {IF r \in Unknown THEN <<"started">> ELSE <<"started", "failed">>}
             /\ spends[r][t] \in IF run[r][t] # "done" THEN {0} ELSE IF Len(told[r][t]) = 2 THEN {1} ELSE {0, 1}
  <2>1. run[r][t] \in RunStates /\ RunSays(r, run[r][t], told[r][t], spends[r][t])
    BY DEF RoutingHolds, RoutingTypes, TaskHolds, RunHolds
  <2>2. Len(<<"started", "completed", "unrecorded">>) = 3 /\ Len(<<"started", "completed">>) = 2
    OBVIOUS
  <2>3. CASE run[r][t] = "done"
    <3>1. CASE told[r][t] = <<"started", "completed">> /\ spends[r][t] = 1
      BY <2>2, <2>3, <3>1
    <3>2. CASE told[r][t] = <<"started", "completed", "unrecorded">> /\ spends[r][t] \in {0, 1}
      BY <2>2, <2>3, <3>2
    <3> QED BY <2>1, <2>3, <3>1, <3>2 DEF RunSays
  <2>4. CASE run[r][t] # "done"
    BY <2>1, <2>4 DEF RunSays, RunStates
  <2> QED BY <2>3, <2>4
<1>3. ASSUME NEW r \in Tasks
      PROVE  /\ ~abreast[r] => \A i, j \in DOMAIN plan[r] :
                  i < j /\ run[r][plan[r][j]] # "none" => run[r][plan[r][i]] = "done"
             /\ at[r] = "answered" => \E t \in ToSet(plan[r]) : run[r][t] = "done"
  BY DEF RoutingHolds, TaskHolds, RunHolds
<1>4. RunsAreTold
  BY <1>2, <1>3 DEF RunsAreTold
<1> QED BY <1>1, <1>4

\* Whatever teams, companies, tags and bindings there are and however they change
\* while a task waits: what is decided was open to the task when its routing
\* started, is no meta-team and was told once.
THEOREM DecisionsStand == RoutingSpec => []DecisionsHold
BY RoutingStarts, RoutingKept, RoutingTells, PTL DEF RoutingSpec

\* A run is told of from its start to its one end and charged once if it was done, but
\* for a record that failed; a team in sequence starts after those before it, and an
\* answer rests on one.
THEOREM RunsStayTold == RoutingSpec => []RunsAreTold
BY RoutingStarts, RoutingKept, RoutingTells, PTL DEF RoutingSpec

-----------------------------------------------------------------------------
(* The event stream: every event keeps the number under which it was stored  *)
(* and announced, and every connection sees the numbers rise.                *)

EmitSteps == {"new", "waits", "inserting", "committing", "announced", "lost"}
Busy  == {"waits", "inserting", "committing"}

\* Every variable has its type.
StreamTypes ==
  /\ emitting \in [Events -> EmitSteps] /\ holders \in Seq(Events) /\ rows \in Seq(Events)
  /\ committed \in Nat /\ sequence \in Nat
  /\ socket \in [Consoles -> {"off", "open", "closed"}]
  /\ queue \in [Consoles -> Seq(Nat)] /\ sent \in [Consoles -> Seq(Nat)]
  /\ known \in [Consoles -> Nat] /\ dropped \in [Consoles -> SUBSET Nat]

\* No value stands twice in s.
NoTwice(s) == \A i, k \in 1..Len(s) : s[i] = s[k] => i = k

\* The line of _event_sequence_lock holds every emitter under way once, and all of
\* them but the first wait.
LineHolds ==
  /\ NoTwice(holders)
  /\ \A e \in Events : emitting[e] \in Busy <=> \E i \in 1..Len(holders) : holders[i] = e
  /\ \A i \in 1..Len(holders) : emitting[holders[i]] = "waits" <=> i # 1

\* An event is stored once; the one about to be committed is the last row, and what
\* was announced is committed, under the number it was announced with.
RowsHold ==
  /\ NoTwice(rows)
  /\ \A i \in 1..Len(rows) : emitting[rows[i]] \in {"committing", "announced", "lost"}
  /\ \A e \in Events : emitting[e] = "committing" => committed < Len(rows) /\ rows[Len(rows)] = e
  /\ sequence <= committed /\ committed <= Len(rows)
  /\ \A n \in DOMAIN announced : n \in 1..sequence /\ rows[n] = announced[n]

\* What a connection was sent and will be sent.
Seen(c) == sent[c] \o queue[c]

\* A connection's numbers are those of ready, in order, to the server's last one,
\* without those its queue did not take.
ConsoleHolds(c) ==
  /\ Len(sent[c]) > 0
  /\ Increasing(Seen(c))
  /\ \A i \in 1..Len(Seen(c)) : Seen(c)[i] <= sequence
  /\ \A n \in DOMAIN announced :
       n > sent[c][1] => n \in dropped[c] \/ \E i \in 1..Len(Seen(c)) : Seen(c)[i] = n

ConsolesHold ==
  /\ \A c \in Consoles : known[c] <= sequence
  /\ \A c \in Subscribed : ConsoleHolds(c)

\* The inductive invariant.
StreamInv == StreamTypes /\ LineHolds /\ RowsHold /\ ConsolesHold

-----------------------------------------------------------------------------
(* Lines and queues. *)

\* A line without its n-th place.
LEMMA Removal ==
  ASSUME NEW S, NEW s \in Seq(S), NEW n \in 1..Len(s)
  PROVE  /\ RemoveAt(s, n) \in Seq(S) /\ Len(RemoveAt(s, n)) = Len(s) - 1
         /\ \A i \in 1..(Len(s) - 1) : RemoveAt(s, n)[i] = IF i < n THEN s[i] ELSE s[i + 1]
<1> DEFINE a == SubSeq(s, 1, n - 1)
           b == SubSeq(s, n + 1, Len(s))
           m == Len(s)
<1>1. m \in Nat /\ n \in 1..m
  OBVIOUS
<1>2. /\ a \in Seq(S) /\ Len(a) = n - 1 /\ \A i \in 1..(n - 1) : a[i] = s[i]
  BY <1>1, SubSeqProperties
<1>3. /\ b \in Seq(S) /\ Len(b) = m - n /\ \A i \in 1..(m - n) : b[i] = s[n + i]
  BY <1>1, SubSeqProperties
<1>4. RemoveAt(s, n) = a \o b
  BY DEF RemoveAt
<1> HIDE DEF a, b
<1>5. /\ a \o b \in Seq(S) /\ Len(a \o b) = Len(a) + Len(b)
      /\ \A i \in 1..(Len(a) + Len(b)) : (a \o b)[i] = IF i <= Len(a) THEN a[i] ELSE b[i - Len(a)]
  BY <1>2, <1>3, ConcatProperties
<1> HIDE DEF m
<1>6. ASSUME NEW i \in 1..(m - 1) PROVE (a \o b)[i] = IF i < n THEN s[i] ELSE s[i + 1]
  <2>1. i \in 1..(Len(a) + Len(b)) /\ i \in Nat
    BY <1>1, <1>2, <1>3
  <2>2. CASE i < n
    <3>1. i \in 1..(n - 1) /\ i <= Len(a)
      BY <1>1, <1>2, <2>1, <2>2
    <3> QED BY <3>1, <2>1, <2>2, <1>2, <1>5
  <2>3. CASE ~(i < n)
    <3>1. i - (n - 1) \in 1..(m - n) /\ n + (i - (n - 1)) = i + 1 /\ ~(i <= Len(a))
      BY <1>1, <1>2, <2>1, <2>3
    <3>2. (a \o b)[i] = b[i - (n - 1)]
      BY <3>1, <2>1, <1>2, <1>5
    <3>3. b[i - (n - 1)] = s[n + (i - (n - 1))]
      BY <3>1, <1>3
    <3> QED BY <3>1, <3>2, <3>3, <2>3
  <2> QED BY <2>2, <2>3
<1>7. Len(a \o b) = m - 1
  BY <1>1, <1>2, <1>3, <1>5
<1> QED BY <1>4, <1>5, <1>6, <1>7 DEF m

\* The first in the line inserts, if it waited.
LEMMA LeadIs ==
  ASSUME NEW steps \in [Events -> EmitSteps], NEW l \in Seq(Events)
  PROVE  /\ Lead(steps, l) \in [Events -> EmitSteps]
         /\ \A e \in Events : Lead(steps, l)[e] =
              IF Len(l) > 0 /\ e = l[1] /\ steps[e] = "waits" THEN "inserting" ELSE steps[e]
<1>1. CASE l = << >>
  BY <1>1 DEF Lead
<1>2. CASE l # << >>
  <2>1. Len(l) > 0 /\ Head(l) = l[1] /\ l[1] \in Events
    BY <1>2
  <2> QED BY <1>2, <2>1 DEF Lead, EmitSteps
<1> QED BY <1>1, <1>2

\* What is sent from the head of the queue has been seen already.
LEMMA Shift ==
  ASSUME NEW s \in Seq(Nat), NEW q \in Seq(Nat), q # << >>
  PROVE  /\ Append(s, Head(q)) \o Tail(q) = s \o q
         /\ Append(s, Head(q)) \in Seq(Nat) /\ Tail(q) \in Seq(Nat) /\ Head(q) \in Nat
         /\ Len(Append(s, Head(q))) > 0
         /\ Len(s) > 0 => Append(s, Head(q))[1] = s[1]
         /\ \E i \in 1..Len(s \o q) : (s \o q)[i] = Head(q)
<1> DEFINE a == Append(s, Head(q))
           b == Tail(q)
<1>1. /\ Len(q) \in Nat \ {0} /\ Head(q) = q[1] /\ Head(q) \in Nat
      /\ b \in Seq(Nat) /\ Len(b) = Len(q) - 1 /\ \A i \in 1..Len(b) : b[i] = q[i + 1]
  OBVIOUS
<1>2. /\ a \in Seq(Nat) /\ Len(a) = Len(s) + 1 /\ a[Len(s) + 1] = q[1]
      /\ \A i \in 1..Len(s) : a[i] = s[i]
  BY <1>1
<1>3. /\ s \o q \in Seq(Nat) /\ Len(s \o q) = Len(s) + Len(q)
      /\ \A i \in 1..(Len(s) + Len(q)) : (s \o q)[i] = IF i <= Len(s) THEN s[i] ELSE q[i - Len(s)]
  BY ConcatProperties
<1> HIDE DEF a, b
<1>4. /\ a \o b \in Seq(Nat) /\ Len(a \o b) = Len(a) + Len(b)
      /\ \A i \in 1..(Len(a) + Len(b)) : (a \o b)[i] = IF i <= Len(a) THEN a[i] ELSE b[i - Len(a)]
  BY <1>1, <1>2, ConcatProperties
<1>5. Len(s) \in Nat /\ Len(a \o b) = Len(s \o q)
  BY <1>1, <1>2, <1>3, <1>4
<1>6. ASSUME NEW i \in 1..Len(s \o q) PROVE (a \o b)[i] = (s \o q)[i]
  <2>1. i \in 1..(Len(s) + Len(q)) /\ i \in 1..(Len(a) + Len(b)) /\ i \in Nat
    BY <1>3, <1>4, <1>5
  <2>2. CASE i <= Len(s)
    BY <2>1, <2>2, <1>2, <1>3, <1>4, <1>5
  <2>3. CASE i = Len(s) + 1
    BY <2>1, <2>3, <1>1, <1>2, <1>3, <1>4, <1>5
  <2>4. CASE i > Len(s) + 1
    <3>1. i - (Len(s) + 1) \in 1..Len(b) /\ (i - (Len(s) + 1)) + 1 = i - Len(s)
      BY <2>1, <2>4, <1>1, <1>2, <1>5
    <3>2. (a \o b)[i] = b[i - (Len(s) + 1)]
      <4>1. Len(a) = Len(s) + 1 /\ ~(i <= Len(a))
        BY <2>1, <2>4, <1>2, <1>5
      <4>2. (a \o b)[i] = b[i - Len(a)]
        BY <2>1, <4>1, <1>4
      <4> QED BY <4>1, <4>2
    <3>3. (s \o q)[i] = q[i - Len(s)]
      BY <2>1, <2>4, <1>3, <1>5
    <3>4. b[i - (Len(s) + 1)] = q[(i - (Len(s) + 1)) + 1]
      BY <3>1, <1>1
    <3>5. b[i - (Len(s) + 1)] = q[i - Len(s)]
      BY <3>1, <3>4
    <3> QED BY <3>2, <3>3, <3>5
  <2> QED BY <2>1, <2>2, <2>3, <2>4, <1>5
<1>7. a \o b = s \o q
  <2>1. \A i \in 1..Len(s \o q) : (a \o b)[i] = (s \o q)[i]
    BY <1>6
  <2> QED BY <2>1, <1>3, <1>4, <1>5, SeqEqual
<1>8. Len(s) + 1 \in 1..Len(s \o q) /\ (s \o q)[Len(s) + 1] = q[1]
  BY <1>1, <1>3, <1>5
<1>9. Len(a) > 0 /\ (Len(s) > 0 => a[1] = s[1])
  BY <1>2, <1>5
<1>10. \E i \in 1..Len(s \o q) : (s \o q)[i] = Head(q)
  BY <1>1, <1>8
<1> QED BY <1>1, <1>2, <1>7, <1>9, <1>10 DEF a, b

\* A number behind all that are seen keeps their order.
LEMMA AppendSeen ==
  ASSUME NEW s \in Seq(Nat), NEW q \in Seq(Nat), NEW n \in Nat
  PROVE  /\ s \o Append(q, n) = Append(s \o q, n)
         /\ s \o q \in Seq(Nat) /\ Append(q, n) \in Seq(Nat)
<1>1. /\ Append(q, n) = q \o <<n>> /\ Append(q, n) \in Seq(Nat)
      /\ <<n>> \in Seq(Nat) /\ s \o q \in Seq(Nat)
  BY AppendIsConcat, AppendProperties, ConcatProperties
<1>2. Append(s \o q, n) = (s \o q) \o <<n>>
  BY <1>1, AppendIsConcat
<1>3. (s \o q) \o <<n>> = s \o (q \o <<n>>)
  BY <1>1, ConcatAssociative
<1> QED BY <1>1, <1>2, <1>3

-----------------------------------------------------------------------------
(* Typing. *)

\* What an emitter under way has in the store.
LEMMA Committing ==
  ASSUME StreamTypes, RowsHold, NEW e \in Events, emitting[e] = "committing"
  PROVE  /\ NumberOf(e) = Len(rows) /\ Len(rows) \in Nat /\ Len(rows) \in 1..Len(rows)
         /\ rows[Len(rows)] = e /\ committed < Len(rows)
<1>1. rows[Len(rows)] = e /\ committed < Len(rows) /\ Len(rows) \in Nat /\ committed \in Nat
  BY DEF RowsHold, StreamTypes
<1>2. Len(rows) \in 1..Len(rows) /\ DOMAIN rows = 1..Len(rows)
  BY <1>1 DEF StreamTypes
<1>3. NumberOf(e) \in 1..Len(rows) /\ rows[NumberOf(e)] = e
  BY <1>1, <1>2 DEF NumberOf
<1>4. NumberOf(e) = Len(rows)
  BY <1>1, <1>2, <1>3 DEF RowsHold, NoTwice
<1> QED BY <1>1, <1>2, <1>4

\* The emitter in the store is the first in the line, and alone there.
LEMMA LockHeld ==
  ASSUME StreamTypes, LineHolds, NEW e \in Events, emitting[e] \in {"inserting", "committing"}
  PROVE  /\ Len(holders) \in Nat /\ 1 \in 1..Len(holders) /\ holders[1] = e /\ holders # << >>
         /\ \A q \in Events : emitting[q] \in {"inserting", "committing"} => q = e
<1>1. Len(holders) \in Nat
  BY DEF StreamTypes
<1>2. ASSUME NEW q \in Events, emitting[q] \in {"inserting", "committing"}
      PROVE  1 \in 1..Len(holders) /\ holders[1] = q
  <2>1. PICK i \in 1..Len(holders) : holders[i] = q
    BY <1>2 DEF LineHolds, Busy
  <2>2. i = 1
    BY <2>1, <1>2 DEF LineHolds
  <2> QED BY <2>1, <2>2
<1> QED BY <1>1, <1>2

\* An emitter under way has a place in the line.
LEMMA InLine ==
  ASSUME StreamTypes, LineHolds, NEW e \in Events, emitting[e] \in Busy
  PROVE  \E i \in 1..Len(holders) : holders[i] = e
BY DEF LineHolds

LEMMA StreamTypesNext ==
  StreamTypes /\ LineHolds /\ RowsHold /\ [StreamNext]_streamVars => StreamTypes'
<1> SUFFICES ASSUME StreamTypes, LineHolds, RowsHold, [StreamNext]_streamVars PROVE StreamTypes'
  OBVIOUS
<1> USE DEF StreamTypes
<1>1. ASSUME NEW e \in Events, Broadcast(e) PROVE StreamTypes'
  <2>1. holders' \in Seq(Events) /\ [emitting EXCEPT ![e] = "waits"] \in [Events -> EmitSteps]
    BY <1>1 DEF Broadcast, EmitSteps
  <2>2. emitting' \in [Events -> EmitSteps]
    BY <1>1, <2>1, LeadIs DEF Broadcast
  <2> QED BY <1>1, <2>1, <2>2 DEF Broadcast, socketVars
<1>2. ASSUME NEW e \in Events, Inserted(e) PROVE StreamTypes'
  BY <1>2 DEF Inserted, EmitSteps, socketVars
<1>3. ASSUME NEW e \in Events, Announce(e) PROVE StreamTypes'
  <2> DEFINE n == NumberOf(e)
  <2>0. emitting[e] = "committing"
    BY <1>3 DEF Announce
  <2>1. n \in Nat /\ Len(rows) \in Nat
    BY <2>0, Committing
  <2> HIDE DEF n
  <2>2. \A c \in Consoles : Append(queue[c], n) \in Seq(Nat)
    BY <2>1
  <2>3. /\ queue' \in [Consoles -> Seq(Nat)] /\ dropped' \in [Consoles -> SUBSET Nat]
    BY <1>3, <2>1, <2>2 DEF Announce, n
  <2>4. holders # << >>
    BY <2>0, LockHeld
  <2>5. holders' \in Seq(Events) /\ [emitting EXCEPT ![e] = "announced"] \in [Events -> EmitSteps]
    BY <1>3, <2>4 DEF Announce, EmitSteps
  <2>6. emitting' \in [Events -> EmitSteps]
    BY <1>3, <2>5, LeadIs DEF Announce
  <2>7. committed' \in Nat /\ sequence' \in Nat /\ UNCHANGED <<rows, socket, sent, known>>
    BY <1>3, <2>1 DEF Announce, n
  <2> QED BY <2>3, <2>5, <2>6, <2>7
<1>4. ASSUME NEW e \in Events, Abandon(e) PROVE StreamTypes'
  <2>1. PICK i \in 1..Len(holders) : holders' = RemoveAt(holders, i)
    BY <1>4 DEF Abandon
  <2>2. holders' \in Seq(Events) /\ [emitting EXCEPT ![e] = "lost"] \in [Events -> EmitSteps]
    BY <2>1, Removal DEF EmitSteps
  <2>3. emitting' \in [Events -> EmitSteps]
    BY <1>4, <2>2, LeadIs DEF Abandon
  <2>4. rows' \in Seq(Events) /\ committed' \in Nat
    BY <1>4 DEF Abandon
  <2> QED BY <1>4, <2>2, <2>3, <2>4 DEF Abandon, socketVars
<1>5. ASSUME NEW e \in Events, StoreFails(e) PROVE StreamTypes'
  <2>1. holders # << >>
    BY <1>5, LockHeld DEF StoreFails
  <2>2. holders' \in Seq(Events) /\ [emitting EXCEPT ![e] = "lost"] \in [Events -> EmitSteps]
    BY <1>5, <2>1 DEF StoreFails, EmitSteps
  <2>3. emitting' \in [Events -> EmitSteps]
    BY <1>5, <2>2, LeadIs DEF StoreFails
  <2> QED BY <1>5, <2>2, <2>3 DEF StoreFails, socketVars
<1>6. ASSUME NEW c \in Consoles, ConsoleConnects(c) PROVE StreamTypes'
  BY <1>6 DEF ConsoleConnects, storeVars
<1>7. ASSUME NEW c \in Consoles, Send(c) PROVE StreamTypes'
  <2>1. CASE queue[c] # << >> /\ queue' = [queue EXCEPT ![c] = Tail(@)]
             /\ sent' = [sent EXCEPT ![c] = Append(@, Head(queue[c]))]
             /\ known' = [known EXCEPT ![c] = Head(queue[c])]
    <3>1. /\ Append(sent[c], Head(queue[c])) \in Seq(Nat) /\ Tail(queue[c]) \in Seq(Nat)
          /\ Head(queue[c]) \in Nat
      BY <2>1, Shift
    <3> QED BY <1>7, <2>1, <3>1 DEF Send, storeVars
  <2>2. CASE known' = [known EXCEPT ![c] = sequence] /\ UNCHANGED <<queue, sent>>
    BY <1>7, <2>2 DEF Send, storeVars
  <2> QED BY <1>7, <2>1, <2>2 DEF Send
<1>8. ASSUME NEW c \in Consoles, ReadyFails(c) \/ Close(c) \/ SendFails(c) \/ ListEvents(c)
      PROVE  StreamTypes'
  BY <1>8 DEF ReadyFails, Close, SendFails, ListEvents, storeVars
<1>9. CASE StreamRestart
  <2>1. SubSeq(rows, 1, committed) \in Seq(Events)
    <3>1. \A i \in 1..committed : i \in 1..Len(rows)
      BY DEF RowsHold
    <3> QED BY <3>1, SubSeqProperties DEF RowsHold
  <2> QED BY <1>9, <2>1 DEF StreamRestart, EmitSteps
<1>10. CASE UNCHANGED streamVars
  BY <1>10 DEF streamVars
<1> QED BY <1>1, <1>2, <1>3, <1>4, <1>5, <1>6, <1>7, <1>8, <1>9, <1>10 DEF StreamNext

-----------------------------------------------------------------------------
(* The line of the lock. *)

\* The line stays as it is, and so does who waits in it.
LEMMA LineStays ==
  ASSUME StreamTypes, LineHolds, holders' = holders,
         \A e \in Events : /\ emitting'[e] \in Busy <=> emitting[e] \in Busy
                           /\ emitting'[e] = "waits" <=> emitting[e] = "waits"
  PROVE  LineHolds'
<1>1. \A i \in 1..Len(holders) : holders[i] \in Events
  BY DEF StreamTypes
<1> QED BY <1>1 DEF LineHolds, NoTwice

\* An emitter leaves the line, and the next one leads it.
LEMMA LineLeaves ==
  ASSUME StreamTypes, LineHolds, NEW n \in 1..Len(holders), NEW out \in {"announced", "lost"},
         holders' = RemoveAt(holders, n),
         emitting' = Lead([emitting EXCEPT ![holders[n]] = out], holders')
  PROVE  LineHolds'
<1> DEFINE e == holders[n]
           m == Len(holders)
           next == holders'
<1>1. /\ m \in Nat /\ n \in 1..m /\ e \in Events /\ \A i \in 1..m : holders[i] \in Events
      /\ emitting \in [Events -> EmitSteps]
  BY DEF StreamTypes
<1>2. /\ next \in Seq(Events) /\ Len(next) = m - 1
      /\ \A i \in 1..(m - 1) : next[i] = IF i < n THEN holders[i] ELSE holders[i + 1]
  BY Removal DEF StreamTypes
<1>3. [emitting EXCEPT ![e] = out] \in [Events -> EmitSteps]
  BY <1>1 DEF EmitSteps
<1>4. /\ emitting'[e] = out
      /\ \A q \in Events : q # e => emitting'[q] =
           IF m - 1 > 0 /\ q = next[1] /\ emitting[q] = "waits" THEN "inserting" ELSE emitting[q]
  <2> DEFINE steps == [emitting EXCEPT ![e] = out]
  <2>1. steps[e] = out /\ \A q \in Events : q # e => steps[q] = emitting[q]
    BY <1>1
  <2>2. steps \in [Events -> EmitSteps] /\ emitting' = Lead(steps, next)
    BY <1>3
  <2> HIDE DEF steps, next, e, m
  <2>3. \A q \in Events : emitting'[q] =
          IF Len(next) > 0 /\ q = next[1] /\ steps[q] = "waits" THEN "inserting" ELSE steps[q]
    BY <2>2, <1>2, LeadIs
  <2> QED BY <2>1, <2>3, <1>1, <1>2
<1>5. /\ \A i, k \in 1..m : holders[i] = holders[k] => i = k
      /\ \A q \in Events : emitting[q] \in Busy <=> \E i \in 1..m : holders[i] = q
      /\ \A i \in 1..m : emitting[holders[i]] = "waits" <=> i # 1
  BY DEF LineHolds, NoTwice
<1> DEFINE h(i) == IF i < n THEN i ELSE i + 1
<1>6. \A i \in 1..(m - 1) : h(i) \in 1..m /\ h(i) # n /\ next[i] = holders[h(i)]
  BY <1>1, <1>2
<1>7. \A i, k \in 1..(m - 1) : h(i) = h(k) => i = k
  BY <1>1
<1>8. \A i \in 1..(m - 1) : i # 1 => h(i) # 1
  BY <1>1
<1>9. \A i \in 1..m : i # n => \E k \in 1..(m - 1) : h(k) = i
  <2> TAKE i \in 1..m
  <2>1. CASE i < n
    <3>1. i \in 1..(m - 1) /\ h(i) = i
      BY <1>1, <2>1
    <3> QED BY <3>1
  <2>2. CASE i > n
    <3>1. i - 1 \in 1..(m - 1) /\ h(i - 1) = i
      BY <1>1, <2>2
    <3> QED BY <3>1
  <2> QED BY <1>1, <2>1, <2>2
<1> HIDE DEF h, e, m, next
<1>10. \A i \in 1..(m - 1) : next[i] # e /\ next[i] \in Events
  BY <1>1, <1>5, <1>6 DEF e
<1>11. \A i, k \in 1..(m - 1) : next[i] = next[k] => i = k
  BY <1>5, <1>6, <1>7
<1>12. \A q \in Events : emitting'[q] \in Busy <=> \E i \in 1..(m - 1) : next[i] = q
  <2> TAKE q \in Events
  <2>1. CASE q = e
    BY <2>1, <1>4, <1>10 DEF Busy
  <2>2. CASE q # e
    <3>1. emitting'[q] \in Busy <=> emitting[q] \in Busy
      BY <2>2, <1>4 DEF Busy
    <3>2. (\E i \in 1..m : holders[i] = q) <=> \E i \in 1..(m - 1) : next[i] = q
      <4>1. ASSUME NEW i \in 1..m, holders[i] = q PROVE \E k \in 1..(m - 1) : next[k] = q
        <5>1. i # n
          BY <4>1, <2>2 DEF e
        <5>2. PICK k \in 1..(m - 1) : h(k) = i
          BY <5>1, <1>9
        <5> QED BY <5>2, <4>1, <1>6
      <4>2. ASSUME NEW i \in 1..(m - 1), next[i] = q PROVE \E k \in 1..m : holders[k] = q
        BY <4>2, <1>6
      <4> QED BY <4>1, <4>2
    <3> QED BY <3>1, <3>2, <1>5
  <2> QED BY <2>1, <2>2
<1>13. \A i \in 1..(m - 1) : emitting'[next[i]] = "waits" <=> i # 1
  <2> TAKE i \in 1..(m - 1)
  <2>0. m - 1 > 0 /\ 1 \in 1..(m - 1) /\ next[i] # e /\ next[i] \in Events
    BY <1>1, <1>10
  <2>1. CASE i = 1
    BY <2>0, <2>1, <1>4
  <2>2. CASE i # 1
    <3>1. next[i] # next[1]
      BY <2>0, <2>2, <1>11
    <3>2. emitting[next[i]] = "waits"
      BY <2>2, <1>5, <1>6, <1>8
    <3> QED BY <2>0, <2>2, <3>1, <3>2, <1>4
  <2> QED BY <2>1, <2>2
<1>14. Len(next) = m - 1
  BY <1>2
<1>15. /\ \A i, k \in 1..Len(next) : next[i] = next[k] => i = k
       /\ \A q \in Events : emitting'[q] \in Busy <=> \E i \in 1..Len(next) : next[i] = q
       /\ \A i \in 1..Len(next) : emitting'[next[i]] = "waits" <=> i # 1
  BY <1>11, <1>12, <1>13, <1>14
<1> QED BY <1>15 DEF LineHolds, NoTwice, next

\* The first of a line gone.
LEMMA TailRemoves ==
  ASSUME NEW S, NEW s \in Seq(S), s # << >>
  PROVE  Tail(s) = RemoveAt(s, 1)
<1>1. Len(s) \in Nat /\ 1 \in 1..Len(s)
  BY EmptySeq
<1>2. /\ RemoveAt(s, 1) \in Seq(S) /\ Len(RemoveAt(s, 1)) = Len(s) - 1
      /\ \A i \in 1..(Len(s) - 1) : RemoveAt(s, 1)[i] = s[i + 1]
  BY <1>1, Removal
<1>3. Tail(s) \in Seq(S) /\ Len(Tail(s)) = Len(s) - 1 /\ \A i \in 1..(Len(s) - 1) : Tail(s)[i] = s[i + 1]
  BY HeadTailProperties
<1> QED BY <1>2, <1>3, SeqEqual

LEMMA LineBroadcast ==
  ASSUME StreamTypes, LineHolds, NEW e \in Events, Broadcast(e)
  PROVE  LineHolds'
<1> DEFINE m == Len(holders)
           next == holders'
           steps == [emitting EXCEPT ![e] = "waits"]
<1>1. /\ m \in Nat /\ \A i \in 1..m : holders[i] \in Events
      /\ emitting \in [Events -> EmitSteps] /\ emitting[e] = "new"
  BY DEF StreamTypes, Broadcast
<1>2. /\ next \in Seq(Events) /\ Len(next) = m + 1 /\ next[m + 1] = e
      /\ \A i \in 1..m : next[i] = holders[i]
  BY AppendProperties DEF StreamTypes, Broadcast
<1>3. /\ steps \in [Events -> EmitSteps] /\ emitting' = Lead(steps, next)
      /\ steps[e] = "waits" /\ \A q \in Events : q # e => steps[q] = emitting[q]
  BY <1>1 DEF Broadcast, EmitSteps
<1>4. /\ \A i, k \in 1..m : holders[i] = holders[k] => i = k
      /\ \A q \in Events : emitting[q] \in Busy <=> \E i \in 1..m : holders[i] = q
      /\ \A i \in 1..m : emitting[holders[i]] = "waits" <=> i # 1
  BY DEF LineHolds, NoTwice
<1> HIDE DEF m, next, steps
<1>5. \A i \in 1..m : holders[i] # e
  BY <1>1, <1>4 DEF Busy
<1>6. \A q \in Events : emitting'[q] =
        IF q = next[1] /\ steps[q] = "waits" THEN "inserting" ELSE steps[q]
  BY <1>1, <1>2, <1>3, LeadIs
<1>7. \A i \in 1..(m + 1) : (i \in 1..m /\ next[i] = holders[i] /\ next[i] # e) \/ (i = m + 1 /\ next[i] = e)
  BY <1>1, <1>2, <1>5
<1>8. \A i, k \in 1..(m + 1) : next[i] = next[k] => i = k
  BY <1>4, <1>7
<1>9. ASSUME NEW q \in Events PROVE emitting'[q] \in Busy <=> \E i \in 1..(m + 1) : next[i] = q
  <2>1. CASE q = e
    <3>1. m + 1 \in 1..(m + 1)
      BY <1>1
    <3> QED BY <2>1, <3>1, <1>2, <1>3, <1>6 DEF Busy
  <2>2. CASE q # e
    <3>1. emitting'[q] \in Busy <=> emitting[q] \in Busy
      BY <2>2, <1>3, <1>6 DEF Busy
    <3>2. (\E i \in 1..(m + 1) : next[i] = q) <=> \E i \in 1..m : holders[i] = q
      <4>1. 1..m \subseteq 1..(m + 1)
        BY <1>1
      <4> QED BY <4>1, <2>2, <1>2, <1>7
    <3> QED BY <3>1, <3>2, <1>4
  <2> QED BY <2>1, <2>2
<1>10. ASSUME NEW i \in 1..(m + 1) PROVE emitting'[next[i]] = "waits" <=> i # 1
  <2>0. 1 \in 1..(m + 1) /\ next[i] \in Events
    BY <1>1, <1>7
  <2>1. CASE i = 1
    BY <2>0, <2>1, <1>6
  <2>2. CASE i # 1
    <3>1. next[i] # next[1]
      BY <2>0, <2>2, <1>8
    <3>2. steps[next[i]] = "waits"
      BY <2>0, <2>2, <1>3, <1>4, <1>7
    <3> QED BY <2>0, <2>2, <3>1, <3>2, <1>6
  <2> QED BY <2>1, <2>2
<1>11. /\ \A i, k \in 1..Len(next) : next[i] = next[k] => i = k
       /\ \A q \in Events : emitting'[q] \in Busy <=> \E i \in 1..Len(next) : next[i] = q
       /\ \A i \in 1..Len(next) : emitting'[next[i]] = "waits" <=> i # 1
  BY <1>2, <1>8, <1>9, <1>10
<1> QED BY <1>11 DEF LineHolds, NoTwice, next

LEMMA LineNext == StreamTypes /\ LineHolds /\ [StreamNext]_streamVars => LineHolds'
<1> SUFFICES ASSUME StreamTypes, LineHolds, [StreamNext]_streamVars PROVE LineHolds'
  OBVIOUS
<1>t. holders \in Seq(Events) /\ emitting \in [Events -> EmitSteps]
  BY DEF StreamTypes
<1>1. ASSUME NEW e \in Events, Broadcast(e) PROVE LineHolds'
  BY <1>1, LineBroadcast
<1>2. ASSUME NEW e \in Events, Inserted(e) PROVE LineHolds'
  <2>1. \A q \in Events : /\ emitting'[q] \in Busy <=> emitting[q] \in Busy
                          /\ emitting'[q] = "waits" <=> emitting[q] = "waits"
    BY <1>2, <1>t DEF Inserted, Busy
  <2> QED BY <1>2, <2>1, LineStays DEF Inserted
<1>3. ASSUME NEW e \in Events, Announce(e) \/ StoreFails(e) PROVE LineHolds'
  <2>1. emitting[e] \in {"inserting", "committing"} /\ holders' = Tail(holders)
        /\ \E out \in {"announced", "lost"} : emitting' = Lead([emitting EXCEPT ![e] = out], holders')
    BY <1>3 DEF Announce, StoreFails
  <2>2. 1 \in 1..Len(holders) /\ holders[1] = e /\ holders # << >>
    BY <2>1, LockHeld
  <2>3. holders' = RemoveAt(holders, 1)
    BY <1>t, <2>1, <2>2, TailRemoves
  <2> QED BY <2>1, <2>2, <2>3, LineLeaves
<1>4. ASSUME NEW e \in Events, Abandon(e) PROVE LineHolds'
  <2>1. PICK n \in 1..Len(holders) : holders[n] = e /\ holders' = RemoveAt(holders, n)
    BY <1>4, <1>t DEF Abandon
  <2>2. emitting' = Lead([emitting EXCEPT ![holders[n]] = "lost"], holders')
    BY <1>4, <2>1 DEF Abandon
  <2> QED BY <2>1, <2>2, LineLeaves
<1>5. ASSUME NEW c \in Consoles,
             ConsoleConnects(c) \/ ReadyFails(c) \/ Send(c) \/ Close(c) \/ SendFails(c) \/ ListEvents(c)
      PROVE  LineHolds'
  <2>1. holders' = holders /\ emitting' = emitting
    BY <1>5 DEF ConsoleConnects, ReadyFails, Send, Close, SendFails, ListEvents, storeVars
  <2> QED BY <2>1, LineStays
<1>6. CASE StreamRestart
  <2>1. holders' = << >> /\ \A q \in Events : emitting'[q] \notin Busy
    BY <1>6, <1>t DEF StreamRestart, Busy, EmitSteps
  <2> QED BY <2>1 DEF LineHolds, NoTwice
<1>7. CASE UNCHANGED streamVars
  BY <1>7, LineStays DEF streamVars
<1> QED BY <1>1, <1>2, <1>3, <1>4, <1>5, <1>6, <1>7 DEF StreamNext

-----------------------------------------------------------------------------
(* The rows. *)

Stored == {"committing", "announced", "lost"}

\* How far an emitter has come, when another one leaves the line to the next.
LEMMA LeadKeeps ==
  ASSUME StreamTypes, LineHolds, NEW e \in Events, NEW out \in EmitSteps, NEW l \in Seq(Events),
         emitting' = Lead([emitting EXCEPT ![e] = out], l)
  PROVE  /\ \A q \in Events \ {e} : /\ emitting'[q] = "committing" <=> emitting[q] = "committing"
                                    /\ emitting[q] \in Stored => emitting'[q] = emitting[q]
         /\ out # "waits" => emitting'[e] = out
         /\ out = "waits" => emitting'[e] \in {"waits", "inserting"}
<1> DEFINE steps == [emitting EXCEPT ![e] = out]
<1>1. steps \in [Events -> EmitSteps] /\ emitting' = Lead(steps, l)
      /\ steps[e] = out /\ \A q \in Events \ {e} : steps[q] = emitting[q]
  BY DEF StreamTypes
<1> HIDE DEF steps
<1>2. \A q \in Events : emitting'[q] =
        IF Len(l) > 0 /\ q = l[1] /\ steps[q] = "waits" THEN "inserting" ELSE steps[q]
  BY <1>1, LeadIs
<1> QED BY <1>1, <1>2 DEF Stored

\* The rows stay as they are, and so does who is about to commit.
LEMMA RowsStay ==
  ASSUME StreamTypes, RowsHold, UNCHANGED <<rows, committed, sequence, announced>>,
         \A e \in Events : /\ emitting'[e] = "committing" => emitting[e] = "committing"
                           /\ emitting[e] \in Stored => emitting'[e] \in Stored
  PROVE  RowsHold'
<1>1. \A i \in 1..Len(rows) : rows[i] \in Events
  BY DEF StreamTypes
<1> QED BY <1>1 DEF RowsHold, NoTwice, Stored

\* A row more, of an event not stored before.
LEMMA RowMore ==
  ASSUME StreamTypes, RowsHold, NEW e \in Events, emitting[e] = "inserting",
         rows' = Append(rows, e), UNCHANGED <<committed, sequence, announced>>,
         emitting'[e] \in Stored,
         \A q \in Events \ {e} : /\ emitting'[q] # "committing"
                                 /\ emitting[q] \in Stored => emitting'[q] \in Stored
  PROVE  RowsHold'
<1> DEFINE m == Len(rows)
           next == rows'
<1>1. /\ m \in Nat /\ \A i \in 1..m : rows[i] \in Events
      /\ committed \in Nat /\ sequence \in Nat
  BY DEF StreamTypes
<1>2. /\ next \in Seq(Events) /\ Len(next) = m + 1 /\ next[m + 1] = e
      /\ \A i \in 1..m : next[i] = rows[i]
  BY AppendProperties DEF StreamTypes
<1>3. /\ \A i, k \in 1..m : rows[i] = rows[k] => i = k
      /\ \A i \in 1..m : emitting[rows[i]] \in Stored
      /\ sequence <= committed /\ committed <= m
      /\ \A n \in DOMAIN announced : n \in 1..sequence /\ rows[n] = announced[n]
  BY DEF RowsHold, NoTwice, Stored
<1> HIDE DEF m, next
<1>4. \A i \in 1..m : rows[i] # e
  BY <1>3 DEF Stored
<1>5. \A i \in 1..(m + 1) : (i \in 1..m /\ next[i] = rows[i] /\ next[i] # e) \/ (i = m + 1 /\ next[i] = e)
  BY <1>1, <1>2, <1>4
<1>6. \A i, k \in 1..(m + 1) : next[i] = next[k] => i = k
  BY <1>3, <1>5
<1>7. \A i \in 1..(m + 1) : emitting'[next[i]] \in Stored
  BY <1>1, <1>3, <1>5
<1>8. committed < m + 1 /\ committed <= m + 1
  BY <1>1, <1>3
<1>9. \A n \in DOMAIN announced : n \in 1..sequence /\ next[n] = announced[n]
  <2> TAKE n \in DOMAIN announced
  <2>1. n \in 1..m
    BY <1>1, <1>3
  <2> QED BY <2>1, <1>2, <1>3
<1>10. /\ \A i, k \in 1..Len(next) : next[i] = next[k] => i = k
       /\ \A i \in 1..Len(next) : emitting'[next[i]] \in Stored
       /\ \A q \in Events : emitting'[q] = "committing" => committed < Len(next) /\ next[Len(next)] = q
       /\ committed <= Len(next)
  BY <1>2, <1>6, <1>7, <1>8
<1> QED BY <1>3, <1>9, <1>10 DEF RowsHold, NoTwice, Stored, next

\* The last row is committed and announced under its number.
LEMMA RowsAnnounce ==
  ASSUME StreamTypes, LineHolds, RowsHold, NEW e \in Events, Announce(e)
  PROVE  RowsHold'
<1> DEFINE m == Len(rows)
<1>1. emitting[e] = "committing"
  BY DEF Announce
<1>2. /\ NumberOf(e) = m /\ m \in Nat /\ m \in 1..m /\ rows[m] = e /\ committed < m
  BY <1>1, Committing
<1>3. /\ rows' = rows /\ committed' = m /\ sequence' = m
      /\ announced' = [i \in DOMAIN announced \cup {m} |-> IF i = m THEN e ELSE announced[i]]
  BY <1>2 DEF Announce
<1>4. holders' \in Seq(Events)
  <2>1. holders # << >> /\ holders \in Seq(Events) /\ holders' = Tail(holders)
    BY <1>1, LockHeld DEF Announce, StreamTypes
  <2> QED BY <2>1
<1>5. /\ emitting'[e] = "announced"
      /\ \A q \in Events \ {e} : /\ emitting'[q] = "committing" <=> emitting[q] = "committing"
                                 /\ emitting[q] \in Stored => emitting'[q] = emitting[q]
  BY <1>4, LeadKeeps DEF Announce, EmitSteps
<1>6. \A q \in Events : emitting'[q] # "committing"
  BY <1>1, <1>5, LockHeld
<1>7. \A i \in 1..m : emitting'[rows[i]] \in Stored
  <2>1. \A i \in 1..m : rows[i] \in Events /\ emitting[rows[i]] \in Stored
    BY DEF StreamTypes, RowsHold, Stored
  <2> QED BY <2>1, <1>5 DEF Stored
<1>8. \A n \in DOMAIN announced' : n \in 1..m /\ rows[n] = announced'[n]
  <2>1. \A n \in DOMAIN announced : n \in 1..m /\ rows[n] = announced[n]
    <3>1. sequence \in Nat /\ committed \in Nat /\ sequence <= m
      BY <1>2 DEF StreamTypes, RowsHold
    <3> QED BY <1>2, <3>1 DEF RowsHold
  <2> HIDE DEF m
  <2> QED BY <2>1, <1>2, <1>3
<1>9. m <= m /\ NoTwice(rows)
  BY <1>2 DEF RowsHold
<1> QED BY <1>2, <1>3, <1>6, <1>7, <1>8, <1>9 DEF RowsHold, NoTwice, Stored

LEMMA RowsRestart ==
  ASSUME StreamTypes, RowsHold, StreamRestart
  PROVE  RowsHold'
<1> DEFINE next == SubSeq(rows, 1, committed)
<1>1. /\ rows' = next /\ sequence' = committed /\ committed' = committed /\ announced' = announced
      /\ \A e \in Events : emitting'[e] =
           IF emitting[e] \in {"waits", "inserting", "committing"} THEN "lost" ELSE emitting[e]
  BY DEF StreamRestart
<1>2. committed \in Nat /\ committed <= Len(rows) /\ sequence <= committed /\ sequence \in Nat
      /\ Len(rows) \in Nat /\ \A i \in 1..Len(rows) : rows[i] \in Events
  BY DEF RowsHold, StreamTypes
<1>3. next \in Seq(Events) /\ Len(next) = committed /\ \A i \in 1..committed : next[i] = rows[i]
  <2>1. \A i \in 1..committed : i \in 1..Len(rows)
    BY <1>2
  <2>2. next \in Seq(Events) /\ Len(next) = committed
    BY <2>1, <1>2, SubSeqProperties DEF StreamTypes
  <2>3. \A i \in 1..committed : next[i] = rows[i]
    BY <2>1, <1>2 DEF StreamTypes
  <2> QED BY <2>2, <2>3
<1>4. 1..committed \subseteq 1..Len(rows) /\ 1..sequence \subseteq 1..committed
  BY <1>2
<1> HIDE DEF next
<1>5. \A i, k \in 1..committed : next[i] = next[k] => i = k
  BY <1>3, <1>4 DEF RowsHold, NoTwice
<1>6. \A i \in 1..committed : emitting'[next[i]] \in {"committing", "announced", "lost"}
  BY <1>1, <1>2, <1>3, <1>4 DEF RowsHold
<1>7. \A e \in Events : emitting'[e] # "committing"
  BY <1>1
<1>8. \A n \in DOMAIN announced : n \in 1..committed /\ next[n] = announced[n]
  BY <1>3, <1>4 DEF RowsHold
<1>9. committed <= committed
  BY <1>2
<1> QED BY <1>1, <1>3, <1>5, <1>6, <1>7, <1>8, <1>9 DEF RowsHold, NoTwice

LEMMA RowsNext ==
  StreamTypes /\ LineHolds /\ RowsHold /\ [StreamNext]_streamVars => RowsHold'
<1> SUFFICES ASSUME StreamTypes, LineHolds, RowsHold, [StreamNext]_streamVars PROVE RowsHold'
  OBVIOUS
<1>t. /\ holders \in Seq(Events) /\ emitting \in [Events -> EmitSteps] /\ holders' \in Seq(Events)
      /\ emitting' \in [Events -> EmitSteps]
  BY StreamTypesNext DEF StreamTypes
<1>1. ASSUME NEW e \in Events, Broadcast(e) PROVE RowsHold'
  <2>1. /\ UNCHANGED <<rows, committed, sequence, announced>> /\ emitting[e] = "new"
        /\ emitting' = Lead([emitting EXCEPT ![e] = "waits"], holders')
    BY <1>1 DEF Broadcast
  <2>2. /\ emitting'[e] \in {"waits", "inserting"}
        /\ \A q \in Events \ {e} : /\ emitting'[q] = "committing" <=> emitting[q] = "committing"
                                   /\ emitting[q] \in Stored => emitting'[q] = emitting[q]
    BY <2>1, <1>t, LeadKeeps DEF EmitSteps
  <2>3. \A q \in Events : /\ emitting'[q] = "committing" => emitting[q] = "committing"
                          /\ emitting[q] \in Stored => emitting'[q] \in Stored
    BY <2>1, <2>2 DEF Stored
  <2> QED BY <2>1, <2>3, RowsStay
<1>2. ASSUME NEW e \in Events, Inserted(e) PROVE RowsHold'
  <2>1. /\ emitting[e] = "inserting" /\ emitting' = [emitting EXCEPT ![e] = "committing"]
        /\ rows' = Append(rows, e) /\ UNCHANGED <<committed, sequence, announced>>
    BY <1>2 DEF Inserted
  <2>2. /\ emitting'[e] \in Stored
        /\ \A q \in Events \ {e} : /\ emitting'[q] # "committing"
                                   /\ emitting[q] \in Stored => emitting'[q] \in Stored
    BY <2>1, <1>t, LockHeld DEF Stored
  <2> QED BY <2>1, <2>2, RowMore
<1>3. ASSUME NEW e \in Events, Announce(e) PROVE RowsHold'
  BY <1>3, RowsAnnounce
<1>4. ASSUME NEW e \in Events, Abandon(e) \/ StoreFails(e) PROVE RowsHold'
  <2>1. /\ emitting' = Lead([emitting EXCEPT ![e] = "lost"], holders')
        /\ UNCHANGED <<sequence, announced>>
        /\ emitting[e] \in {"waits", "inserting", "committing"}
    BY <1>4 DEF Abandon, StoreFails
  <2>2. /\ emitting'[e] = "lost"
        /\ \A q \in Events \ {e} : /\ emitting'[q] = "committing" <=> emitting[q] = "committing"
                                   /\ emitting[q] \in Stored => emitting'[q] = emitting[q]
    BY <2>1, <1>t, LeadKeeps DEF EmitSteps
  <2>3. \A q \in Events : /\ emitting'[q] = "committing" => emitting[q] = "committing"
                          /\ emitting[q] \in Stored => emitting'[q] \in Stored
    BY <2>2 DEF Stored
  <2>4. CASE UNCHANGED <<rows, committed>>
    BY <2>1, <2>3, <2>4, RowsStay
  <2>5. CASE Abandon(e) /\ emitting[e] = "inserting"
    <3>1. rows' = Append(rows, e) /\ committed' = committed
      BY <2>5 DEF Abandon
    <3>2. /\ emitting'[e] \in Stored
          /\ \A q \in Events \ {e} : /\ emitting'[q] # "committing"
                                     /\ emitting[q] \in Stored => emitting'[q] \in Stored
      BY <2>2, <2>3, <2>5, LockHeld DEF Stored
    <3> QED BY <2>1, <2>5, <3>1, <3>2, RowMore
  <2>6. CASE Abandon(e) /\ emitting[e] = "committing"
    <3>1. rows' = rows /\ committed' = Len(rows)
      BY <2>6 DEF Abandon
    <3>2. \A q \in Events : emitting'[q] # "committing"
      BY <2>2, <2>6, LockHeld
    <3>3. \A i \in 1..Len(rows) : emitting'[rows[i]] \in Stored
      <4>1. \A i \in 1..Len(rows) : rows[i] \in Events /\ emitting[rows[i]] \in Stored
        BY DEF StreamTypes, RowsHold, Stored
      <4> QED BY <4>1, <2>3
    <3>4. Len(rows) \in Nat /\ committed \in Nat /\ sequence \in Nat /\ sequence <= Len(rows)
      BY DEF StreamTypes, RowsHold
    <3>5. Len(rows) <= Len(rows)
      BY <3>4
    <3> QED BY <2>1, <3>1, <3>2, <3>3, <3>4, <3>5 DEF RowsHold, NoTwice, Stored
  <2>7. UNCHANGED <<rows, committed>> \/ (Abandon(e) /\ emitting[e] \in {"inserting", "committing"})
    BY <1>4, <2>1 DEF Abandon, StoreFails
  <2> QED BY <2>4, <2>5, <2>6, <2>7
<1>5. ASSUME NEW c \in Consoles,
             ConsoleConnects(c) \/ ReadyFails(c) \/ Send(c) \/ Close(c) \/ SendFails(c) \/ ListEvents(c)
      PROVE  RowsHold'
  <2>1. UNCHANGED storeVars
    BY <1>5 DEF ConsoleConnects, ReadyFails, Send, Close, SendFails, ListEvents
  <2> QED BY <2>1, RowsStay DEF storeVars
<1>6. CASE StreamRestart
  BY <1>6, RowsRestart
<1>7. CASE UNCHANGED streamVars
  BY <1>7, RowsStay DEF streamVars
<1> QED BY <1>1, <1>2, <1>3, <1>4, <1>5, <1>6, <1>7 DEF StreamNext

-----------------------------------------------------------------------------
(* The consoles. *)

\* A connection that stays, and sees and misses what it did.
LEMMA ConsoleStays ==
  ASSUME StreamTypes, NEW c \in Consoles, ConsoleHolds(c),
         Seen(c)' = Seen(c), Len(sent'[c]) > 0, sent'[c][1] = sent[c][1], dropped'[c] = dropped[c],
         sequence' = sequence, announced' = announced
  PROVE  ConsoleHolds(c)'
BY DEF ConsoleHolds, Increasing

\* A number added behind all others, larger than they are.
LEMMA IncreasingAppend ==
  ASSUME NEW s \in Seq(Nat), Increasing(s), NEW n \in Nat, \A i \in 1..Len(s) : s[i] < n
  PROVE  Increasing(Append(s, n))
<1> DEFINE m == Len(s)
           a == Append(s, n)
<1>1. m \in Nat /\ Len(a) = m + 1 /\ a[m + 1] = n /\ \A i \in 1..m : a[i] = s[i]
  BY AppendProperties
<1>2. \A i \in 1..(m - 1) : s[i] < s[i + 1]
  BY DEF Increasing
<1>0. \A i \in 1..m : s[i] < n
  OBVIOUS
<1> HIDE DEF m, a
<1>3. ASSUME NEW i \in 1..((m + 1) - 1) PROVE a[i] < a[i + 1]
  <2>1. CASE i = m
    <3>1. i \in 1..m /\ a[i] = s[i] /\ a[i + 1] = n
      BY <2>1, <1>1
    <3> QED BY <3>1, <1>0
  <2>2. CASE i # m
    <3>1. i \in 1..(m - 1) /\ i \in 1..m /\ i + 1 \in 1..m
      BY <2>2, <1>1
    <3> QED BY <3>1, <1>1, <1>2
  <2> QED BY <2>1, <2>2
<1>4. Increasing(a)
  BY <1>1, <1>3 DEF Increasing
<1> QED BY <1>4 DEF a

\* An announcement reaches every connection, or is dropped for want of room.
LEMMA ConsoleAnnounced ==
  ASSUME StreamTypes, RowsHold, NEW e \in Events, Announce(e),
         NEW c \in Consoles, socket[c] # "off", ConsoleHolds(c)
  PROVE  ConsoleHolds(c)'
<1> DEFINE n == NumberOf(e)
           s == Seen(c)
<1>t. sent[c] \in Seq(Nat) /\ queue[c] \in Seq(Nat) /\ sequence \in Nat /\ committed \in Nat
  BY DEF StreamTypes
<1>1. n = Len(rows) /\ n \in Nat /\ committed < n
  BY Committing DEF Announce
<1>2. sequence < n
  BY <1>1, <1>t DEF RowsHold
<1>3. /\ sent' = sent /\ sequence' = n
      /\ announced' = [i \in DOMAIN announced \cup {n} |-> IF i = n THEN e ELSE announced[i]]
  BY DEF Announce
<1>4. \/ queue'[c] = Append(queue[c], n) /\ dropped'[c] = dropped[c]
      \/ queue'[c] = queue[c] /\ dropped'[c] = dropped[c] \cup {n}
  BY DEF Announce, Subscribed
<1> HIDE DEF n
<1>5. s \in Seq(Nat) /\ sent[c] \o Append(queue[c], n) = Append(s, n)
  BY <1>t, <1>1, AppendSeen DEF Seen
<1>6. /\ Len(sent[c]) > 0 /\ Increasing(s) /\ Len(s) \in Nat
      /\ \A i \in 1..Len(s) : s[i] <= sequence /\ s[i] \in Nat
      /\ \A k \in DOMAIN announced :
           k > sent[c][1] => k \in dropped[c] \/ \E i \in 1..Len(s) : s[i] = k
  BY <1>5 DEF ConsoleHolds
<1>7. \A i \in 1..Len(s) : s[i] < n
  BY <1>1, <1>2, <1>6, <1>t
<1>8. DOMAIN announced' = DOMAIN announced \cup {n}
  BY <1>3
<1> HIDE DEF s
<1>9. CASE queue'[c] = Append(queue[c], n) /\ dropped'[c] = dropped[c]
  <2> DEFINE a == Append(s, n)
  <2>1. Seen(c)' = a
    BY <1>3, <1>5, <1>9 DEF Seen
  <2>2. Increasing(a)
    BY <1>1, <1>5, <1>6, <1>7, IncreasingAppend
  <2>3. /\ Len(a) = Len(s) + 1 /\ a[Len(s) + 1] = n /\ \A i \in 1..Len(s) : a[i] = s[i]
        /\ \A i \in 1..(Len(s) + 1) : i \in 1..Len(s) \/ i = Len(s) + 1
        /\ Len(s) + 1 \in 1..(Len(s) + 1) /\ 1..Len(s) \subseteq 1..(Len(s) + 1)
    BY <1>1, <1>5, <1>6, AppendProperties
  <2> HIDE DEF a
  <2>4. \A i \in 1..Len(a) : a[i] <= n
    BY <2>3, <1>1, <1>6, <1>7
  <2>5. \A k \in DOMAIN announced' :
          k > sent[c][1] => k \in dropped'[c] \/ \E i \in 1..Len(a) : a[i] = k
    <3> TAKE k \in DOMAIN announced'
    <3>1. CASE k = n
      BY <3>1, <2>3
    <3>2. CASE k # n
      <4>1. k \in DOMAIN announced
        BY <3>2, <1>8
      <4>2. ASSUME NEW i \in 1..Len(s), s[i] = k PROVE \E j \in 1..Len(a) : a[j] = k
        BY <4>2, <2>3
      <4> QED BY <4>1, <4>2, <1>6, <1>9
    <3> QED BY <3>1, <3>2
  <2> QED BY <2>1, <2>2, <2>4, <2>5, <1>3, <1>6 DEF ConsoleHolds, Increasing
<1>10. CASE queue'[c] = queue[c] /\ dropped'[c] = dropped[c] \cup {n}
  <2>1. Seen(c)' = s
    BY <1>3, <1>10 DEF Seen, s
  <2>2. \A i \in 1..Len(s) : s[i] <= n
    BY <1>1, <1>6, <1>7
  <2>3. \A k \in DOMAIN announced' :
          k > sent[c][1] => k \in dropped'[c] \/ \E i \in 1..Len(s) : s[i] = k
    BY <1>6, <1>8, <1>10
  <2> QED BY <2>1, <2>2, <2>3, <1>3, <1>6 DEF ConsoleHolds, Increasing
<1> QED BY <1>4, <1>9, <1>10

\* A console that connects starts with the server's number.
LEMMA ConsoleReady ==
  ASSUME StreamTypes, RowsHold, NEW c \in Consoles, ConsoleConnects(c)
  PROVE  ConsoleHolds(c)'
<1>1. /\ sent'[c] = <<sequence>> /\ queue'[c] = << >> /\ sequence' = sequence /\ announced' = announced
      /\ sequence \in Nat
  BY DEF ConsoleConnects, storeVars, StreamTypes
<1>2. <<sequence>> \o << >> = <<sequence>>
  BY <1>1
<1>3. Seen(c)' = <<sequence>>
  BY <1>1, <1>2 DEF Seen
<1>4. \A n \in DOMAIN announced : ~(n > sequence)
  BY <1>1 DEF RowsHold
<1>5. Len(<<sequence>>) = 1 /\ <<sequence>>[1] = sequence /\ sequence <= sequence
  BY <1>1
<1> QED BY <1>1, <1>3, <1>4, <1>5 DEF ConsoleHolds, Increasing

\* A message, or a ping, goes out.
LEMMA ConsoleSent ==
  ASSUME StreamTypes, ConsolesHold, NEW c \in Consoles, Send(c)
  PROVE  ConsoleHolds(c)' /\ known'[c] <= sequence'
<1>t. sent[c] \in Seq(Nat) /\ queue[c] \in Seq(Nat) /\ sequence \in Nat
  BY DEF StreamTypes
<1>1. ConsoleHolds(c) /\ Len(sent[c]) > 0
  BY DEF Send, Subscribed, ConsolesHold, ConsoleHolds
<1>2. sequence' = sequence /\ announced' = announced /\ dropped' = dropped
  BY DEF Send, storeVars
<1>3. CASE queue[c] # << >> /\ queue' = [queue EXCEPT ![c] = Tail(@)]
           /\ sent' = [sent EXCEPT ![c] = Append(@, Head(queue[c]))]
           /\ known' = [known EXCEPT ![c] = Head(queue[c])]
  <2>1. /\ queue'[c] = Tail(queue[c]) /\ sent'[c] = Append(sent[c], Head(queue[c]))
        /\ known'[c] = Head(queue[c])
    BY <1>3 DEF StreamTypes
  <2>2. /\ Append(sent[c], Head(queue[c])) \o Tail(queue[c]) = sent[c] \o queue[c]
        /\ Len(Append(sent[c], Head(queue[c]))) > 0
        /\ Append(sent[c], Head(queue[c]))[1] = sent[c][1]
        /\ \E i \in 1..Len(sent[c] \o queue[c]) : (sent[c] \o queue[c])[i] = Head(queue[c])
    BY <1>t, <1>1, <1>3, Shift
  <2>3. Seen(c)' = Seen(c)
    BY <2>1, <2>2 DEF Seen
  <2>4. Head(queue[c]) <= sequence
    BY <2>2, <1>1 DEF ConsoleHolds, Seen
  <2> QED BY <2>1, <2>2, <2>3, <2>4, <1>1, <1>2, ConsoleStays
<1>4. CASE known' = [known EXCEPT ![c] = sequence] /\ UNCHANGED <<queue, sent>>
  <2>1. known'[c] = sequence /\ sequence <= sequence
    BY <1>4, <1>t DEF StreamTypes
  <2>2. Seen(c)' = Seen(c)
    BY <1>4 DEF Seen
  <2> QED BY <2>1, <2>2, <1>1, <1>2, <1>4, ConsoleStays
<1> QED BY <1>3, <1>4 DEF Send

LEMMA ConsolesNext ==
  StreamTypes /\ LineHolds /\ RowsHold /\ ConsolesHold /\ [StreamNext]_streamVars => ConsolesHold'
<1> SUFFICES ASSUME StreamTypes, LineHolds, RowsHold, ConsolesHold, [StreamNext]_streamVars
             PROVE  ConsolesHold'
  OBVIOUS
<1>t. /\ socket \in [Consoles -> {"off", "open", "closed"}] /\ known \in [Consoles -> Nat]
      /\ sent \in [Consoles -> Seq(Nat)] /\ queue \in [Consoles -> Seq(Nat)]
      /\ dropped \in [Consoles -> SUBSET Nat] /\ sequence \in Nat
  BY DEF StreamTypes
<1>k. \A c \in Consoles : known[c] <= sequence
  BY DEF ConsolesHold
<1>h. \A c \in Consoles : socket[c] # "off" => ConsoleHolds(c) /\ Len(sent[c]) > 0
  BY DEF ConsolesHold, Subscribed, ConsoleHolds
<1>s. ASSUME \A c \in Consoles : known'[c] <= sequence',
             \A c \in Consoles : socket'[c] # "off" => ConsoleHolds(c)'
      PROVE  ConsolesHold'
  BY <1>s DEF ConsolesHold, Subscribed
<1>o. ASSUME NEW c \in Consoles, socket[c] # "off", sequence' = sequence, announced' = announced,
             sent'[c] = sent[c], queue'[c] = queue[c], dropped'[c] = dropped[c]
      PROVE  ConsoleHolds(c)'
  <2>1. Seen(c)' = Seen(c)
    BY <1>o DEF Seen
  <2> QED BY <2>1, <1>o, <1>h, ConsoleStays
<1>1. ASSUME NEW e \in Events, Broadcast(e) \/ Inserted(e) \/ Abandon(e) \/ StoreFails(e)
      PROVE  ConsolesHold'
  <2>1. UNCHANGED <<sequence, announced, socketVars>>
    BY <1>1 DEF Broadcast, Inserted, Abandon, StoreFails
  <2> QED BY <2>1, <1>k, <1>s, <1>o DEF socketVars
<1>2. ASSUME NEW e \in Events, Announce(e) PROVE ConsolesHold'
  <2>1. socket' = socket /\ known' = known /\ sequence' = NumberOf(e)
    BY <1>2 DEF Announce
  <2>2. \A c \in Consoles : socket'[c] # "off" => ConsoleHolds(c)'
    BY <2>1, <1>2, <1>h, ConsoleAnnounced
  <2>3. \A c \in Consoles : known'[c] <= sequence'
    <3>1. NumberOf(e) = Len(rows) /\ Len(rows) \in Nat /\ committed < Len(rows) /\ committed \in Nat
      BY <1>2, Committing DEF Announce, StreamTypes
    <3>2. sequence <= NumberOf(e) /\ NumberOf(e) \in Nat
      BY <3>1, <1>t DEF RowsHold
    <3>3. \A c \in Consoles : known[c] \in Nat
      BY <1>t
    <3> QED BY <2>1, <3>2, <3>3, <1>k, <1>t
  <2> QED BY <2>2, <2>3, <1>s
<1>3. ASSUME NEW c \in Consoles, ConsoleConnects(c) PROVE ConsolesHold'
  <2>1. /\ sequence' = sequence /\ announced' = announced /\ known'[c] = sequence
        /\ \A q \in Consoles \ {c} : /\ socket'[q] = socket[q] /\ sent'[q] = sent[q]
                                     /\ queue'[q] = queue[q] /\ dropped'[q] = dropped[q]
                                     /\ known'[q] = known[q]
    BY <1>3, <1>t DEF ConsoleConnects, storeVars
  <2>2. ConsoleHolds(c)'
    BY <1>3, ConsoleReady
  <2>3. sequence <= sequence
    BY <1>t
  <2> QED BY <2>1, <2>2, <2>3, <1>k, <1>s, <1>o
<1>4. ASSUME NEW c \in Consoles, Send(c) PROVE ConsolesHold'
  <2>1. /\ sequence' = sequence /\ announced' = announced /\ socket' = socket /\ dropped' = dropped
        /\ \A q \in Consoles \ {c} : /\ sent'[q] = sent[q] /\ queue'[q] = queue[q]
                                     /\ known'[q] = known[q]
    BY <1>4, <1>t DEF Send, storeVars
  <2>2. ConsoleHolds(c)' /\ known'[c] <= sequence'
    BY <1>4, ConsoleSent
  <2> QED BY <2>1, <2>2, <1>k, <1>s, <1>o
<1>5. ASSUME NEW c \in Consoles, ReadyFails(c) \/ Close(c) \/ SendFails(c) \/ ListEvents(c)
      PROVE  ConsolesHold'
  <2>1. /\ sequence' = sequence /\ announced' = announced /\ dropped' = dropped
        /\ sent' = sent /\ queue' = queue
    BY <1>5 DEF ReadyFails, Close, SendFails, ListEvents, storeVars
  <2>2. \A q \in Consoles : socket'[q] # "off" => socket[q] # "off"
    BY <1>5, <1>t DEF ReadyFails, Close, SendFails, ListEvents
  <2>3. \A q \in Consoles : known'[q] = known[q] \/ known'[q] = sequence
    BY <1>5, <1>t DEF ReadyFails, Close, SendFails, ListEvents
  <2>4. sequence <= sequence
    BY <1>t
  <2> QED BY <2>1, <2>2, <2>3, <2>4, <1>k, <1>s, <1>o
<1>6. CASE StreamRestart
  <2>1. /\ sequence' = committed /\ known' = known /\ committed \in Nat /\ sequence <= committed
        /\ \A c \in Consoles : socket'[c] = "off"
    BY <1>6 DEF StreamRestart, RowsHold, StreamTypes
  <2>2. \A c \in Consoles : known[c] \in Nat /\ known[c] <= committed
    BY <2>1, <1>k, <1>t
  <2> QED BY <2>1, <2>2, <1>s
<1>7. CASE UNCHANGED streamVars
  BY <1>7, <1>k, <1>s, <1>o DEF streamVars
<1> QED BY <1>1, <1>2, <1>3, <1>4, <1>5, <1>6, <1>7 DEF StreamNext

-----------------------------------------------------------------------------
(* The theorems. *)

LEMMA StreamInductive == StreamSpec => []StreamInv
<1>1. StreamInit => StreamInv
  <2> SUFFICES ASSUME StreamInit PROVE StreamInv
    OBVIOUS
  <2>1. StreamTypes
    BY DEF StreamInit, StreamTypes, EmitSteps
  <2>2. LineHolds
    BY DEF StreamInit, LineHolds, NoTwice, Busy
  <2>3. RowsHold
    BY DEF StreamInit, RowsHold, NoTwice
  <2>4. ConsolesHold
    BY DEF StreamInit, ConsolesHold, Subscribed
  <2> QED BY <2>1, <2>2, <2>3, <2>4 DEF StreamInv
<1>2. StreamInv /\ [StreamNext]_streamVars => StreamInv'
  BY StreamTypesNext, LineNext, RowsNext, ConsolesNext DEF StreamInv
<1> QED BY <1>1, <1>2, PTL DEF StreamSpec

\* Every connection is sent rising numbers, from ready's on, and misses none but what
\* its full queue did not take; a number names the same event in the stream and in the
\* store for good; and no console knows a number the server does not.
THEOREM NumbersAreKept == StreamSpec => []EventsKeepTheirNumbers
<1>1. StreamInv => EventsKeepTheirNumbers
  <2> SUFFICES ASSUME StreamInv PROVE EventsKeepTheirNumbers
    OBVIOUS
  <2>1. NumbersAgree
    BY DEF StreamInv, NumbersAgree, RowsHold, ConsolesHold, StreamTypes
  <2>2. ASSUME NEW c \in Subscribed
        PROVE  /\ Increasing(sent[c] \o queue[c])
               /\ \A n \in DOMAIN announced :
                    n > sent[c][1] => n \in ToSet(sent[c] \o queue[c]) \cup dropped[c]
    <3>1. ConsoleHolds(c) /\ sent[c] \in Seq(Nat) /\ queue[c] \in Seq(Nat)
      BY DEF StreamInv, StreamTypes, ConsolesHold, Subscribed
    <3>2. sent[c] \o queue[c] \in Seq(Nat)
      BY <3>1, ConcatProperties
    <3>3. \A i \in 1..Len(sent[c] \o queue[c]) : (sent[c] \o queue[c])[i] \in ToSet(sent[c] \o queue[c])
      <4> DEFINE s == sent[c] \o queue[c]
      <4>1. s \in Seq(Nat)
        BY <3>2
      <4> HIDE DEF s
      <4>2. DOMAIN s = 1..Len(s)
        BY <4>1, LenProperties
      <4>3. \A i \in 1..Len(s) : s[i] \in ToSet(s)
        BY <4>2 DEF ToSet
      <4> QED BY <4>3 DEF s
    <3> QED BY <3>1, <3>3 DEF ConsoleHolds, Seen
  <2> QED BY <2>1, <2>2 DEF EventsKeepTheirNumbers, StreamInOrder
<1> QED BY StreamInductive, <1>1, PTL

\* The emitters take the lock in the order they asked for it, and one at a time is in
\* the store.
THEOREM OneEmitterInTheStore == StreamSpec => [](StreamTypes /\ LineHolds)
<1>1. StreamInv => StreamTypes /\ LineHolds
  BY DEF StreamInv
<1> QED BY StreamInductive, <1>1, PTL
-----------------------------------------------------------------------------
(* The behaviours that the runs look at. *)

\* Where one of them is in focus and the others stand, each still behaves as its own
\* specification says, and all of the above holds.
THEOREM RunIsInHand ==
  Spec => [](/\ SchedulesInHand /\ AttemptsCounted /\ EscalatesBeforeSettling /\ DoneWorkSurvives /\ ProgressTells
             /\ DecisionsHold /\ RunsAreTold /\ EventsKeepTheirNumbers)
<1>1. Init => PiInit /\ ExInit /\ TrInit /\ LoopsInit /\ UserInit /\ StreamInit
  BY DEF Init
<1>2. [Next]_vars => [PiNext]_piVars
  <2>1. UNCHANGED vars => UNCHANGED piVars
    BY DEF vars
  <2>2. Next => PiNext \/ UNCHANGED piVars
    BY DEF Next
  <2> QED BY <2>1, <2>2
<1>3. [Next]_vars => [LoopsNext]_loopVars
  <2>1. UNCHANGED vars => UNCHANGED loopVars
    BY DEF vars
  <2>2. Next => LoopsNext \/ UNCHANGED loopVars
    BY DEF Next
  <2> QED BY <2>1, <2>2
<1>4. [Next]_vars => [UserNext]_userVars
  <2>1. UNCHANGED vars => UNCHANGED userVars
    BY DEF vars
  <2>2. Next => UserNext \/ UNCHANGED userVars
    BY DEF Next
  <2> QED BY <2>1, <2>2
<1>5. [Next]_vars => [EnvStep \/ \E r \in Tasks : TaskStep(r)]_trVars
  <2>1. UNCHANGED vars => UNCHANGED trVars
    BY DEF vars
  <2>2. Next => (EnvStep \/ \E r \in Tasks : TaskStep(r)) \/ UNCHANGED trVars
    BY DEF Next
  <2> QED BY <2>1, <2>2
<1>6. [Next]_vars => [\E e \in Executions : ExStep(e)]_exVars
  <2>1. UNCHANGED vars => UNCHANGED exVars
    BY DEF vars
  <2>2. focus \in Groups => focus \subseteq Executions
    BY DEF Groups, LoopsOfTask
  <2>3. Next => (\E e \in Executions : ExStep(e)) \/ UNCHANGED exVars
    BY <2>2 DEF Next
  <2> QED BY <2>1, <2>3
<1>7. [Next]_vars => [StreamNext]_streamVars
  <2>1. UNCHANGED vars => UNCHANGED streamVars
    BY DEF vars
  <2>2. Next => StreamNext \/ UNCHANGED streamVars
    BY DEF Next
  <2> QED BY <2>1, <2>2
<1> QED BY <1>1, <1>2, <1>3, <1>4, <1>5, <1>6, <1>7, SchedulesStayInHand, NoAttemptIsLost, CascadesEscalate,
           DoneWorkIsKept, ProgressStaysTold, DecisionsStand, RunsStayTold, NumbersAreKept, PTL
           DEF Spec, PiSpec, ExSpec, LoopsSpec, UserSpec, RoutingSpec, StreamSpec
=============================================================================
