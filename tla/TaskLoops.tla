------------------------------ MODULE TaskLoops ------------------------------
(***************************************************************************)
(* The periodic tasks' loops (scheduler.py).  CompanyRuntime says which    *)
(* tasks there are; here is how one runs: each enabled task has a loop     *)
(* that sleeps and executes, an operator may execute it by hand (run_now), *)
(* and a task may be disabled, enabled, removed and filed anew while it    *)
(* executes.  A cancelled loop that executes ends when what it runs has    *)
(* cleaned up.                                                             *)
(*                                                                         *)
(* A task object is known by its name and its edition: add over a name     *)
(* makes a new object and leaves the loop of the old one.                  *)
(***************************************************************************)
EXTENDS Naturals, FiniteSets

CONSTANTS Names, LoopIds, Hands, \* tasks; the loops there may be; callers of run_now
          MaxEdition             \* bound of the model

ASSUME TaskLoopsAssumption == LoopIds \subseteq Nat \ {0} /\ MaxEdition \in Nat \ {0}

VARIABLES
  made,     \* [name -> how many objects were made of it]
  filed,    \* _tasks: [name -> edition of its object, 0 if none]
  enabled,  \* the objects whose enabled is set
  flag,     \* the objects whose _executing is set
  listed,   \* _running_tasks: [name -> its loop, 0 if none]
  loops,    \* what each loop runs, where it is, and whether it was cancelled
  hands,    \* the callers of run_now: the object each executes
  loopPhase \* the scheduler: "boot", "up", "stopping", "down"

loopVars == <<made, filed, enabled, flag, listed, loops, hands, loopPhase>>

NoObj == <<"none", 0>>
Obj(n) == <<n, filed[n]>>
Unmade == [obj |-> NoObj, at |-> "unmade", kill |-> FALSE]

LoopsInit ==
  /\ made = [n \in Names |-> 1] /\ filed = made
  /\ enabled \in SUBSET {<<n, 1>> : n \in Names}
  /\ flag = {} /\ listed = [n \in Names |-> 0]
  /\ loops = [l \in LoopIds |-> Unmade]
  /\ hands = [h \in Hands |-> NoObj]
  /\ loopPhase = "boot"

\* create_task(_run_loop(task)), which with run_on_start executes before it sleeps.
Created(obj) == {[obj |-> obj, at |-> at, kill |-> FALSE] : at \in {"starts", "sleeps"}}
Free(l) == loops[l].at \in {"unmade", "gone"} /\ \A n \in Names : listed[n] # l

Cancelled(l) == IF l = 0 THEN loops ELSE [loops EXCEPT ![l].kill = TRUE]

\* start.
StartLoops ==
  /\ loopPhase = "boot" /\ loopPhase' = "up"
  /\ \E f \in [{n \in Names : filed[n] # 0 /\ Obj(n) \in enabled} -> LoopIds] :
       /\ \A n, m \in DOMAIN f : n # m => f[n] # f[m]
       /\ listed' = [n \in Names |-> IF n \in DOMAIN f THEN f[n] ELSE 0]
       /\ \E new \in [DOMAIN f -> {"starts", "sleeps"}] :
            loops' = [l \in LoopIds |->
              IF \E n \in DOMAIN f : f[n] = l
              THEN LET n == CHOOSE n \in DOMAIN f : f[n] = l
                   IN  [obj |-> Obj(n), at |-> new[n], kill |-> FALSE]
              ELSE loops[l]]
  /\ UNCHANGED <<made, filed, enabled, flag, hands>>

\* add: a new object, under a new name or over one, and no loop.
AddTask(n, on) ==
  /\ made[n] < MaxEdition
  /\ made' = [made EXCEPT ![n] = @ + 1]
  /\ filed' = [filed EXCEPT ![n] = made[n] + 1]
  /\ enabled' = IF on THEN enabled \cup {<<n, made[n] + 1>>} ELSE enabled
  /\ UNCHANGED <<flag, listed, loops, hands, loopPhase>>

\* remove, of remove_by_scope too.
RemoveTask(n) ==
  /\ filed[n] # 0
  /\ filed' = [filed EXCEPT ![n] = 0]
  /\ loops' = Cancelled(listed[n])
  /\ listed' = [listed EXCEPT ![n] = 0]
  /\ UNCHANGED <<made, enabled, flag, hands, loopPhase>>

\* A bug: a loop is made although the name has one.
BadEnable(n) ==
  /\ filed[n] # 0
  /\ enabled' = enabled \cup {Obj(n)}
  /\ loopPhase = "up"
  /\ \E l \in LoopIds : Free(l) /\ listed' = [listed EXCEPT ![n] = l]
                        /\ \E new \in Created(Obj(n)) : loops' = [loops EXCEPT ![l] = new]
  /\ UNCHANGED <<made, filed, flag, hands, loopPhase>>

\* enable.
Enable(n) ==
  /\ filed[n] # 0
  /\ enabled' = enabled \cup {Obj(n)}
  /\ \/ /\ loopPhase = "up" /\ listed[n] = 0
        /\ \E l \in LoopIds : Free(l) /\ listed' = [listed EXCEPT ![n] = l]
                              /\ \E new \in Created(Obj(n)) : loops' = [loops EXCEPT ![l] = new]
     \/ (loopPhase # "up" \/ listed[n] # 0) /\ UNCHANGED <<listed, loops>>
  /\ UNCHANGED <<made, filed, flag, hands, loopPhase>>

\* disable.
Disable(n) ==
  /\ filed[n] # 0
  /\ enabled' = enabled \ {Obj(n)}
  /\ loops' = Cancelled(listed[n])
  /\ listed' = [listed EXCEPT ![n] = 0]
  /\ UNCHANGED <<made, filed, flag, hands, loopPhase>>

\* stop: every listed loop is cancelled and awaited, then all are forgotten.
StopLoops ==
  /\ loopPhase = "up" /\ loopPhase' = "stopping"
  /\ loops' = [l \in LoopIds |-> IF \E n \in Names : listed[n] = l
                                 THEN [loops[l] EXCEPT !.kill = TRUE] ELSE loops[l]]
  /\ UNCHANGED <<made, filed, enabled, flag, listed, hands>>

LoopsStopped ==
  /\ loopPhase = "stopping" /\ \A n \in Names : listed[n] # 0 => loops[listed[n]].at = "gone"
  /\ loopPhase' = "down"
  /\ listed' = [n \in Names |-> 0]
  /\ UNCHANGED <<made, filed, enabled, flag, loops, hands>>

\* _execute, of an object that is executing already.
Skips(obj) == UNCHANGED flag

\* The loop's next turn: a sleep is over, or it starts with an execution.
LoopTurns(l) ==
  /\ loops[l].at \in {"starts", "sleeps"}
  /\ LET obj == loops[l].obj
         at(where) == loops' = [loops EXCEPT ![l].at = where]
     IN \/ /\ loops[l].kill \/ (loops[l].at = "sleeps" /\ obj \notin enabled)
           /\ at("gone") /\ UNCHANGED flag
        \/ /\ ~loops[l].kill /\ (loops[l].at = "starts" \/ obj \in enabled)
           /\ \/ obj \in flag /\ at("sleeps") /\ Skips(obj)
              \/ obj \notin flag /\ at("executes") /\ flag' = flag \cup {obj}
  /\ UNCHANGED <<made, filed, enabled, listed, hands, loopPhase>>

\* The execution succeeds, fails or times out; a cancelled loop ends with it, and
\* so does one whose function lets a CancelledError of its own out.
LoopReturns(l) ==
  /\ loops[l].at = "executes"
  /\ flag' = flag \ {loops[l].obj}
  /\ \E where \in IF loops[l].kill THEN {"gone"} ELSE {"sleeps", "gone"} :
       loops' = [loops EXCEPT ![l].at = where]
  /\ UNCHANGED <<made, filed, enabled, listed, hands, loopPhase>>

\* run_now: enabled or not.
RunNow(h, n) ==
  /\ hands[h] = NoObj /\ filed[n] # 0
  /\ \/ Obj(n) \in flag /\ Skips(Obj(n)) /\ UNCHANGED hands
     \/ /\ Obj(n) \notin flag
        /\ flag' = flag \cup {Obj(n)}
        /\ hands' = [hands EXCEPT ![h] = Obj(n)]
  /\ UNCHANGED <<made, filed, enabled, listed, loops, loopPhase>>

RunNowReturns(h) ==
  /\ hands[h] # NoObj
  /\ flag' = flag \ {hands[h]}
  /\ hands' = [hands EXCEPT ![h] = NoObj]
  /\ UNCHANGED <<made, filed, enabled, listed, loops, loopPhase>>

LoopsNext ==
  \/ StartLoops \/ StopLoops \/ LoopsStopped
  \/ \E n \in Names :
       \/ \E on \in BOOLEAN : AddTask(n, on)
       \/ RemoveTask(n) \/ Enable(n) \/ Disable(n)
       \/ \E h \in Hands : RunNow(h, n)
  \/ \E l \in LoopIds : LoopTurns(l) \/ LoopReturns(l)
  \/ \E h \in Hands : RunNowReturns(h)

LoopsSpec == LoopsInit /\ [][LoopsNext]_loopVars

----------------------------------------------------------------------------
Executors(obj) ==
  {l \in LoopIds : loops[l].at = "executes" /\ loops[l].obj = obj} \cup {h \in Hands : hands[h] = obj}

\* However a task is started, stopped, replaced and executed by hand, it is never
\* executed twice at the same time, its flag is set exactly while it is
\* executed, and every loop that has not been told to end is the one its name
\* lists, so that disable, remove and stop reach it.
LoopsInHand ==
  /\ \A n \in Names, e \in 1..MaxEdition :
       /\ Cardinality(Executors(<<n, e>>)) <= 1
       /\ <<n, e>> \in flag <=> Executors(<<n, e>>) # {}
  /\ \A l \in LoopIds :
       loops[l].at \in {"starts", "sleeps", "executes"} /\ ~loops[l].kill =>
         \E n \in Names : listed[n] = l /\ loops[l].obj[1] = n
  /\ loopPhase = "down" => \A l \in LoopIds : loops[l].at = "gone" \/ loops[l].kill \/ loops[l].at = "unmade"
=============================================================================
