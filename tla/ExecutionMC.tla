---------------------------- MODULE ExecutionMC ----------------------------
(***************************************************************************)
(* What a process does at the same time: Pis, modes and tasks run, the     *)
(* scheduler's loops turn, users schedule, the client talks to the gateway *)
(* and events are streamed.  The modules share no state, so a behaviour    *)
(* exercises one of them, and of the executions and tasks those that meet. *)
(* focus says which.                                                       *)
(***************************************************************************)
EXTENDS TLC, PiRun, ExecutionModes, TaskRouting, TaskLoops, UserSchedules, GatewayClient,
        EventStream

VARIABLE focus
vars == <<focus, piVars, exVars, trVars, loopVars, userVars, clientVars, streamVars>>

MCCostRank == "qwen" :> 2 @@ "haiku" :> 5 @@ "sonnet" :> 7
MCProviderOf == "qwen" :> "openai" @@ "haiku" :> "anthropic" @@ "sonnet" :> "anthropic"
MCPenalty == "en" :> [m \in DOMAIN MCCostRank |-> 4] @@ "zh" :> ("qwen" :> 4 @@ "haiku" :> 8 @@ "sonnet" :> 5)
MCLangOf == "r" :> "en" @@ "s" :> "zh"

MCModeOf ==
  "loop1" :> "loop" @@ "loop2" :> "loop" @@ "judged" :> "council" @@ "plain" :> "council" @@
  "headless" :> "council" @@ "abreast" :> "parallel" @@ "inline" :> "sequential" @@
  "pipe" :> "collaborative" @@ "branch" :> "conditional" @@ "lost" :> "conditional" @@ "alone" :> "default"

MCOwnerOf == "info" :> "none" @@ "stock" :> "none" @@ "meta" :> "none" @@ "c/own" :> "c"
MCCompanyOf == "said" :> "c" @@ "tagged" :> "c" @@ "fits" :> "c" @@ "direct" :> "none" @@ "odd" :> "none"
MCTagOf == [r \in DOMAIN MCCompanyOf |-> IF r = "tagged" THEN "c/own" ELSE "none"]
MCBoundTo == [r \in DOMAIN MCCompanyOf |-> IF r = "direct" THEN "stock" ELSE "none"]
OwnBinding == [team |-> "c/own", owner |-> "c", rank |-> 1]
StockBinding == [team |-> "stock", owner |-> "none", rank |-> 2]
MCBindings == {OwnBinding, StockBinding}
MCMatches == [r \in DOMAIN MCCompanyOf |-> IF r = "fits" THEN MCBindings ELSE {}]
MCKeywords == [r \in DOMAIN MCCompanyOf |-> "info" :> 1 @@ "stock" :> 1 @@ "meta" :> 3 @@ "c/own" :> 2]

\* The loops meet, in the progress file of their task; other executions run alone.
LoopsOfTask == {e \in Executions : ModeOf[e] = "loop"}
Groups == {LoopsOfTask} \cup {{e} : e \in Executions \ LoopsOfTask}

Init ==
  /\ focus \in {{m} : m \in {"pi", "loops", "schedules", "client", "stream"}} \cup Groups
                \cup {{r} : r \in Tasks}
  /\ PiInit /\ ExInit /\ TrInit /\ LoopsInit /\ UserInit /\ ClientInit /\ StreamInit
  /\ focus # {"pi"} => sdk = "works"
  /\ focus # {"loops"} => enabled = {}
  /\ focus # {"client"} => reconnect
  /\ focus # {"schedules"} => malformed = {}

Next ==
  /\ UNCHANGED focus
  /\ \/ focus = {"pi"} /\ PiNext /\ UNCHANGED <<exVars, trVars, loopVars, userVars, clientVars, streamVars>>
     \/ /\ focus \in Groups /\ \E e \in focus : ExStep(e)
        /\ UNCHANGED <<piVars, trVars, loopVars, userVars, clientVars, streamVars>>
     \/ /\ focus \subseteq Tasks /\ ((\E r \in focus : TaskStep(r)) \/ EnvStep)
        /\ UNCHANGED <<piVars, exVars, loopVars, userVars, clientVars, streamVars>>
     \/ focus = {"loops"} /\ LoopsNext /\ UNCHANGED <<piVars, exVars, trVars, userVars, clientVars, streamVars>>
     \/ focus = {"schedules"} /\ UserNext /\ UNCHANGED <<piVars, exVars, trVars, loopVars, clientVars, streamVars>>
     \/ focus = {"client"} /\ ClientNext /\ UNCHANGED <<piVars, exVars, trVars, loopVars, userVars, streamVars>>
     \/ focus = {"stream"} /\ StreamNext /\ UNCHANGED <<piVars, exVars, trVars, loopVars, userVars, clientVars>>

Spec == Init /\ [][Next]_vars

\* What is scheduled is what runs: the scheduler's loops and its table, and the
\* users' timers and their rows, a date's job at most once.
SchedulesInHand == LoopsInHand /\ TimersFollowRows /\ DateFiresOnce
=============================================================================
