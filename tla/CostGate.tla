------------------------------ MODULE CostGate ------------------------------
(***************************************************************************)
(* companest/cost_gate.py and the part of run_team (orchestrator.py) that  *)
(* calls it: a request is evaluated under one asyncio lock, may wait there *)
(* for the user's approval, runs, and has its cost written to the spending *)
(* log afterwards.  The checks read the log, so whatever is approved and   *)
(* not written yet is invisible to them.                                   *)
(*                                                                         *)
(* A step is what one coroutine does between two awaits: taking the lock,  *)
(* sending the approval request, waiting for the answer, the team's run    *)
(* and the event that precedes the record.  The gate always has a notifier *)
(* (the orchestrator builds it with one).                                  *)
(*                                                                         *)
(* Amounts are in units of the smallest cost, times in ticks.              *)
(***************************************************************************)
EXTENDS Integers, Sequences, FiniteSets, FiniteSetsExt

CONSTANTS
    Reqs,               \* the calls of run_team
    Teams, Companies,
    NoCompany,          \* the company of a request that has none
    Kinds,              \* what requests may ask for: team, company, priority,
                        \* cost, and whether there is a cheaper model
    MaxCost,            \* the dearest estimate
    Callers,            \* calls of run_team in progress at a time: the job
                        \* workers and the gateway's slots
    Mode,               \* budget.json: "post_hoc" or "approval"
    CompanyCap,         \* budget_hourly_usd of each company; 0 is none
    TeamBudget,         \* team_budgets[..].daily of each team; 0 is none
    OverflowPool,
    DailyLimit,
    BreakerThreshold,   \* daily_limit * threshold_pct
    AutoThreshold,      \* auto_approve_threshold
    EscalateThreshold,  \* escalation_threshold
    Hour,               \* the company's window
    Window,             \* rolling_window_hours
    BreakerWindow, Cooldown,
    CancelIn,           \* environment: where calls are cancelled (the gateway's
                        \* wait_for, a stopped scheduler or worker)
    MaxTime,            \* bound: ticks
    MaxRestarts         \* bound: restarts of the process

Priorities == {"critical", "high", "normal", "low"}
Replies == {"approve", "downgrade", "reject"}

ASSUME ReqsAssumption == IsFiniteSet(Reqs)
ASSUME TeamsAssumption == IsFiniteSet(Teams)
ASSUME KindsAssumption ==
    Kinds \subseteq [team : Teams, company : Companies \cup {NoCompany},
                     priority : Priorities, cost : 1..MaxCost, cheaper : BOOLEAN]
ASSUME CompanyAssumption == NoCompany \notin Companies
ASSUME BudgetAssumption ==
    /\ MaxCost \in Nat /\ Callers \in Nat \ {0}
    /\ Mode \in {"post_hoc", "approval"}
    /\ CompanyCap \in [Companies -> Nat] /\ TeamBudget \in [Teams -> Nat]
    /\ {OverflowPool, DailyLimit, BreakerThreshold, AutoThreshold, EscalateThreshold}
         \subseteq Nat
ASSUME TimeAssumption ==
    {Hour, Window, BreakerWindow, Cooldown, MaxTime, MaxRestarts} \subseteq Nat
ASSUME CancelAssumption ==
    CancelIn \subseteq {"queued", "asking", "waiting", "running", "ran"}

(* A definition whose name starts with Bad is a mutant of the definition below *)
(* it: the same code with a plausible mistake, used to see that the properties *)
(* notice.  No action of Next uses one.                                        *)

VARIABLES
    ask,        \* what each request asks for
    pc,         \* where each call of run_team is
    line,       \* the calls waiting for _budget_lock, first come first served
    reason,     \* why the gate decided as it did
    open,       \* the keys of _pending
    answer,     \* the result of each request's future
    model,      \* the model each request's team ran on
    paid,       \* spending-log.json: the time of each request's entry; 0 is none
    fed,        \* the entries the circuit breaker was fed and not reset since
    tripped,    \* _tripped_at; 0 is None
    now,
    restarts

vars == <<ask, pc, line, reason, open, answer, model, paid, fed, tripped, now, restarts>>
money == <<paid, fed>>

-----------------------------------------------------------------------------
(* Spending. *)

\* A sum of costs, as the number of units in a set of priced requests.
Units(S) == {u \in S \X (1..MaxCost) : u[2] <= ask[u[1]].cost}
Spend(S) == Cardinality(Units(S))

Recent(width) == {r \in Reqs : paid[r] # 0 /\ paid[r] >= now - width}
OfCompany(c)  == {r \in Reqs : ask[r].company = c}
OfTeam(t)     == {r \in Reqs : ask[r].team = t}

TeamSpent(t) == Spend(Recent(Window) \cap OfTeam(t))

\* _get_overflow_usage: what the teams spent beyond their budgets.
Beyond(t, spent) == IF TeamBudget[t] > 0 /\ spent > TeamBudget[t] THEN spent - TeamBudget[t] ELSE 0
OverflowUsed == MapThenSumSet(LAMBDA t : Beyond(t, TeamSpent(t)), Teams)

-----------------------------------------------------------------------------
(* The checks of _evaluate_locked, in its order. *)

\* Compares what was spent alone.
BadOverCompanyCap(r) ==
    LET c == ask[r].company IN
      /\ c \in Companies /\ CompanyCap[c] > 0
      /\ Spend(Recent(Hour) \cap OfCompany(c)) > CompanyCap[c]

OverCompanyCap(r) ==
    LET c == ask[r].company IN
      /\ c \in Companies /\ CompanyCap[c] > 0
      /\ Spend(Recent(Hour) \cap OfCompany(c)) + ask[r].cost > CompanyCap[c]

\* is_tripped: a breaker whose cooldown is over lets one request pass unseen.
CoolingDown == tripped # 0 /\ now - tripped < Cooldown
Velocity    == Spend(fed \cap Recent(BreakerWindow))
TripsNow    == tripped = 0 /\ Velocity >= BreakerThreshold
BreakerOpen == CoolingDown \/ TripsNow

OverTeamBudget(r) ==
    LET t == ask[r].team
        overage == TeamSpent(t) + ask[r].cost - TeamBudget[t]
    IN /\ TeamBudget[t] > 0 /\ overage > 0
       /\ overage > (IF OverflowPool > OverflowUsed THEN OverflowPool - OverflowUsed ELSE 0)

OverLimit(r) == Spend(Recent(Window)) + ask[r].cost > DailyLimit

\* The priority's multiplier, doubled: high 3, normal 1, low 1/2.
Twice(p) == CASE p = "high" -> 6 [] p = "normal" -> 2 [] p = "low" -> 1
Below(r, threshold) == 2 * ask[r].cost < threshold * Twice(ask[r].priority)

ThreeTiers(r) ==
    IF OverLimit(r) THEN "limit"
    ELSE IF Below(r, AutoThreshold) THEN "auto"
    ELSE IF Below(r, EscalateThreshold) THEN "notify"
    ELSE "dear"

\* Skips the breaker.
BadVerdict(r) ==
    IF ask[r].priority = "critical" THEN "auto"
    ELSE IF OverCompanyCap(r) THEN "company"
    ELSE IF OverTeamBudget(r) THEN "team"
    ELSE IF Mode = "approval" THEN ThreeTiers(r)
    ELSE IF OverLimit(r) /\ ask[r].priority # "high" THEN "limit"
    ELSE "auto"

Verdict(r) ==
    IF ask[r].priority = "critical" THEN "auto"
    ELSE IF OverCompanyCap(r) THEN "company"
    ELSE IF BreakerOpen THEN "breaker"
    ELSE IF OverTeamBudget(r) THEN "team"
    ELSE IF Mode = "approval" THEN ThreeTiers(r)
    ELSE IF OverLimit(r) /\ ask[r].priority # "high" THEN "limit"
    ELSE "auto"

-----------------------------------------------------------------------------
Init == /\ ask \in [Reqs -> Kinds]
        /\ pc = [r \in Reqs |-> "new"]
        /\ line = <<>>
        /\ reason = [r \in Reqs |-> "none"]
        /\ open = {}
        /\ answer = [r \in Reqs |-> "none"]
        /\ model = [r \in Reqs |-> "none"]
        /\ paid = [r \in Reqs |-> 0]
        /\ fed = {} /\ tripped = 0
        /\ now = 1 /\ restarts = 0

Asking     == {"asking", "waiting"}
InProgress == {"queued", "asking", "waiting", "running", "ran"}
Active     == {r \in Reqs : pc[r] \in InProgress}
Holders    == {r \in Reqs : pc[r] \in Asking}

Goes(r, where) == pc' = [pc EXCEPT ![r] = where]

\* r gives up its place in the line, if it has one.
Leaves(r) ==
    IF pc[r] = "queued"
    THEN \E n \in DOMAIN line :
           /\ line[n] = r
           /\ line' = [i \in 1..(Len(line) - 1) |-> IF i < n THEN line[i] ELSE line[i + 1]]
    ELSE UNCHANGED line

\* run_team calls evaluate() and waits for the lock.
Arrive(r) ==
    /\ pc[r] = "new" /\ Cardinality(Active) < Callers
    /\ Goes(r, "queued")
    /\ line' = Append(line, r)
    /\ UNCHANGED <<ask, reason, open, answer, model, money, tripped, now, restarts>>

\* Takes the model from the user's answer.
BadBeginsRun(r) == Goes(r, "running") /\ model' = [model EXCEPT ![r] = answer[r]]

\* The lead Pi's model runs the task, whatever the decision's estimate names.
BeginsRun(r) == Goes(r, "running") /\ model' = [model EXCEPT ![r] = "lead"]

\* evaluate(): the first in line gets the free lock and the checks are made.
\* A decision releases the lock; an escalation keeps it.
Evaluate(r) ==
    /\ line # <<>> /\ Head(line) = r /\ Holders = {}
    /\ line' = Tail(line)
    /\ reason' = [reason EXCEPT ![r] = Verdict(r)]
    /\ IF ask[r].priority = "critical" \/ OverCompanyCap(r) THEN UNCHANGED tripped
       ELSE tripped' = IF TripsNow THEN now ELSE IF CoolingDown THEN tripped ELSE 0
    /\ CASE Verdict(r) \in {"auto", "notify"} -> BeginsRun(r) /\ UNCHANGED open
         [] Verdict(r) = "company" -> Goes(r, "rejected") /\ UNCHANGED <<open, model>>
         [] OTHER -> Goes(r, "asking") /\ open' = open \cup {r} /\ UNCHANGED model
    /\ UNCHANGED <<ask, answer, money, now, restarts>>

\* request_approval() has sent the message, or failed to and logged it.
Asked(r) ==
    /\ pc[r] = "asking"
    /\ Goes(r, "waiting")
    /\ UNCHANGED <<ask, line, reason, open, answer, model, money, tripped, now, restarts>>

\* resolve_approval(), from the HTTP endpoint.
Resolve(r, choice) ==
    /\ r \in open /\ answer[r] = "none"
    /\ answer' = [answer EXCEPT ![r] = choice]
    /\ UNCHANGED <<ask, pc, line, reason, open, model, money, tripped, now, restarts>>

\* Consent to a cheaper model that does not exist is a refusal.
Consents(r) == answer[r] = "approve" \/ (answer[r] = "downgrade" /\ ask[r].cheaper)

\* The gate reads the answer.
Decide(r) ==
    /\ pc[r] = "waiting" /\ answer[r] # "none"
    /\ open' = open \ {r}
    /\ IF Consents(r) THEN BeginsRun(r) ELSE Goes(r, "rejected") /\ UNCHANGED model
    /\ UNCHANGED <<ask, line, reason, answer, money, tripped, now, restarts>>

\* The default answer is yes.
BadExpire(r) ==
    /\ pc[r] = "waiting"
    /\ open' = open \ {r}
    /\ BeginsRun(r)
    /\ UNCHANGED <<ask, line, reason, answer, money, tripped, now, restarts>>

\* Waits without a timer.
BadExpireNever(r) == FALSE /\ UNCHANGED vars

\* Leaves the approval in _pending.
BadExpireKeeps(r) ==
    /\ pc[r] = "waiting"
    /\ Goes(r, "rejected")
    /\ UNCHANGED <<ask, line, reason, open, answer, model, money, tripped, now, restarts>>

\* wait_for times out.  An answer that came in the same pass of the event loop
\* is lost: the timer has cancelled the waiting task by then.
Expire(r) ==
    /\ pc[r] = "waiting"
    /\ open' = open \ {r}
    /\ Goes(r, "rejected")
    /\ UNCHANGED <<ask, line, reason, answer, model, money, tripped, now, restarts>>

\* The team returned its result, or raised: a failed run is not recorded.
Returns(r) ==
    /\ pc[r] = "running"
    /\ Goes(r, "ran") \/ Goes(r, "failed")
    /\ UNCHANGED <<ask, line, reason, open, answer, model, money, tripped, now, restarts>>

\* The TASK_COMPLETED event is out: record_spending() writes the log and feeds
\* the breaker.
Record(r) ==
    /\ pc[r] = "ran"
    /\ Goes(r, "recorded")
    /\ paid' = [paid EXCEPT ![r] = now]
    /\ fed' = fed \cup {r}
    /\ UNCHANGED <<ask, line, reason, open, answer, model, tripped, now, restarts>>

\* The call is cancelled.  The finally clause covers the wait for the answer; it
\* does not cover the sending of the request, whose approval is orphaned.
Cancel(r) ==
    /\ pc[r] \in CancelIn
    /\ Goes(r, IF pc[r] = "asking" THEN "orphaned" ELSE "cancelled")
    /\ Leaves(r)
    /\ open' = IF pc[r] = "waiting" THEN open \ {r} ELSE open
    /\ UNCHANGED <<ask, reason, answer, model, money, tripped, now, restarts>>

\* POST /api/finance/circuit-breaker/reset.
ResetBreaker ==
    /\ tripped' = 0 /\ fed' = {}
    /\ UNCHANGED <<ask, pc, line, reason, open, answer, model, paid, now, restarts>>

Tick == /\ now < MaxTime
        /\ now' = now + 1
        /\ UNCHANGED <<ask, pc, line, reason, open, answer, model, money, tripped, restarts>>

\* The process dies and comes back: the log is all that is left.
Restart ==
    /\ restarts < MaxRestarts
    /\ restarts' = restarts + 1
    /\ pc' = [r \in Reqs |-> IF r \in Active THEN "cancelled" ELSE pc[r]]
    /\ line' = <<>> /\ open' = {} /\ fed' = {} /\ tripped' = 0
    /\ UNCHANGED <<ask, reason, answer, model, paid, now>>

Request(r) == \/ Arrive(r) \/ Evaluate(r) \/ Asked(r) \/ Decide(r) \/ Expire(r)
              \/ Returns(r) \/ Record(r) \/ Cancel(r)
User == \E r \in Reqs, choice \in Replies : Resolve(r, choice)

Next == (\E r \in Reqs : Request(r)) \/ User \/ ResetBreaker \/ Tick \/ Restart

Spec == Init /\ [][Next]_vars

\* The event loop serves whoever holds or gets the lock, wait_for's timer goes
\* off, a team's run ends.  Nothing is assumed of the user or of cancellations.
Fairness == \A r \in Reqs : /\ WF_vars(Evaluate(r)) /\ WF_vars(Asked(r))
                            /\ WF_vars(Decide(r) \/ Expire(r))
                            /\ WF_vars(Returns(r)) /\ WF_vars(Record(r))

FairSpec == Spec /\ Fairness
-----------------------------------------------------------------------------
(* Properties. *)

Places == {"new", "queued", "asking", "waiting", "running", "ran",
           "recorded", "failed", "rejected", "cancelled", "orphaned"}
Reasons == {"none", "auto", "notify", "company", "breaker", "team", "limit", "dear"}

\* Every variable has its type.
TypeOK ==
    /\ ask \in [Reqs -> Kinds]
    /\ pc \in [Reqs -> Places]
    /\ line \in Seq(Reqs)
    /\ reason \in [Reqs -> Reasons]
    /\ open \subseteq Reqs
    /\ answer \in [Reqs -> Replies \cup {"none"}]
    /\ model \in [Reqs -> {"none", "lead"}]
    /\ paid \in [Reqs -> Nat]
    /\ fed \subseteq Reqs
    /\ tripped \in Nat /\ now \in Nat \ {0} /\ restarts \in Nat

Ran == {"running", "ran", "recorded", "failed"}

\* A request the gate put to the user runs, and is paid for, only with the user's
\* consent: not when nobody answers, not when the answer comes too late, not when
\* the call was cancelled or the process restarted meanwhile.
NoRunWithoutConsent ==
    \A r \in Reqs :
      reason[r] \in {"breaker", "team", "limit", "dear"} /\ (pc[r] \in Ran \/ paid[r] # 0)
        => Consents(r)

\* In approval mode nothing at or above the threshold of its priority runs unasked,
\* except what is critical.
DearNeedsConsent ==
    \A r \in Reqs :
      Mode = "approval" /\ ask[r].priority # "critical" /\ ~Below(r, EscalateThreshold)
        /\ pc[r] \in Ran => Consents(r)

\* The lock is not lost: the calls in line are those that wait for it, once each.
LineIsTheQueued ==
    /\ \A i, k \in DOMAIN line : line[i] = line[k] => i = k
    /\ \A r \in Reqs : pc[r] = "queued" <=> \E i \in DOMAIN line : line[i] = r

\* What the company's checked requests cost: paid within the hour, or still to be.
Checked(c) == {r \in OfCompany(c) : ask[r].priority # "critical"}
Admitted   == {r \in Reqs : pc[r] \in {"asking", "waiting", "running", "ran"}}
CompanyCommitted(c) == Checked(c) \cap (Recent(Hour) \cup Admitted)

\* How far a company can go beyond its hourly budget although every check reads the
\* log before the costs of the others in progress are in it: by the other callers'
\* dearest requests, never by more, whatever the order of approvals and records.
OverspendBounded ==
    \A c \in Companies : CompanyCap[c] > 0 =>
      Spend(CompanyCommitted(c)) <= CompanyCap[c] + (Callers - 1) * MaxCost

\* The requests that pass the rolling limit without the user.
Unasked == {r \in Reqs : /\ reason[r] \in {"auto", "notify"}
                         /\ ask[r].priority # "critical"
                         /\ Mode = "post_hoc" => ask[r].priority # "high"}
LimitCommitted == Unasked \cap (Recent(Window) \cup Admitted)

\* The same for the rolling limit and the requests nobody was asked about.
LimitBounded == Spend(LimitCommitted) <= DailyLimit + (Callers - 1) * MaxCost

\* What passes the breaker unseen within its window is less than its threshold and
\* what is in progress, even when the cooldown lets one request pass (the window is
\* shorter than the cooldown).
VelocityBounded ==
    Spend({r \in fed \cap Recent(BreakerWindow) :
             reason[r] \in {"auto", "notify"} /\ ask[r].priority # "critical"})
      <= BreakerThreshold - 1 + Callers * MaxCost

\* An approval the dashboard shows as pending has a call that waits for it, or one
\* that was cancelled while the user was being asked: nobody takes that one back
\* before the process restarts.
OpenApprovalsAwaited == \A r \in open : pc[r] \in Asking \cup {"orphaned"}

\* Nothing refused, unanswered or dear runs without the user.
ConsentKept == NoRunWithoutConsent /\ DearNeedsConsent

\* The hourly budget and the rolling limit are exceeded by no more than the other
\* callers' requests.
SpendingBounded == OverspendBounded /\ LimitBounded

\* Nobody who waits for the lock is forgotten, and the user is asked for nobody in
\* vain, wherever calls are cancelled but for the sending of the request.
WaitersInHand == LineIsTheQueued /\ OpenApprovalsAwaited

\* Every call that asks the gate is decided, and its run recorded, unless cancelled.
EveryRequestSettles ==
    \A r \in Reqs :
      pc[r] = "queued" ~> pc[r] \in {"recorded", "failed", "rejected", "cancelled", "orphaned"}
=============================================================================
