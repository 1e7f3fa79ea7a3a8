----------------------------- MODULE CostGateMC -----------------------------
(* Instances of CostGate for TLC: what requests ask for in each run, budgets, *)
(* and the symmetry of the requests (they are only compared for equality).    *)
EXTENDS CostGate, TLC

Asks(ts, cs, ps, prices) ==
    [team : ts, company : cs, priority : ps, cost : prices, cheaper : {TRUE}]

\* One company, normal requests of two prices and a critical one; no company, one
\* request between the tiers and one of a team with a budget.
SafetyKinds == Asks({"t"}, {"c"}, {"normal"}, {1, 2}) \cup Asks({"t"}, {"c"}, {"critical"}, {2})
                 \cup Asks({"t"}, {"none"}, {"high"}, {2}) \cup Asks({"u"}, {"none"}, {"normal"}, {1})
\* One price, priorities that pass the limit or do not.
UnitKinds == Asks({"t"}, {"none"}, {"normal", "critical"}, {1})

NoBudget == [t \in Teams |-> 0]
\* A budget for the team "u" alone.
UnitBudget == [t \in Teams |-> IF t = "u" THEN 1 ELSE 0]
NoCap == [c \in Companies |-> 0]
CapTwo == [c \in Companies |-> 2]

Symm == Permutations(Reqs)
=============================================================================
