--------------------------- MODULE CostGateProofs ---------------------------
(* What the cost gate guarantees for all requests, prices, budgets, windows,  *)
(* cancellations and restarts: nothing runs against the user, and spending    *)
(* exceeds a budget at most by what the other callers had in progress.        *)
EXTENDS CostGate, TLAPS, FiniteSetTheorems

\* The calls in progress are no more than there are callers.
CallersBounded == IsFiniteSet(Active) /\ Cardinality(Active) <= Callers

\* Only a recorded call is paid.
PaidIsRecorded == \A r \in Reqs : paid[r] # 0 => pc[r] = "recorded"

\* The inductive invariant.
Basics == TypeOK /\ LineIsTheQueued /\ CallersBounded /\ PaidIsRecorded
IInv == Basics /\ NoRunWithoutConsent /\ OverspendBounded /\ LimitBounded

-----------------------------------------------------------------------------
(* Arithmetic of spending. *)

\* What a request asks for.
LEMMA KindFacts ==
    ASSUME ask \in [Reqs -> Kinds], NEW r \in Reqs
    PROVE  /\ ask[r].cost \in 1..MaxCost /\ ask[r].cost \in Nat
           /\ ask[r].team \in Teams
           /\ ask[r].company \in Companies \cup {NoCompany}
           /\ ask[r].priority \in Priorities
<1>1. ask[r] \in [team : Teams, company : Companies \cup {NoCompany},
                  priority : Priorities, cost : 1..MaxCost, cheaper : BOOLEAN]
  BY KindsAssumption
<1>2. 1..MaxCost \subseteq Nat
  BY BudgetAssumption
<1> QED BY <1>1, <1>2

\* The units of a set of requests are finitely many.
LEMMA UnitsFinite ==
    ASSUME NEW S \in SUBSET Reqs
    PROVE  IsFiniteSet(Units(S)) /\ Spend(S) \in Nat
<1>1. IsFiniteSet(S)
  BY ReqsAssumption, FS_Subset
<1>2. IsFiniteSet(1..MaxCost)
  BY BudgetAssumption, FS_Interval
<1>3. IsFiniteSet(S \X (1..MaxCost))
  BY <1>1, <1>2, FS_Product
<1>4. Units(S) \in SUBSET (S \X (1..MaxCost))
  BY DEF Units
<1>5. IsFiniteSet(Units(S))
  BY <1>3, <1>4, FS_Subset
<1> QED BY <1>5, FS_CardinalityType DEF Spend

\* More requests cost more.
LEMMA SpendMonotonic ==
    ASSUME NEW T \in SUBSET Reqs, NEW S \in SUBSET T
    PROVE  Spend(S) <= Spend(T)
<1>1. Units(S) \in SUBSET Units(T)
  BY DEF Units
<1> QED BY <1>1, UnitsFinite, FS_Subset DEF Spend

\* Two sets cost at most the sum.
LEMMA SpendUnion ==
    ASSUME NEW S \in SUBSET Reqs, NEW T \in SUBSET Reqs
    PROVE  Spend(S \cup T) <= Spend(S) + Spend(T)
<1>1. Units(S \cup T) = Units(S) \cup Units(T)
  BY DEF Units
<1>2. IsFiniteSet(Units(S)) /\ IsFiniteSet(Units(T))
  BY UnitsFinite
<1>3. IsFiniteSet(Units(S) \cap Units(T))
  <2>1. Units(S) \cap Units(T) \in SUBSET Units(S)
    OBVIOUS
  <2> QED BY <1>2, <2>1, FS_Subset
<1>4. Cardinality(Units(S) \cap Units(T)) \in Nat
  BY <1>3, FS_CardinalityType
<1>5. Cardinality(Units(S)) \in Nat /\ Cardinality(Units(T)) \in Nat
  BY <1>2, FS_CardinalityType
<1>6. Cardinality(Units(S) \cup Units(T)) =
        Cardinality(Units(S)) + Cardinality(Units(T)) - Cardinality(Units(S) \cap Units(T))
  BY <1>2, FS_Union
<1>7. Spend(S \cup T) = Cardinality(Units(S) \cup Units(T))
  BY <1>1 DEF Spend
<1>8. Spend(S) = Cardinality(Units(S)) /\ Spend(T) = Cardinality(Units(T))
  BY DEF Spend
<1> QED BY <1>4, <1>5, <1>6, <1>7, <1>8

\* No request costs more than the dearest.
LEMMA SpendCount ==
    ASSUME NEW S \in SUBSET Reqs
    PROVE  /\ IsFiniteSet(S) /\ Cardinality(S) \in Nat
           /\ Spend(S) <= Cardinality(S) * MaxCost
<1>1. IsFiniteSet(S)
  BY ReqsAssumption, FS_Subset
<1>2. IsFiniteSet(1..MaxCost) /\ Cardinality(1..MaxCost) = MaxCost
  <2>1. MaxCost \in Nat /\ MaxCost \in Int /\ 1 \in Int
    BY BudgetAssumption
  <2>2. /\ IsFiniteSet(1..MaxCost)
        /\ Cardinality(1..MaxCost) = IF 1 > MaxCost THEN 0 ELSE MaxCost - 1 + 1
    BY <2>1, FS_Interval
  <2> QED BY <2>1, <2>2
<1>3. IsFiniteSet(S \X (1..MaxCost)) /\ Cardinality(S \X (1..MaxCost)) = Cardinality(S) * MaxCost
  BY <1>1, <1>2, FS_Product
<1>4. Units(S) \in SUBSET (S \X (1..MaxCost))
  BY DEF Units
<1>5. Cardinality(Units(S)) <= Cardinality(S \X (1..MaxCost))
  BY <1>3, <1>4, FS_Subset
<1> QED BY <1>1, <1>3, <1>5, FS_CardinalityType DEF Spend

\* One request costs its price.
LEMMA SpendOne ==
    ASSUME ask \in [Reqs -> Kinds], NEW r \in Reqs
    PROVE  Spend({r}) <= ask[r].cost
<1> DEFINE price == ask[r].cost
<1>1. price \in Nat
  BY KindFacts
<1>2. Units({r}) \in SUBSET ({r} \X (1..price))
  BY <1>1, BudgetAssumption DEF Units
<1> HIDE DEF price
<1>3. IsFiniteSet({r}) /\ Cardinality({r}) = 1
  BY FS_Singleton
<1>4. IsFiniteSet(1..price) /\ Cardinality(1..price) = price
  BY <1>1, FS_Interval
<1>5. IsFiniteSet({r} \X (1..price)) /\ Cardinality({r} \X (1..price)) = price
  <2>1. /\ IsFiniteSet({r} \X (1..price))
        /\ Cardinality({r} \X (1..price)) = Cardinality({r}) * Cardinality(1..price)
    BY <1>3, <1>4, FS_Product
  <2>2. Cardinality({r}) * Cardinality(1..price) = price
    BY <1>1, <1>3, <1>4
  <2> QED BY <2>1, <2>2
<1>6. Cardinality(Units({r})) <= Cardinality({r} \X (1..price))
  BY <1>2, <1>5, FS_Subset
<1>7. Spend({r}) <= price
  BY <1>1, <1>5, <1>6 DEF Spend
<1> QED BY <1>7 DEF price

\* A check passed for r against the paid requests B bounds everything that is paid
\* or in progress, if A holds the others in progress.
LEMMA AdmissionBound ==
    ASSUME ask \in [Reqs -> Kinds], NEW r \in Reqs,
           NEW A \in SUBSET Reqs, NEW B \in SUBSET Reqs, NEW cap \in Nat,
           Cardinality(A) <= Callers - 1, Spend(B) + ask[r].cost <= cap,
           NEW S \in SUBSET (B \cup {r} \cup A)
    PROVE  Spend(S) <= cap + (Callers - 1) * MaxCost
<1> DEFINE k == Callers - 1
           price == ask[r].cost
<1>1. k \in Nat /\ MaxCost \in Nat /\ price \in Nat
  BY BudgetAssumption, KindFacts
<1>2. Spend(S) <= Spend((B \cup {r}) \cup A)
  BY SpendMonotonic
<1>3. Spend((B \cup {r}) \cup A) <= Spend(B \cup {r}) + Spend(A)
  BY SpendUnion
<1>4. Spend(B \cup {r}) <= Spend(B) + Spend({r})
  BY SpendUnion
<1>5. Spend({r}) <= price
  BY SpendOne
<1>6. Spend(A) <= Cardinality(A) * MaxCost /\ Cardinality(A) \in Nat
  BY SpendCount
<1>7. Cardinality(A) * MaxCost <= k * MaxCost
  <2> DEFINE n == Cardinality(A)
  <2>1. n \in Nat /\ n <= k
    BY <1>6
  <2> HIDE DEF n, k
  <2>2. n * MaxCost <= k * MaxCost
    BY <1>1, <2>1, SMTT(30)
  <2> QED BY <2>2 DEF n
<1>8. /\ Spend(S) \in Nat /\ Spend((B \cup {r}) \cup A) \in Nat /\ Spend(B \cup {r}) \in Nat
      /\ Spend(A) \in Nat /\ Spend(B) \in Nat /\ Spend({r}) \in Nat
  <2>1. /\ S \in SUBSET Reqs /\ ((B \cup {r}) \cup A) \in SUBSET Reqs
        /\ (B \cup {r}) \in SUBSET Reqs /\ {r} \in SUBSET Reqs
    OBVIOUS
  <2> QED BY <2>1, UnitsFinite
<1>9. Spend(B) + price <= cap
  OBVIOUS
<1> DEFINE m == k * MaxCost
           am == Cardinality(A) * MaxCost
<1>10. m \in Nat /\ am \in Nat
  BY <1>1, <1>6
<1>11. Spend(A) <= am /\ am <= m
  BY <1>6, <1>7
<1> HIDE DEF m, am, k, price
<1>12. Spend(S) <= cap + m
  BY <1>1, <1>2, <1>3, <1>4, <1>5, <1>8, <1>9, <1>10, <1>11
<1> QED BY <1>12 DEF m, k

-----------------------------------------------------------------------------
(* Typing, the line, the callers. *)

LEMMA TypeInit == Init => TypeOK
BY DEF Init, TypeOK, Places, Reasons, money

\* The verdict is one of the reasons.
LEMMA VerdictType == ASSUME NEW r \in Reqs PROVE Verdict(r) \in Reasons \ {"none"}
BY DEF Verdict, ThreeTiers, Reasons

\* A line without its n-th place is a line.
LEMMA RemovalType ==
    ASSUME NEW s \in Seq(Reqs), NEW n \in DOMAIN s,
           NEW t, t = [i \in 1..(Len(s) - 1) |-> IF i < n THEN s[i] ELSE s[i + 1]]
    PROVE  t \in Seq(Reqs)
<1> DEFINE m == Len(s)
<1>1. m \in Nat /\ n \in 1..m /\ \A i \in 1..m : s[i] \in Reqs
  OBVIOUS
<1>2. t = [i \in 1..(m - 1) |-> IF i < n THEN s[i] ELSE s[i + 1]]
  OBVIOUS
<1> HIDE DEF m
<1>3. t \in [1..(m - 1) -> Reqs] /\ m - 1 \in Nat
  BY <1>1, <1>2
<1> QED BY <1>3

LEMMA TypeNext == TypeOK /\ [Next]_vars => TypeOK'
<1> SUFFICES ASSUME TypeOK, [Next]_vars PROVE TypeOK'
  OBVIOUS
<1> USE DEF TypeOK
<1>1. ASSUME NEW r \in Reqs, Arrive(r) PROVE TypeOK'
  BY <1>1 DEF Arrive, Goes, Places, money
<1>2. ASSUME NEW r \in Reqs, Evaluate(r) PROVE TypeOK'
  <2>1. line' \in Seq(Reqs)
    BY <1>2 DEF Evaluate
  <2>2. reason' \in [Reqs -> Reasons]
    BY <1>2, VerdictType DEF Evaluate
  <2>3. tripped' \in Nat
    BY <1>2 DEF Evaluate
  <2>4. pc' \in [Reqs -> Places] /\ open' \subseteq Reqs /\ model' \in [Reqs -> {"none", "lead"}]
    <3>1. CASE Verdict(r) \in {"auto", "notify"}
      BY <1>2, <3>1 DEF Evaluate, BeginsRun, Goes, Places
    <3>2. CASE Verdict(r) = "company"
      BY <1>2, <3>2 DEF Evaluate, Goes, Places
    <3>3. CASE Verdict(r) \notin {"auto", "notify", "company"}
      BY <1>2, <3>3 DEF Evaluate, Goes, Places
    <3> QED BY <3>1, <3>2, <3>3
  <2> QED BY <1>2, <2>1, <2>2, <2>3, <2>4 DEF Evaluate, money
<1>3. ASSUME NEW r \in Reqs, Asked(r) PROVE TypeOK'
  BY <1>3 DEF Asked, Goes, Places, money
<1>4. ASSUME NEW r \in Reqs, Decide(r) PROVE TypeOK'
  BY <1>4 DEF Decide, BeginsRun, Goes, Places, money
<1>5. ASSUME NEW r \in Reqs, Expire(r) PROVE TypeOK'
  BY <1>5 DEF Expire, Goes, Places, money
<1>6. ASSUME NEW r \in Reqs, Returns(r) PROVE TypeOK'
  BY <1>6 DEF Returns, Goes, Places, money
<1>7. ASSUME NEW r \in Reqs, Record(r) PROVE TypeOK'
  BY <1>7 DEF Record, Goes, Places
<1>8. ASSUME NEW r \in Reqs, Cancel(r) PROVE TypeOK'
  <2>1. line' \in Seq(Reqs)
    <3>1. CASE pc[r] = "queued"
      <4>1. PICK n \in DOMAIN line :
              line' = [i \in 1..(Len(line) - 1) |-> IF i < n THEN line[i] ELSE line[i + 1]]
        BY <1>8, <3>1 DEF Cancel, Leaves
      <4> QED BY <4>1, RemovalType
    <3>2. CASE pc[r] # "queued"
      BY <1>8, <3>2 DEF Cancel, Leaves
    <3> QED BY <3>1, <3>2
  <2> QED BY <1>8, <2>1 DEF Cancel, Goes, Places, money
<1>9. CASE User
  BY <1>9 DEF User, Resolve, money
<1>10. CASE ResetBreaker
  BY <1>10 DEF ResetBreaker
<1>11. CASE Tick
  BY <1>11 DEF Tick, money
<1>12. CASE Restart
  BY <1>12 DEF Restart, Places
<1>13. CASE UNCHANGED vars
  BY <1>13 DEF vars
<1> QED BY <1>1, <1>2, <1>3, <1>4, <1>5, <1>6, <1>7, <1>8, <1>9, <1>10, <1>11, <1>12, <1>13
        DEF Next, Request

\* Who is in line, when a step neither queues a call nor takes one out.
LEMMA LineKept ==
    ASSUME LineIsTheQueued, line' = line,
           \A r \in Reqs : pc'[r] = "queued" <=> pc[r] = "queued"
    PROVE  LineIsTheQueued'
BY DEF LineIsTheQueued

LEMMA LineNext == TypeOK /\ LineIsTheQueued /\ [Next]_vars => LineIsTheQueued'
<1> SUFFICES ASSUME TypeOK, LineIsTheQueued, [Next]_vars PROVE LineIsTheQueued'
  OBVIOUS
<1>t. pc \in [Reqs -> Places] /\ line \in Seq(Reqs)
  BY DEF TypeOK
<1>l. /\ Len(line) \in Nat /\ DOMAIN line = 1..Len(line)
      /\ \A i \in 1..Len(line) : line[i] \in Reqs
  BY <1>t
<1>u. /\ \A i, k \in 1..Len(line) : line[i] = line[k] => i = k
      /\ \A r \in Reqs : pc[r] = "queued" <=> \E i \in 1..Len(line) : line[i] = r
  BY <1>l DEF LineIsTheQueued
<1>1. ASSUME NEW r \in Reqs, Arrive(r) PROVE LineIsTheQueued'
  <2> DEFINE m == Len(line)
  <2>1. /\ DOMAIN line' = 1..(m + 1) /\ line'[m + 1] = r
        /\ \A i \in 1..m : line'[i] = line[i]
        /\ \A i \in 1..(m + 1) : i \in 1..m \/ i = m + 1
    BY <1>1, <1>t, <1>l DEF Arrive
  <2>2. \A i \in 1..m : line[i] # r
    BY <1>1, <1>u DEF Arrive
  <2>3. pc' = [pc EXCEPT ![r] = "queued"] /\ m + 1 \in 1..(m + 1) /\ 1..m \subseteq 1..(m + 1)
    BY <1>1, <1>l DEF Arrive, Goes
  <2> HIDE DEF m
  <2>4. \A i, k \in 1..(m + 1) : line'[i] = line'[k] => i = k
    BY <2>1, <2>2, <1>u DEF m
  <2>5. \A q \in Reqs : pc'[q] = "queued" <=> \E i \in 1..(m + 1) : line'[i] = q
    <3> SUFFICES ASSUME NEW q \in Reqs
                 PROVE  pc'[q] = "queued" <=> \E i \in 1..(m + 1) : line'[i] = q
      OBVIOUS
    <3>1. CASE q = r
      BY <2>1, <2>3, <3>1, <1>t
    <3>2. CASE q # r
      <4>1. pc'[q] = pc[q]
        BY <2>3, <3>2, <1>t
      <4>2. (\E i \in 1..(m + 1) : line'[i] = q) <=> \E i \in 1..m : line[i] = q
        BY <2>1, <2>3, <3>2
      <4> QED BY <4>1, <4>2, <1>u DEF m
    <3> QED BY <3>1, <3>2
  <2> QED BY <2>1, <2>4, <2>5 DEF LineIsTheQueued
<1>2. ASSUME NEW r \in Reqs, Evaluate(r) PROVE LineIsTheQueued'
  <2> DEFINE m == Len(line)
  <2>1. /\ m \in Nat \ {0} /\ line[1] = r /\ DOMAIN line' = 1..(m - 1)
        /\ \A i \in 1..(m - 1) : line'[i] = line[i + 1] /\ i + 1 \in 1..m /\ i + 1 # 1
    BY <1>2, <1>t, <1>l DEF Evaluate
  <2>2. \A q \in Reqs : q # r => pc'[q] = pc[q]
    <3>1. \E w \in {"running", "rejected", "asking"} : Goes(r, w)
      BY <1>2 DEF Evaluate, BeginsRun
    <3> QED BY <3>1, <1>t DEF Goes
  <2>3. pc'[r] # "queued"
    <3>1. \E w \in {"running", "rejected", "asking"} : Goes(r, w)
      BY <1>2 DEF Evaluate, BeginsRun
    <3> QED BY <3>1, <1>t DEF Goes
  <2>4. \A i \in 1..m : i = 1 \/ (i - 1 \in 1..(m - 1) /\ (i - 1) + 1 = i)
    BY <2>1
  <2>0. 1 \in 1..m
    BY <2>1
  <2> HIDE DEF m
  <2>5. \A i, k \in 1..(m - 1) : line'[i] = line'[k] => i = k
    <3> SUFFICES ASSUME NEW i \in 1..(m - 1), NEW k \in 1..(m - 1), line'[i] = line'[k]
                 PROVE  i = k
      OBVIOUS
    <3>1. line[i + 1] = line[k + 1] /\ i + 1 \in 1..m /\ k + 1 \in 1..m
      BY <2>1
    <3>2. i + 1 = k + 1
      BY <3>1, <1>u DEF m
    <3> QED BY <3>2, <2>1
  <2>6. \A q \in Reqs : pc'[q] = "queued" <=> \E i \in 1..(m - 1) : line'[i] = q
    <3> SUFFICES ASSUME NEW q \in Reqs
                 PROVE  pc'[q] = "queued" <=> \E i \in 1..(m - 1) : line'[i] = q
      OBVIOUS
    <3>1. CASE q = r
      <4>1. \A i \in 1..(m - 1) : line'[i] # r
        BY <2>0, <2>1, <1>u DEF m
      <4> QED BY <2>3, <3>1, <4>1
    <3>2. CASE q # r
      <4>1. ASSUME NEW i \in 1..(m - 1), line'[i] = q PROVE \E k \in 1..m : line[k] = q
        <5>1. i + 1 \in 1..m /\ line[i + 1] = q
          BY <2>1, <4>1
        <5> QED BY <5>1
      <4>2. ASSUME NEW i \in 1..m, line[i] = q PROVE \E k \in 1..(m - 1) : line'[k] = q
        <5>1. i # 1
          BY <2>1, <3>2, <4>2
        <5>2. i - 1 \in 1..(m - 1) /\ (i - 1) + 1 = i
          BY <2>4, <5>1
        <5>3. line'[i - 1] = line[(i - 1) + 1]
          BY <2>1, <5>2
        <5> QED BY <4>2, <5>2, <5>3
      <4>3. (\E i \in 1..(m - 1) : line'[i] = q) <=> \E i \in 1..m : line[i] = q
        BY <4>1, <4>2
      <4> QED BY <2>2, <3>2, <4>3, <1>u DEF m
    <3> QED BY <3>1, <3>2
  <2> QED BY <2>1, <2>5, <2>6 DEF LineIsTheQueued
<1>3. ASSUME NEW r \in Reqs, Asked(r) \/ Decide(r) \/ Expire(r) \/ Returns(r) \/ Record(r)
      PROVE  LineIsTheQueued'
  <2>1. line' = line /\ pc[r] # "queued"
        /\ \E w \in Places \ {"queued"} : pc' = [pc EXCEPT ![r] = w]
    BY <1>3 DEF Asked, Decide, Expire, Returns, Record, BeginsRun, Goes, Places
  <2> QED BY <1>t, <2>1, LineKept
<1>4. ASSUME NEW r \in Reqs, Cancel(r) PROVE LineIsTheQueued'
  <2>1. PICK w \in {"cancelled", "orphaned"} : pc' = [pc EXCEPT ![r] = w]
    BY <1>4 DEF Cancel, Goes
  <2>2. CASE pc[r] # "queued"
    <3>1. line' = line
      BY <1>4, <2>2 DEF Cancel, Leaves
    <3> QED BY <1>t, <2>1, <2>2, <3>1, LineKept
  <2>3. CASE pc[r] = "queued"
    <3> DEFINE m == Len(line)
               h(n, i) == IF i < n THEN i ELSE i + 1
    <3>1. PICK n \in 1..m : /\ line[n] = r
                            /\ line' = [i \in 1..(m - 1) |-> IF i < n THEN line[i] ELSE line[i + 1]]
      BY <1>4, <2>3, <1>l DEF Cancel, Leaves
    <3>2. /\ DOMAIN line' = 1..(m - 1)
          /\ \A i \in 1..(m - 1) : line'[i] = line[h(n, i)] /\ h(n, i) \in 1..m /\ h(n, i) # n
      BY <3>1, <1>l
    <3>3. \A i, k \in 1..(m - 1) : h(n, i) = h(n, k) => i = k
      BY <1>l
    <3>4. \A i \in 1..m : i # n => \E k \in 1..(m - 1) : h(n, k) = i
      <4> SUFFICES ASSUME NEW i \in 1..m, i # n PROVE \E k \in 1..(m - 1) : h(n, k) = i
        OBVIOUS
      <4>1. CASE i < n
        <5>1. i \in 1..(m - 1) /\ h(n, i) = i
          BY <4>1, <1>l
        <5> QED BY <5>1
      <4>2. CASE i > n
        <5>1. i - 1 \in 1..(m - 1) /\ h(n, i - 1) = i
          BY <4>2, <1>l
        <5> QED BY <5>1
      <4> QED BY <4>1, <4>2, <1>l
    <3> HIDE DEF m, h
    <3>5. \A i, k \in 1..(m - 1) : line'[i] = line'[k] => i = k
      BY <3>2, <3>3, <1>u DEF m
    <3>6. \A q \in Reqs : pc'[q] = "queued" <=> \E i \in 1..(m - 1) : line'[i] = q
      <4> SUFFICES ASSUME NEW q \in Reqs
                   PROVE  pc'[q] = "queued" <=> \E i \in 1..(m - 1) : line'[i] = q
        OBVIOUS
      <4>1. CASE q = r
        <5>1. \A i \in 1..(m - 1) : line'[i] # r
          BY <3>1, <3>2, <1>u DEF m
        <5> QED BY <4>1, <5>1, <2>1, <1>t
      <4>2. CASE q # r
        <5>1. (\E i \in 1..(m - 1) : line'[i] = q) <=> \E i \in 1..m : line[i] = q
          BY <3>1, <3>2, <3>4, <4>2
        <5>2. pc'[q] = pc[q]
          BY <4>2, <2>1, <1>t
        <5> QED BY <5>1, <5>2, <1>u DEF m
      <4> QED BY <4>1, <4>2
    <3> QED BY <3>2, <3>5, <3>6 DEF LineIsTheQueued
  <2> QED BY <2>2, <2>3
<1>5. CASE User \/ ResetBreaker \/ Tick \/ UNCHANGED vars
  <2>1. line' = line /\ pc' = pc
    BY <1>5 DEF User, Resolve, ResetBreaker, Tick, vars
  <2> QED BY <2>1, LineKept
<1>6. CASE Restart
  <2>1. line' = <<>> /\ \A r \in Reqs : pc'[r] # "queued"
    BY <1>6 DEF Restart, Active, InProgress
  <2> QED BY <2>1 DEF LineIsTheQueued
<1> QED BY <1>1, <1>2, <1>3, <1>4, <1>5, <1>6 DEF Next, Request

\* A step that starts no call keeps the callers' bound.
LEMMA CallersKept ==
    ASSUME CallersBounded, Active' \subseteq Active
    PROVE  CallersBounded'
<1>1. Active' \in SUBSET Active
  OBVIOUS
<1>2. /\ IsFiniteSet(Active') /\ Cardinality(Active') <= Cardinality(Active)
      /\ Cardinality(Active') \in Nat /\ Cardinality(Active) \in Nat
  BY <1>1, FS_Subset, FS_CardinalityType DEF CallersBounded
<1> QED BY <1>2, BudgetAssumption DEF CallersBounded

\* No step but an arrival starts a call; no step but a record pays.
LEMMA BasicsNext == Basics /\ [Next]_vars => Basics'
<1> SUFFICES ASSUME Basics, [Next]_vars PROVE CallersBounded' /\ PaidIsRecorded'
  BY TypeNext, LineNext DEF Basics
<1>t. pc \in [Reqs -> Places] /\ paid \in [Reqs -> Nat]
  BY DEF Basics, TypeOK
<1>1. ASSUME NEW r \in Reqs, Arrive(r) PROVE CallersBounded' /\ PaidIsRecorded'
  <2>1. Active' = Active \cup {r}
    BY <1>1, <1>t DEF Arrive, Goes, Active, InProgress
  <2>2. /\ IsFiniteSet(Active \cup {r})
        /\ Cardinality(Active \cup {r}) = IF r \in Active THEN Cardinality(Active) ELSE Cardinality(Active) + 1
        /\ Cardinality(Active) \in Nat
    BY FS_AddElement, FS_CardinalityType DEF Basics, CallersBounded
  <2>3. Cardinality(Active) < Callers /\ Callers \in Nat
    BY <1>1, BudgetAssumption DEF Arrive
  <2>4. Cardinality(Active \cup {r}) <= Callers
    BY <2>2, <2>3
  <2>5. CallersBounded'
    BY <2>1, <2>2, <2>4 DEF CallersBounded
  <2>6. PaidIsRecorded'
    BY <1>1, <1>t DEF Arrive, Goes, Basics, PaidIsRecorded, money
  <2> QED BY <2>5, <2>6
<1>2. ASSUME NEW r \in Reqs, Evaluate(r) PROVE CallersBounded' /\ PaidIsRecorded'
  <2>1. \E w \in {"running", "rejected", "asking"} : pc' = [pc EXCEPT ![r] = w]
    BY <1>2 DEF Evaluate, BeginsRun, Goes
  <2>2. pc[r] = "queued"
    <3>1. line \in Seq(Reqs) /\ line # <<>> /\ line[1] = r
      BY <1>2 DEF Evaluate, Basics, TypeOK
    <3>2. 1 \in DOMAIN line
      BY <3>1
    <3> QED BY <3>1, <3>2 DEF Basics, LineIsTheQueued
  <2>3. Active' \subseteq Active
    BY <1>t, <2>1, <2>2 DEF Active, InProgress
  <2>4. paid' = paid
    BY <1>2 DEF Evaluate, money
  <2> QED BY <1>t, <2>1, <2>2, <2>3, <2>4, CallersKept DEF Basics, PaidIsRecorded
<1>3. ASSUME NEW r \in Reqs, Asked(r) \/ Decide(r) \/ Expire(r) \/ Returns(r)
      PROVE  CallersBounded' /\ PaidIsRecorded'
  <2>1. /\ pc[r] \in {"asking", "waiting", "running"}
        /\ \E w \in Places : pc' = [pc EXCEPT ![r] = w]
    BY <1>3 DEF Asked, Decide, Expire, Returns, BeginsRun, Goes, Places
  <2>2. Active' \subseteq Active
    BY <1>t, <2>1 DEF Active, InProgress
  <2>3. paid' = paid
    BY <1>3 DEF Asked, Decide, Expire, Returns, money
  <2> QED BY <1>t, <2>1, <2>2, <2>3, CallersKept DEF Basics, PaidIsRecorded
<1>4. ASSUME NEW r \in Reqs, Record(r) PROVE CallersBounded' /\ PaidIsRecorded'
  <2>1. Active' \subseteq Active
    BY <1>4, <1>t DEF Record, Goes, Active, InProgress
  <2>2. PaidIsRecorded'
    BY <1>4, <1>t DEF Record, Goes, Basics, PaidIsRecorded
  <2> QED BY <2>1, <2>2, CallersKept DEF Basics
<1>5. ASSUME NEW r \in Reqs, Cancel(r) PROVE CallersBounded' /\ PaidIsRecorded'
  <2>1. PICK w \in {"cancelled", "orphaned"} : pc' = [pc EXCEPT ![r] = w] /\ paid' = paid
    BY <1>5 DEF Cancel, Goes, money
  <2>2. Active' \subseteq Active
    BY <1>t, <2>1 DEF Active, InProgress
  <2>3. pc[r] # "recorded"
    BY <1>5, CancelAssumption DEF Cancel, InProgress
  <2> QED BY <1>t, <2>1, <2>2, <2>3, CallersKept DEF Basics, PaidIsRecorded
<1>6. CASE User \/ ResetBreaker \/ Tick \/ UNCHANGED vars
  <2>1. pc' = pc /\ paid' = paid
    BY <1>6 DEF User, Resolve, ResetBreaker, Tick, vars, money
  <2>2. Active' = Active
    BY <2>1 DEF Active
  <2> QED BY <2>1, <2>2, CallersKept DEF Basics, PaidIsRecorded
<1>7. CASE Restart
  <2>1. /\ pc' = [r \in Reqs |-> IF r \in Active THEN "cancelled" ELSE pc[r]]
        /\ paid' = paid
    BY <1>7 DEF Restart
  <2>2. Active' \subseteq Active
    BY <1>t, <2>1 DEF Active, InProgress
  <2>3. \A r \in Active : pc[r] # "recorded"
    BY DEF Active, InProgress
  <2> QED BY <1>t, <2>1, <2>2, <2>3, CallersKept DEF Basics, PaidIsRecorded
<1> QED BY <1>1, <1>2, <1>3, <1>4, <1>5, <1>6, <1>7 DEF Next, Request

-----------------------------------------------------------------------------
(* Consent. *)

\* A step that gives no new reason, starts no run without consent and pays for
\* none keeps the rule.
LEMMA ConsentNext == Basics /\ NoRunWithoutConsent /\ [Next]_vars => NoRunWithoutConsent'
<1> SUFFICES ASSUME Basics, NoRunWithoutConsent, [Next]_vars PROVE NoRunWithoutConsent'
  OBVIOUS
<1>t. /\ pc \in [Reqs -> Places] /\ paid \in [Reqs -> Nat] /\ reason \in [Reqs -> Reasons]
      /\ answer \in [Reqs -> Replies \cup {"none"}]
  BY DEF Basics, TypeOK
<1>p. \A r \in Reqs : paid[r] # 0 => pc[r] = "recorded"
  BY DEF Basics, PaidIsRecorded
<1> DEFINE Asks(r) == reason[r] \in {"breaker", "team", "limit", "dear"}
<1>n. \A r \in Reqs : Asks(r) /\ (pc[r] \in Ran \/ paid[r] # 0) => Consents(r)
  BY DEF NoRunWithoutConsent
\* Steps of one call that is not on its way to run unasked.
<1>k. ASSUME NEW r \in Reqs, NEW w \in Places, pc' = [pc EXCEPT ![r] = w],
             reason' = reason, answer' = answer, ask' = ask, paid' = paid,
             w \in Ran => pc[r] \in Ran \/ Consents(r)
      PROVE  NoRunWithoutConsent'
  <2> SUFFICES ASSUME NEW q \in Reqs,
                      reason[q] \in {"breaker", "team", "limit", "dear"},
                      pc'[q] \in Ran \/ paid[q] # 0
               PROVE  Consents(q)
    BY <1>k DEF NoRunWithoutConsent, Consents
  <2>1. CASE q = r
    BY <1>k, <1>t, <1>n, <2>1
  <2>2. CASE q # r
    BY <1>k, <1>t, <1>n, <2>2
  <2> QED BY <2>1, <2>2
<1>1. ASSUME NEW r \in Reqs, Arrive(r) PROVE NoRunWithoutConsent'
  BY <1>1, <1>k DEF Arrive, Goes, Places, Ran, money
<1>2. ASSUME NEW r \in Reqs, Evaluate(r) PROVE NoRunWithoutConsent'
  <2>1. /\ reason' = [reason EXCEPT ![r] = Verdict(r)]
        /\ answer' = answer /\ ask' = ask /\ paid' = paid
    BY <1>2 DEF Evaluate, money
  <2>2. \/ Verdict(r) \in {"auto", "notify", "company"}
           /\ \E w \in {"running", "rejected"} : pc' = [pc EXCEPT ![r] = w]
        \/ pc' = [pc EXCEPT ![r] = "asking"]
    BY <1>2 DEF Evaluate, BeginsRun, Goes
  <2>3. pc[r] = "queued"
    <3>1. line \in Seq(Reqs) /\ line # <<>> /\ line[1] = r
      BY <1>2 DEF Evaluate, Basics, TypeOK
    <3>2. 1 \in DOMAIN line
      BY <3>1
    <3> QED BY <3>1, <3>2 DEF Basics, LineIsTheQueued
  <2>4. paid[r] = 0
    BY <1>p, <2>3
  <2> SUFFICES ASSUME NEW q \in Reqs,
                      reason'[q] \in {"breaker", "team", "limit", "dear"},
                      pc'[q] \in Ran \/ paid[q] # 0
               PROVE  Consents(q)
    BY <2>1 DEF NoRunWithoutConsent, Consents
  <2>5. CASE q = r
    BY <1>t, <2>1, <2>2, <2>4, <2>5 DEF Ran
  <2>6. CASE q # r
    BY <1>t, <1>n, <2>1, <2>2, <2>6
  <2> QED BY <2>5, <2>6
<1>3. ASSUME NEW r \in Reqs, Asked(r) \/ Expire(r) PROVE NoRunWithoutConsent'
  BY <1>3, <1>k DEF Asked, Expire, Goes, Places, Ran, money
<1>4. ASSUME NEW r \in Reqs, Decide(r) PROVE NoRunWithoutConsent'
  BY <1>4, <1>k DEF Decide, BeginsRun, Goes, Places, Ran, money
<1>5. ASSUME NEW r \in Reqs, Returns(r) PROVE NoRunWithoutConsent'
  BY <1>5, <1>k DEF Returns, Goes, Places, Ran, money
<1>6. ASSUME NEW r \in Reqs, Record(r) PROVE NoRunWithoutConsent'
  <2> SUFFICES ASSUME NEW q \in Reqs,
                      reason[q] \in {"breaker", "team", "limit", "dear"},
                      pc'[q] \in Ran \/ paid'[q] # 0
               PROVE  Consents(q)
    BY <1>6 DEF NoRunWithoutConsent, Consents, Record
  <2>1. pc[q] \in Ran \/ paid[q] # 0
    BY <1>6, <1>t DEF Record, Goes, Ran
  <2> QED BY <1>n, <2>1
<1>7. ASSUME NEW r \in Reqs, Cancel(r) PROVE NoRunWithoutConsent'
  BY <1>7, <1>k DEF Cancel, Goes, Places, Ran, money
<1>8. CASE User
  <2>1. PICK r \in Reqs, choice \in Replies : Resolve(r, choice)
    BY <1>8 DEF User
  <2>2. \A q \in Reqs : Consents(q) => Consents(q)'
    BY <2>1, <1>t DEF Resolve, Consents
  <2>3. reason' = reason /\ pc' = pc /\ paid' = paid
    BY <2>1 DEF Resolve, money
  <2> QED BY <2>2, <2>3, <1>n DEF NoRunWithoutConsent
<1>9. CASE ResetBreaker \/ Tick \/ UNCHANGED vars
  BY <1>9 DEF ResetBreaker, Tick, vars, money, NoRunWithoutConsent, Consents
<1>10. CASE Restart
  <2>1. \A r \in Reqs : pc'[r] \in Ran => pc[r] \in Ran
    BY <1>10, <1>t DEF Restart, Ran
  <2> QED BY <1>10, <1>n, <2>1 DEF Restart, NoRunWithoutConsent, Consents
<1> QED BY <1>1, <1>2, <1>3, <1>4, <1>5, <1>6, <1>7, <1>8, <1>9, <1>10 DEF Next, Request

-----------------------------------------------------------------------------
(* Spending. *)

\* What is paid within a window or still to be.
Committed(width) == Recent(width) \cup Admitted

\* No step but an evaluation commits the gate to anything: a record turns what is
\* in progress into what is paid.
LEMMA CommittedKept ==
    ASSUME Basics, [Next]_vars, NEW width \in Nat, \A r \in Reqs : ~Evaluate(r)
    PROVE  /\ Committed(width)' \subseteq Committed(width)
           /\ ask' = ask /\ reason' = reason
<1>t. /\ pc \in [Reqs -> Places] /\ paid \in [Reqs -> Nat]
      /\ now \in Nat /\ now' \in Nat
  BY TypeNext DEF Basics, TypeOK
<1> DEFINE Keeps == /\ Committed(width)' \subseteq Committed(width)
                    /\ ask' = ask /\ reason' = reason
<1>1. ASSUME NEW r \in Reqs, NEW w \in Places, pc' = [pc EXCEPT ![r] = w],
             ask' = ask, reason' = reason, paid' = paid, now' = now,
             w \in {"asking", "waiting", "running", "ran"}
               => pc[r] \in {"asking", "waiting", "running", "ran"}
      PROVE  Keeps
  BY <1>1, <1>t DEF Committed, Recent, Admitted
<1>2. ASSUME NEW r \in Reqs,
             Arrive(r) \/ Asked(r) \/ Decide(r) \/ Expire(r) \/ Returns(r) \/ Cancel(r)
      PROVE  Keeps
  <2>1. /\ ask' = ask /\ reason' = reason /\ paid' = paid /\ now' = now
        /\ \E w \in Places : /\ pc' = [pc EXCEPT ![r] = w]
                             /\ w \in {"asking", "waiting", "running", "ran"}
                                  => pc[r] \in {"asking", "waiting", "running", "ran"}
    BY <1>2 DEF Arrive, Asked, Decide, Expire, Returns, Cancel, BeginsRun, Goes, Places, money
  <2> QED BY <1>1, <2>1
<1>3. ASSUME NEW r \in Reqs, Record(r) PROVE Keeps
  BY <1>3, <1>t DEF Record, Goes, Committed, Recent, Admitted
<1>4. CASE User \/ ResetBreaker \/ UNCHANGED vars
  BY <1>4 DEF User, Resolve, ResetBreaker, vars, money, Committed, Recent, Admitted
<1>5. CASE Tick
  <2>1. /\ now' = now + 1 /\ paid' = paid /\ pc' = pc /\ ask' = ask /\ reason' = reason
    BY <1>5 DEF Tick, money
  <2> QED BY <1>t, <2>1 DEF Committed, Recent, Admitted
<1>6. CASE Restart
  <2>1. /\ pc' = [r \in Reqs |-> IF r \in Active THEN "cancelled" ELSE pc[r]]
        /\ paid' = paid /\ now' = now /\ ask' = ask /\ reason' = reason
    BY <1>6 DEF Restart
  <2> QED BY <1>t, <2>1 DEF Committed, Recent, Admitted
<1> QED BY <1>2, <1>3, <1>4, <1>5, <1>6 DEF Next, Request

\* An evaluation commits the gate to the request it evaluates at most, to nothing if
\* it rejects it, and finds at most the other callers' requests in progress.
LEMMA EvaluateCommits ==
    ASSUME Basics, NEW r \in Reqs, Evaluate(r), NEW width \in Nat
    PROVE  /\ Committed(width)' \subseteq Committed(width) \cup {r}
           /\ Verdict(r) = "company" => Committed(width)' \subseteq Committed(width)
           /\ Admitted \in SUBSET Reqs /\ Cardinality(Admitted) <= Callers - 1
           /\ ask' = ask /\ reason' = [reason EXCEPT ![r] = Verdict(r)]
<1>t. pc \in [Reqs -> Places]
  BY DEF Basics, TypeOK
<1>1. /\ ask' = ask /\ reason' = [reason EXCEPT ![r] = Verdict(r)]
      /\ paid' = paid /\ now' = now
  BY DEF Evaluate, money
<1>2. \/ Verdict(r) \in {"auto", "notify"} /\ pc' = [pc EXCEPT ![r] = "running"]
      \/ Verdict(r) = "company" /\ pc' = [pc EXCEPT ![r] = "rejected"]
      \/ Verdict(r) # "company" /\ pc' = [pc EXCEPT ![r] = "asking"]
  BY DEF Evaluate, BeginsRun, Goes
<1>3. pc[r] = "queued"
  <2>1. line \in Seq(Reqs) /\ line # <<>> /\ line[1] = r
    BY DEF Evaluate, Basics, TypeOK
  <2>2. 1 \in DOMAIN line
    BY <2>1
  <2> QED BY <2>1, <2>2 DEF Basics, LineIsTheQueued
<1>4. r \in Active /\ Admitted \in SUBSET (Active \ {r})
  BY <1>3 DEF Active, Admitted, InProgress
<1>5. Cardinality(Admitted) <= Callers - 1
  <2>1. IsFiniteSet(Active) /\ Cardinality(Active) <= Callers
    BY DEF Basics, CallersBounded
  <2>2. /\ IsFiniteSet(Active \ {r})
        /\ Cardinality(Active \ {r}) = Cardinality(Active) - 1
    BY <1>4, <2>1, FS_RemoveElement
  <2>3. Cardinality(Admitted) <= Cardinality(Active \ {r}) /\ IsFiniteSet(Admitted)
    BY <1>4, <2>2, FS_Subset
  <2>4. /\ Cardinality(Active) \in Nat /\ Cardinality(Active \ {r}) \in Nat
        /\ Cardinality(Admitted) \in Nat /\ Callers \in Nat
    BY <2>1, <2>2, <2>3, FS_CardinalityType, BudgetAssumption
  <2> QED BY <2>1, <2>2, <2>3, <2>4
<1>6. /\ Committed(width)' \subseteq Committed(width) \cup {r}
      /\ Verdict(r) = "company" => Committed(width)' \subseteq Committed(width)
  BY <1>1, <1>2, <1>3, <1>t DEF Committed, Recent, Admitted
<1>7. Admitted \in SUBSET Reqs
  BY DEF Admitted
<1> QED BY <1>1, <1>5, <1>6, <1>7

\* Nothing is committed at first.
LEMMA BoundsInit == Init => OverspendBounded /\ LimitBounded
<1> SUFFICES ASSUME Init PROVE OverspendBounded /\ LimitBounded
  OBVIOUS
<1>1. /\ \A c \in Companies : CompanyCommitted(c) = {}
      /\ LimitCommitted = {}
  BY DEF Init, CompanyCommitted, LimitCommitted, Recent, Admitted
<1>2. Spend({}) \in Nat /\ Spend({}) <= 0
  <2>1. Cardinality({}) * MaxCost = 0
    BY FS_EmptySet, BudgetAssumption
  <2>2. {} \in SUBSET Reqs
    OBVIOUS
  <2> QED BY <2>1, <2>2, SpendCount, UnitsFinite
<1>3. (Callers - 1) * MaxCost \in Nat
  BY BudgetAssumption
<1>4. \A c \in Companies : CompanyCap[c] \in Nat
  BY BudgetAssumption
<1>5. DailyLimit \in Nat
  BY BudgetAssumption
<1> DEFINE m == (Callers - 1) * MaxCost
<1> HIDE DEF m
<1> DEFINE zero == Spend({})
<1>z. zero \in Nat /\ zero <= 0
  BY <1>2
<1>6. ASSUME NEW c \in Companies PROVE Spend(CompanyCommitted(c)) <= CompanyCap[c] + m
  <2>1. Spend(CompanyCommitted(c)) = zero
    BY <1>1
  <2> HIDE DEF zero
  <2> QED BY <2>1, <1>z, <1>3, <1>4 DEF m
<1>7. Spend(LimitCommitted) <= DailyLimit + m
  <2>1. Spend(LimitCommitted) = zero
    BY <1>1
  <2> HIDE DEF zero
  <2> QED BY <2>1, <1>z, <1>3, <1>5 DEF m
<1> QED BY <1>6, <1>7 DEF OverspendBounded, LimitBounded, m

\* A company's commitments grow by a checked request only.
LEMMA OverspendNext == Basics /\ OverspendBounded /\ [Next]_vars => OverspendBounded'
<1> SUFFICES ASSUME Basics, OverspendBounded, [Next]_vars,
                    NEW c \in Companies, CompanyCap[c] > 0
             PROVE  (Spend(CompanyCommitted(c)) <= CompanyCap[c] + (Callers - 1) * MaxCost)'
  BY DEF OverspendBounded
<1>t. ask \in [Reqs -> Kinds] /\ CompanyCap[c] \in Nat /\ Hour \in Nat
  BY BudgetAssumption, TimeAssumption DEF Basics, TypeOK
<1>w. CompanyCommitted(c) = Checked(c) \cap Committed(Hour)
  BY DEF CompanyCommitted, Committed
<1>w2. CompanyCommitted(c)' = Checked(c)' \cap Committed(Hour)'
  BY DEF CompanyCommitted, Committed
<1>a. ask' = ask
  BY CommittedKept, EvaluateCommits, <1>t
<1>b. Checked(c)' = Checked(c)
  BY <1>a DEF Checked, OfCompany
<1> DEFINE T == CompanyCommitted(c)'
<1>c. Spend(CompanyCommitted(c))' = Spend(T)
  BY <1>a DEF Spend, Units
<1>d. T = Checked(c) \cap Committed(Hour)'
  BY <1>w2, <1>b
<1>e. CompanyCommitted(c) \in SUBSET Reqs /\ Checked(c) \in SUBSET Reqs
  BY DEF CompanyCommitted, Checked, OfCompany
<1>f. Spend(CompanyCommitted(c)) <= CompanyCap[c] + (Callers - 1) * MaxCost
  BY DEF OverspendBounded
<1> DEFINE bound == CompanyCap[c] + (Callers - 1) * MaxCost
<1>g. bound \in Nat
  BY <1>t, BudgetAssumption
<1> HIDE DEF T
<1>1. CASE T \subseteq CompanyCommitted(c)
  <2>1. T \in SUBSET CompanyCommitted(c) /\ T \in SUBSET Reqs
    BY <1>1, <1>e
  <2>2. Spend(T) <= Spend(CompanyCommitted(c))
    BY <2>1, <1>e, SpendMonotonic
  <2>3. Spend(T) \in Nat /\ Spend(CompanyCommitted(c)) \in Nat
    BY <2>1, <1>e, UnitsFinite
  <2> HIDE DEF bound
  <2>4. Spend(T) <= bound
    BY <2>2, <2>3, <1>f, <1>g DEF bound
  <2> QED BY <2>4, <1>c DEF bound
<1>2. CASE \A r \in Reqs : ~Evaluate(r)
  BY <1>1, <1>2, <1>d, <1>w, <1>t, CommittedKept
<1>3. ASSUME NEW r \in Reqs, Evaluate(r), ~(T \subseteq CompanyCommitted(c))
      PROVE  Spend(T) <= bound
  <2>1. /\ Committed(Hour)' \subseteq Committed(Hour) \cup {r}
        /\ Verdict(r) # "company" /\ r \in Checked(c)
        /\ Admitted \in SUBSET Reqs /\ Cardinality(Admitted) <= Callers - 1
    <3>1. /\ Committed(Hour)' \subseteq Committed(Hour) \cup {r}
          /\ Verdict(r) = "company" => Committed(Hour)' \subseteq Committed(Hour)
          /\ Admitted \in SUBSET Reqs /\ Cardinality(Admitted) <= Callers - 1
      BY <1>3, <1>t, EvaluateCommits
    <3> QED BY <3>1, <1>3, <1>d, <1>w
  <2>2. ask[r].company = c /\ ask[r].priority # "critical"
    BY <2>1 DEF Checked, OfCompany
  <2>3. ~OverCompanyCap(r)
    BY <2>1, <2>2 DEF Verdict
  <2> DEFINE B == Recent(Hour) \cap OfCompany(c)
  <2>4. B \in SUBSET Reqs /\ Spend(B) \in Nat
    <3>1. B \in SUBSET Reqs
      BY DEF Recent
    <3> QED BY <3>1, UnitsFinite
  <2>5. Spend(B) + ask[r].cost <= CompanyCap[c]
    <3>1. ~(Spend(B) + ask[r].cost > CompanyCap[c])
      BY <2>2, <2>3 DEF OverCompanyCap
    <3>2. ask[r].cost \in Nat
      BY <1>t, KindFacts
    <3> HIDE DEF B
    <3> QED BY <3>1, <3>2, <2>4, <1>t
  <2>6. T \in SUBSET (B \cup {r} \cup Admitted)
    BY <2>1, <1>d DEF Committed, Checked
  <2> HIDE DEF B
  <2> QED BY <2>1, <2>4, <2>5, <2>6, <1>t, AdmissionBound
<1> HIDE DEF bound
<1>4. ASSUME NEW r \in Reqs, Evaluate(r)
      PROVE  (Spend(CompanyCommitted(c)) <= CompanyCap[c] + (Callers - 1) * MaxCost)'
  <2>1. CASE T \subseteq CompanyCommitted(c)
    BY <1>1, <2>1
  <2>2. CASE ~(T \subseteq CompanyCommitted(c))
    <3>1. Spend(T) <= bound
      BY <1>3, <1>4, <2>2
    <3> QED BY <3>1, <1>c DEF bound
  <2> QED BY <2>1, <2>2
<1> QED BY <1>2, <1>4

\* The commitments nobody was asked about grow by what the rolling limit allowed.
LEMMA LimitNext == Basics /\ LimitBounded /\ [Next]_vars => LimitBounded'
<1> SUFFICES ASSUME Basics, LimitBounded, [Next]_vars
             PROVE  (Spend(LimitCommitted) <= DailyLimit + (Callers - 1) * MaxCost)'
  BY DEF LimitBounded
<1>t. ask \in [Reqs -> Kinds] /\ DailyLimit \in Nat /\ Window \in Nat
  BY BudgetAssumption, TimeAssumption DEF Basics, TypeOK
<1>w. LimitCommitted = Unasked \cap Committed(Window)
  BY DEF LimitCommitted, Committed
<1>a. ask' = ask
  BY CommittedKept, EvaluateCommits, <1>t
<1> DEFINE T == LimitCommitted'
<1>c. Spend(LimitCommitted)' = Spend(T)
  BY <1>a DEF Spend, Units
<1>d. T = Unasked' \cap Committed(Window)'
  BY DEF LimitCommitted, Committed
<1>e. LimitCommitted \in SUBSET Reqs
  BY DEF LimitCommitted, Unasked
<1>f. Spend(LimitCommitted) <= DailyLimit + (Callers - 1) * MaxCost
  BY DEF LimitBounded
<1> DEFINE bound == DailyLimit + (Callers - 1) * MaxCost
<1>g. bound \in Nat
  BY <1>t, BudgetAssumption
<1> HIDE DEF T
<1>1. CASE T \subseteq LimitCommitted
  <2>1. T \in SUBSET LimitCommitted /\ T \in SUBSET Reqs
    BY <1>1, <1>e
  <2>2. Spend(T) <= Spend(LimitCommitted)
    BY <2>1, <1>e, SpendMonotonic
  <2>3. Spend(T) \in Nat /\ Spend(LimitCommitted) \in Nat
    BY <2>1, <1>e, UnitsFinite
  <2> HIDE DEF bound
  <2>4. Spend(T) <= bound
    BY <2>2, <2>3, <1>f, <1>g DEF bound
  <2> QED BY <2>4, <1>c DEF bound
<1>2. CASE \A r \in Reqs : ~Evaluate(r)
  <2>1. Unasked' = Unasked
    BY <1>2, <1>t, CommittedKept DEF Unasked
  <2> QED BY <1>1, <1>2, <2>1, <1>d, <1>w, <1>t, CommittedKept
<1>3. ASSUME NEW r \in Reqs, Evaluate(r), ~(T \subseteq LimitCommitted)
      PROVE  Spend(T) <= bound
  <2>1. /\ Committed(Window)' \subseteq Committed(Window) \cup {r}
        /\ Admitted \in SUBSET Reqs /\ Cardinality(Admitted) <= Callers - 1
        /\ reason' = [reason EXCEPT ![r] = Verdict(r)]
    BY <1>3, <1>t, EvaluateCommits
  <2>2. Unasked' \subseteq Unasked \cup {r}
    BY <2>1, <1>a DEF Unasked, Basics, TypeOK
  <2>3. r \in Unasked'
    BY <2>1, <2>2, <1>3, <1>d, <1>w
  <2>4. /\ Verdict(r) \in {"auto", "notify"} /\ ask[r].priority # "critical"
        /\ Mode = "post_hoc" => ask[r].priority # "high"
    BY <2>1, <2>3, <1>a DEF Unasked, Basics, TypeOK
  <2>5. ~OverLimit(r)
    <3>1. CASE Mode = "approval"
      BY <2>4, <3>1 DEF Verdict, ThreeTiers
    <3>2. CASE Mode = "post_hoc"
      BY <2>4, <3>2 DEF Verdict
    <3> QED BY <3>1, <3>2, BudgetAssumption
  <2> DEFINE B == Recent(Window)
  <2>6. B \in SUBSET Reqs /\ Spend(B) \in Nat
    <3>1. B \in SUBSET Reqs
      BY DEF Recent
    <3> QED BY <3>1, UnitsFinite
  <2>7. Spend(B) + ask[r].cost <= DailyLimit
    <3>1. ~(Spend(B) + ask[r].cost > DailyLimit)
      BY <2>5 DEF OverLimit
    <3>2. ask[r].cost \in Nat
      BY <1>t, KindFacts
    <3> HIDE DEF B
    <3> QED BY <3>1, <3>2, <2>6, <1>t
  <2>8. T \in SUBSET (B \cup {r} \cup Admitted)
    BY <2>1, <1>d DEF Committed
  <2> HIDE DEF B
  <2> QED BY <2>1, <2>6, <2>7, <2>8, <1>t, AdmissionBound
<1> HIDE DEF bound
<1>4. ASSUME NEW r \in Reqs, Evaluate(r)
      PROVE  (Spend(LimitCommitted) <= DailyLimit + (Callers - 1) * MaxCost)'
  <2>1. CASE T \subseteq LimitCommitted
    BY <1>1, <2>1
  <2>2. CASE ~(T \subseteq LimitCommitted)
    <3>1. Spend(T) <= bound
      BY <1>3, <1>4, <2>2
    <3> QED BY <3>1, <1>c DEF bound
  <2> QED BY <2>1, <2>2
<1> QED BY <1>2, <1>4

-----------------------------------------------------------------------------
(* The theorems. *)

LEMMA InvInit == Init => IInv
<1> SUFFICES ASSUME Init PROVE IInv
  OBVIOUS
<1>1. LineIsTheQueued
  BY DEF Init, LineIsTheQueued
<1>2. CallersBounded
  <2>1. Active = {}
    BY DEF Init, Active, InProgress
  <2> QED BY <2>1, FS_EmptySet, BudgetAssumption DEF CallersBounded
<1>3. PaidIsRecorded /\ NoRunWithoutConsent
  BY DEF Init, PaidIsRecorded, NoRunWithoutConsent
<1> QED BY <1>1, <1>2, <1>3, TypeInit, BoundsInit DEF IInv, Basics

\* The invariant holds in every state.
LEMMA Inductive == Spec => []IInv
<1>1. IInv /\ [Next]_vars => IInv'
  BY BasicsNext, ConsentNext, OverspendNext, LimitNext DEF IInv
<1> QED BY InvInit, <1>1, PTL DEF Spec

\* The variables have their types, and the calls in line for _budget_lock are those
\* that wait for it, however many of them are cancelled in it.
THEOREM LineIsRight == Spec => [](TypeOK /\ LineIsTheQueued)
<1>1. IInv => TypeOK /\ LineIsTheQueued
  BY DEF IInv, Basics
<1> QED BY Inductive, <1>1, PTL

\* What the gate put to the user runs and is paid for only with the user's consent,
\* whatever times out, is cancelled, is answered late or restarted.
THEOREM NothingRunsUnasked == Spec => []NoRunWithoutConsent
<1>1. IInv => NoRunWithoutConsent
  BY DEF IInv
<1> QED BY Inductive, <1>1, PTL

\* A company exceeds its hourly budget at most by the dearest requests of the other
\* callers: what the gate admitted before the costs in progress were in the log.
THEOREM OverspendIsBounded == Spec => []OverspendBounded
<1>1. IInv => OverspendBounded
  BY DEF IInv
<1> QED BY Inductive, <1>1, PTL

\* The requests nobody was asked about exceed the rolling limit by no more.
THEOREM LimitIsBounded == Spec => []LimitBounded
<1>1. IInv => LimitBounded
  BY DEF IInv
<1> QED BY Inductive, <1>1, PTL

\* Both at once.
THEOREM SpendingIsBounded == Spec => []SpendingBounded
<1>1. OverspendBounded /\ LimitBounded => SpendingBounded
  BY DEF SpendingBounded
<1> QED BY <1>1, OverspendIsBounded, LimitIsBounded, PTL

-----------------------------------------------------------------------------
(* Reasons: why a call that runs was let through. *)

\* What was put to the user or runs has a reason that allows it, and in approval mode
\* what nobody was asked about is below the threshold of its priority.
ReasonsHold ==
    \A r \in Reqs :
      /\ pc[r] \in Asking \cup Ran => reason[r] \notin {"none", "company"}
      /\ Mode = "approval" /\ reason[r] \in {"auto", "notify"} /\ ask[r].priority # "critical"
           => Below(r, EscalateThreshold)

\* What is below a threshold is below a higher one.
LEMMA BelowHigher ==
    ASSUME ask \in [Reqs -> Kinds], NEW r \in Reqs, ask[r].priority # "critical",
           AutoThreshold <= EscalateThreshold, Below(r, AutoThreshold)
    PROVE  Below(r, EscalateThreshold)
<1> DEFINE p == ask[r].priority
           n == ask[r].cost
<1>1. n \in Nat /\ p \in {"high", "normal", "low"}
  BY KindFacts DEF Priorities
<1>2. AutoThreshold \in Nat /\ EscalateThreshold \in Nat
  BY BudgetAssumption
<1>3. Twice(p) = 6 \/ Twice(p) = 2 \/ Twice(p) = 1
  BY <1>1 DEF Twice
<1>4. 2 * n < AutoThreshold * Twice(p)
  BY DEF Below
<1> HIDE DEF p, n
<1>5. 2 * n < EscalateThreshold * Twice(p)
  BY <1>1, <1>2, <1>3, <1>4
<1> QED BY <1>5 DEF Below, p, n

\* A verdict that lets a request run unasked is given below the threshold.
LEMMA VerdictBelow ==
    ASSUME ask \in [Reqs -> Kinds], NEW r \in Reqs, ask[r].priority # "critical",
           AutoThreshold <= EscalateThreshold, Mode = "approval", Verdict(r) \in {"auto", "notify"}
    PROVE  Below(r, EscalateThreshold)
<1>1. Verdict(r) = ThreeTiers(r)
  BY DEF Verdict
<1>2. Below(r, AutoThreshold) \/ Below(r, EscalateThreshold)
  BY <1>1 DEF ThreeTiers
<1> QED BY <1>2, BelowHigher

LEMMA ReasonsNext ==
    ASSUME AutoThreshold <= EscalateThreshold
    PROVE  Basics /\ ReasonsHold /\ [Next]_vars => ReasonsHold'
<1> SUFFICES ASSUME Basics, ReasonsHold, [Next]_vars PROVE ReasonsHold'
  OBVIOUS
<1> USE DEF Basics, TypeOK
<1>a. ASSUME reason' = reason, ask' = ask, \A q \in Reqs : pc'[q] \in Asking \cup Ran => pc[q] \in Asking \cup Ran
      PROVE  ReasonsHold'
  BY <1>a DEF ReasonsHold, Below, Asking, Ran
<1>1. ASSUME NEW r \in Reqs, Request(r), ~Evaluate(r) PROVE ReasonsHold'
  <2>1. reason' = reason /\ ask' = ask
    BY <1>1 DEF Request, Arrive, Asked, Decide, Expire, Returns, Record, Cancel
  <2>2. ASSUME NEW q \in Reqs, pc'[q] \in Asking \cup Ran PROVE pc[q] \in Asking \cup Ran
    BY <1>1, <2>2 DEF Request, Arrive, Asked, Decide, BeginsRun, Expire, Returns, Record, Cancel, Goes, Asking, Ran
  <2> QED BY <1>a, <2>1, <2>2
<1>2. ASSUME NEW r \in Reqs, Evaluate(r) PROVE ReasonsHold'
  <2>1. /\ ask' = ask
        /\ \A q \in Reqs \ {r} : reason'[q] = reason[q] /\ pc'[q] = pc[q]
        /\ reason'[r] = Verdict(r)
    BY <1>2 DEF Evaluate, BeginsRun, Goes
  <2>2. Verdict(r) = "company" => pc'[r] = "rejected"
    BY <1>2 DEF Evaluate, Goes
  <2>3. pc'[r] \in Asking \cup Ran => reason'[r] \notin {"none", "company"}
    BY <2>1, <2>2, VerdictType DEF Asking, Ran
  <2>4. Mode = "approval" /\ reason'[r] \in {"auto", "notify"} /\ ask'[r].priority # "critical"
          => Below(r, EscalateThreshold)'
    BY <2>1, VerdictBelow DEF Below
  <2> QED BY <2>1, <2>3, <2>4 DEF ReasonsHold, Below
<1>3. CASE User
  BY <1>3, <1>a DEF User, Resolve
<1>4. CASE ResetBreaker \/ Tick \/ UNCHANGED vars
  BY <1>4, <1>a DEF ResetBreaker, Tick, vars
<1>5. CASE Restart
  <2>1. ASSUME NEW q \in Reqs, pc'[q] \in Asking \cup Ran PROVE pc[q] \in Asking \cup Ran
    BY <1>5, <2>1 DEF Restart, Asking, Ran
  <2> QED BY <1>5, <1>a, <2>1 DEF Restart
<1> QED BY <1>1, <1>2, <1>3, <1>4, <1>5 DEF Next

\* With the thresholds in order (budget.json), nothing that was refused, not answered
\* or dear runs without the user, for any prices, budgets, cancellations and restarts.
THEOREM ConsentIsKept ==
    ASSUME AutoThreshold <= EscalateThreshold
    PROVE  Spec => []ConsentKept
<1>1. Init => ReasonsHold
  BY DEF Init, ReasonsHold, Asking, Ran
<1>2. Basics /\ ReasonsHold /\ [Next]_vars => ReasonsHold'
  BY ReasonsNext
<1>3. IInv => Basics
  BY DEF IInv
<1>4. IInv /\ ReasonsHold => ConsentKept
  <2> SUFFICES ASSUME IInv, ReasonsHold, NEW r \in Reqs, Mode = "approval",
                      ask[r].priority # "critical", ~Below(r, EscalateThreshold), pc[r] \in Ran
               PROVE  Consents(r)
    BY DEF ConsentKept, DearNeedsConsent, IInv
  <2>1. reason[r] \notin {"none", "company", "auto", "notify"} /\ reason[r] \in Reasons
    BY DEF ReasonsHold, IInv, Basics, TypeOK
  <2> QED BY <2>1 DEF Reasons, NoRunWithoutConsent, IInv
<1> QED BY <1>1, <1>2, <1>3, <1>4, Inductive, PTL DEF Spec

\* Wherever calls are cancelled, every approval that is open is waited for, unless its
\* call was cancelled while the request was being sent, and the line is right.
THEOREM WaitersAreInHand == Spec => []WaitersInHand
<1>1. Init => OpenApprovalsAwaited
  BY DEF Init, OpenApprovalsAwaited
<1>2. IInv /\ OpenApprovalsAwaited /\ [Next]_vars => OpenApprovalsAwaited'
  <2> SUFFICES ASSUME IInv, OpenApprovalsAwaited, [Next]_vars, NEW q \in open'
               PROVE  pc'[q] \in Asking \cup {"orphaned"}
    BY DEF OpenApprovalsAwaited, Asking
  <2>0. q \in Reqs
    BY TypeNext DEF IInv, Basics, TypeOK
  <2> USE DEF OpenApprovalsAwaited, IInv, Basics, TypeOK, Asking, Goes
  <2>1. ASSUME NEW r \in Reqs, Evaluate(r) PROVE pc'[q] \in Asking \cup {"orphaned"}
    <3>1. 1 \in DOMAIN line /\ line[1] = r
      BY <2>1 DEF Evaluate
    <3>2. pc[r] = "queued"
      BY <3>1 DEF LineIsTheQueued
    <3>3. r \notin open
      BY <3>2
    <3>4. Verdict(r) \in {"auto", "notify"} => open' = open /\ BeginsRun(r)
      BY <2>1 DEF Evaluate
    <3>5. Verdict(r) = "company" => open' = open /\ pc' = [pc EXCEPT ![r] = "rejected"]
      BY <2>1 DEF Evaluate
    <3>6. Verdict(r) \notin {"auto", "notify", "company"}
            => open' = open \cup {r} /\ pc' = [pc EXCEPT ![r] = "asking"]
      BY <2>1 DEF Evaluate
    <3>7. CASE q = r
      BY <2>1, <3>3, <3>4, <3>5, <3>6, <3>7
    <3>8. CASE q # r
      <4>1. q \in open
        BY <3>4, <3>5, <3>6, <3>8
      <4>2. pc'[q] = pc[q]
        BY <2>0, <3>4, <3>5, <3>6, <3>8 DEF BeginsRun
      <4> QED BY <4>1, <4>2
    <3> QED BY <3>7, <3>8
  <2>2. ASSUME NEW r \in Reqs, Arrive(r) \/ Asked(r) \/ Decide(r) \/ Expire(r) \/ Returns(r) \/ Record(r)
        PROVE  pc'[q] \in Asking \cup {"orphaned"}
    BY <2>0, <2>2 DEF Arrive, Asked, Decide, BeginsRun, Expire, Returns, Record
  <2>3. ASSUME NEW r \in Reqs, Cancel(r) PROVE pc'[q] \in Asking \cup {"orphaned"}
    <3>1. pc[q] \in Asking \cup {"orphaned"} /\ (q = r => pc[r] # "waiting")
      BY <2>3 DEF Cancel
    <3>2. pc[r] \in CancelIn /\ "orphaned" \notin CancelIn
      BY <2>3, CancelAssumption DEF Cancel
    <3>3. CASE q = r
      BY <2>0, <2>3, <3>1, <3>2, <3>3 DEF Cancel
    <3>4. CASE q # r
      BY <2>0, <2>3, <3>1, <3>4 DEF Cancel
    <3> QED BY <3>3, <3>4
  <2>4. CASE User \/ ResetBreaker \/ Tick \/ Restart \/ UNCHANGED vars
    BY <2>0, <2>4 DEF User, Resolve, ResetBreaker, Tick, Restart, vars
  <2> QED BY <2>1, <2>2, <2>3, <2>4 DEF Next, Request
<1>3. IInv /\ OpenApprovalsAwaited => WaitersInHand
  BY DEF IInv, Basics, WaitersInHand
<1> QED BY <1>1, <1>2, <1>3, Inductive, PTL DEF Spec

-----------------------------------------------------------------------------
(* The circuit breaker. *)

\* What passes without a question and is not critical, the part of it the breaker
\* sees within its window or will see, and the part it has not seen since it tripped.
Unseen == {r \in Reqs : reason[r] \in {"auto", "notify"} /\ ask[r].priority # "critical"}
Fast   == Unseen \cap ((fed \cap Recent(BreakerWindow)) \cup Admitted)
Late   == Unseen \cap ({r \in Reqs : paid[r] > tripped} \cup Admitted)

\* The inductive invariant: from a trip on until the breaker closes, whoever tripped
\* it keeps a caller's place from the requests that pass.
BreakerHolds ==
    /\ Spend(Fast) <= BreakerThreshold - 1 + Callers * MaxCost
    /\ tripped # 0 => Cardinality(Late) <= Callers - 1
    /\ \A r \in Reqs : paid[r] <= now

\* A set of requests within another one costs, and counts, no more.
LEMMA FewerRequests ==
    ASSUME NEW T \in SUBSET Reqs, NEW S \in SUBSET T
    PROVE  /\ Spend(S) \in Nat /\ Spend(T) \in Nat /\ Spend(S) <= Spend(T)
           /\ Cardinality(S) \in Nat /\ Cardinality(T) \in Nat
           /\ Cardinality(S) <= Cardinality(T)
<1>1. S \in SUBSET Reqs
  OBVIOUS
<1>2. IsFiniteSet(T)
  BY SpendCount
<1> QED BY <1>1, <1>2, UnitsFinite, SpendMonotonic, SpendCount, FS_Subset

\* n requests cost at most n of the dearest.
LEMMA SpendAtMost ==
    ASSUME NEW S \in SUBSET Reqs, NEW n \in Nat, Cardinality(S) <= n
    PROVE  Spend(S) <= n * MaxCost /\ n * MaxCost \in Nat /\ Spend(S) \in Nat
<1> DEFINE k == Cardinality(S)
<1>1. k \in Nat /\ k <= n /\ MaxCost \in Nat
  BY SpendCount, BudgetAssumption
<1>2. Spend(S) <= k * MaxCost /\ Spend(S) \in Nat
  BY SpendCount, UnitsFinite
<1> HIDE DEF k
<1>3. k * MaxCost <= n * MaxCost /\ k * MaxCost \in Nat /\ n * MaxCost \in Nat
  BY <1>1, SMTT(30)
<1> DEFINE a == k * MaxCost
           b == n * MaxCost
<1>4. Spend(S) <= a /\ a <= b /\ a \in Nat /\ b \in Nat
  BY <1>2, <1>3
<1> HIDE DEF a, b
<1>5. Spend(S) <= b
  BY <1>2, <1>4
<1> QED BY <1>2, <1>4, <1>5 DEF b

\* The bound holds when the breaker sees too little to trip and lets one more pass.
LEMMA BelowThreshold ==
    ASSUME NEW A \in SUBSET Reqs, NEW B \in SUBSET Reqs, NEW S \in SUBSET (B \cup A),
           Cardinality(A) <= Callers, Spend(B) < BreakerThreshold
    PROVE  Spend(S) <= BreakerThreshold - 1 + Callers * MaxCost
<1>1. Spend(A) <= Callers * MaxCost /\ Callers * MaxCost \in Nat
  BY SpendAtMost, BudgetAssumption
<1>2. Spend(S) <= Spend(B \cup A) /\ Spend(B \cup A) <= Spend(B) + Spend(A)
  BY SpendMonotonic, SpendUnion
<1>3. Spend(S) \in Nat /\ Spend(B \cup A) \in Nat /\ Spend(B) \in Nat /\ Spend(A) \in Nat
  <2>1. S \in SUBSET Reqs /\ (B \cup A) \in SUBSET Reqs
    OBVIOUS
  <2> QED BY <2>1, UnitsFinite
<1>4. BreakerThreshold \in Nat
  BY BudgetAssumption
<1> DEFINE m == Callers * MaxCost
<1>5. m \in Nat /\ Spend(A) <= m
  BY <1>1
<1> HIDE DEF m
<1>6. Spend(S) <= BreakerThreshold - 1 + m
  BY <1>2, <1>3, <1>4, <1>5
<1> QED BY <1>6 DEF m

\* A set with one request more than another one counts at most one more.
LEMMA OneMore ==
    ASSUME NEW T \in SUBSET Reqs, NEW r \in Reqs, NEW n \in Nat, Cardinality(T) <= n - 1,
           NEW S \in SUBSET (T \cup {r})
    PROVE  Cardinality(S) <= n
<1>1. IsFiniteSet(T) /\ Cardinality(T) \in Nat
  BY SpendCount
<1>2. /\ IsFiniteSet(T \cup {r})
      /\ Cardinality(T \cup {r}) = IF r \in T THEN Cardinality(T) ELSE Cardinality(T) + 1
  BY <1>1, FS_AddElement
<1>3. Cardinality(T \cup {r}) <= n
  BY <1>1, <1>2
<1>4. (T \cup {r}) \in SUBSET Reqs
  OBVIOUS
<1>5. /\ Cardinality(S) \in Nat /\ Cardinality(T \cup {r}) \in Nat
      /\ Cardinality(S) <= Cardinality(T \cup {r})
  BY <1>4, FewerRequests
<1> QED BY <1>3, <1>5

\* Nothing is paid in the future.
LEMMA PaidByNow ==
    Basics /\ (\A r \in Reqs : paid[r] <= now) /\ [Next]_vars => (\A r \in Reqs : paid[r] <= now)'
<1> SUFFICES ASSUME Basics, \A q \in Reqs : paid[q] <= now, [Next]_vars, NEW r \in Reqs
             PROVE  paid'[r] <= now'
  OBVIOUS
<1>t. paid \in [Reqs -> Nat] /\ now \in Nat /\ now' \in Nat
  BY TypeNext DEF Basics, TypeOK
<1>1. ASSUME NEW q \in Reqs, Request(q), ~Record(q) PROVE paid' = paid /\ now' = now
  BY <1>1 DEF Request, Arrive, Evaluate, Asked, Decide, Expire, Returns, Cancel, money
<1>2. ASSUME NEW q \in Reqs, Record(q) PROVE paid' = [paid EXCEPT ![q] = now] /\ now' = now
  BY <1>2 DEF Record
<1>3. CASE User \/ ResetBreaker \/ Restart \/ UNCHANGED vars
  BY <1>3, <1>t DEF User, Resolve, ResetBreaker, Restart, vars, money
<1>4. CASE Tick
  BY <1>4, <1>t DEF Tick, money
<1> QED BY <1>t, <1>1, <1>2, <1>3, <1>4 DEF Next

\* No step but an evaluation adds to what passes, seen by the breaker or not.
LEMMA BreakerKept ==
    ASSUME Basics, \A r \in Reqs : paid[r] <= now, [Next]_vars, \A r \in Reqs : ~Evaluate(r)
    PROVE  Fast' \subseteq Fast /\ (tripped' # 0 => tripped' = tripped /\ Late' \subseteq Late)
<1>t. /\ pc \in [Reqs -> Places] /\ paid \in [Reqs -> Nat] /\ tripped \in Nat
      /\ now \in Nat /\ now' \in Nat /\ fed \subseteq Reqs /\ BreakerWindow \in Nat
  BY TypeNext, TimeAssumption DEF Basics, TypeOK
<1>u. Unseen' = Unseen
  BY CommittedKept, <1>t DEF Unseen
<1> DEFINE Keeps == Fast' \subseteq Fast /\ (tripped' # 0 => tripped' = tripped /\ Late' \subseteq Late)
<1>1. ASSUME NEW r \in Reqs, NEW w \in Places, pc' = [pc EXCEPT ![r] = w],
             fed' = fed, paid' = paid, now' = now, tripped' = tripped,
             w \in {"asking", "waiting", "running", "ran"}
               => pc[r] \in {"asking", "waiting", "running", "ran"}
      PROVE  Keeps
  <2>1. Admitted' \subseteq Admitted
    BY <1>1, <1>t DEF Admitted
  <2>2. Recent(BreakerWindow)' = Recent(BreakerWindow)
    BY <1>1 DEF Recent
  <2> QED BY <1>1, <1>u, <2>1, <2>2 DEF Fast, Late
<1>2. ASSUME NEW r \in Reqs,
             Arrive(r) \/ Asked(r) \/ Decide(r) \/ Expire(r) \/ Returns(r) \/ Cancel(r)
      PROVE  Keeps
  <2>1. /\ fed' = fed /\ paid' = paid /\ now' = now /\ tripped' = tripped
        /\ \E w \in Places : /\ pc' = [pc EXCEPT ![r] = w]
                             /\ w \in {"asking", "waiting", "running", "ran"}
                                  => pc[r] \in {"asking", "waiting", "running", "ran"}
    BY <1>2 DEF Arrive, Asked, Decide, Expire, Returns, Cancel, BeginsRun, Goes, Places, money
  <2> QED BY <1>1, <2>1
<1>3. ASSUME NEW r \in Reqs, Record(r) PROVE Keeps
  <2>1. /\ pc' = [pc EXCEPT ![r] = "recorded"] /\ pc[r] = "ran" /\ tripped' = tripped
        /\ paid' = [paid EXCEPT ![r] = now] /\ fed' = fed \cup {r} /\ now' = now
    BY <1>3 DEF Record, Goes
  <2>2. r \in Admitted /\ Admitted' \subseteq Admitted
    BY <1>t, <2>1 DEF Admitted
  <2>3. Recent(BreakerWindow)' \subseteq Recent(BreakerWindow) \cup {r}
    BY <1>t, <2>1 DEF Recent
  <2>4. {q \in Reqs : paid'[q] > tripped'} \subseteq {q \in Reqs : paid[q] > tripped} \cup {r}
    BY <1>t, <2>1
  <2> QED BY <1>u, <2>1, <2>2, <2>3, <2>4 DEF Fast, Late
<1>4. CASE User \/ UNCHANGED vars
  BY <1>4 DEF User, Resolve, vars, money, Fast, Late, Unseen, Recent, Admitted
<1>5. CASE ResetBreaker
  <2>1. fed' = {} /\ tripped' = 0 /\ pc' = pc
    BY <1>5 DEF ResetBreaker
  <2> QED BY <1>u, <2>1 DEF Fast, Admitted
<1>6. CASE Tick
  <2>1. /\ now' = now + 1 /\ paid' = paid /\ pc' = pc /\ fed' = fed /\ tripped' = tripped
    BY <1>6 DEF Tick, money
  <2>2. Recent(BreakerWindow)' \subseteq Recent(BreakerWindow)
    BY <1>t, <2>1 DEF Recent
  <2> QED BY <1>u, <2>1, <2>2 DEF Fast, Late, Admitted
<1>7. CASE Restart
  <2>1. /\ pc' = [r \in Reqs |-> IF r \in Active THEN "cancelled" ELSE pc[r]]
        /\ fed' = {} /\ tripped' = 0
    BY <1>7 DEF Restart
  <2>2. Admitted' \subseteq Admitted
    BY <1>t, <2>1 DEF Admitted
  <2> QED BY <1>u, <2>1, <2>2 DEF Fast
<1> QED BY <1>2, <1>3, <1>4, <1>5, <1>6, <1>7 DEF Next, Request

\* An evaluation adds to it the request that passes, which is not critical.
LEMMA BreakerEvaluates ==
    ASSUME Basics, BreakerHolds, NEW r \in Reqs, Evaluate(r),
           BreakerWindow < Cooldown, BreakerThreshold > 0
    PROVE  BreakerHolds'
<1>t. /\ pc \in [Reqs -> Places] /\ paid \in [Reqs -> Nat] /\ tripped \in Nat /\ now \in Nat \ {0}
      /\ fed \subseteq Reqs /\ reason \in [Reqs -> Reasons] /\ ask \in [Reqs -> Kinds]
      /\ BreakerWindow \in Nat /\ Cooldown \in Nat /\ BreakerThreshold \in Nat
      /\ Callers \in Nat \ {0} /\ MaxCost \in Nat
  BY TimeAssumption, BudgetAssumption DEF Basics, TypeOK
<1>n. [Next]_vars
  BY DEF Next, Request
<1>p. \A q \in Reqs : paid[q] <= now
  BY DEF BreakerHolds
<1>p2. (\A q \in Reqs : paid[q] <= now)'
  BY <1>n, <1>p, PaidByNow
<1>a. /\ ask' = ask /\ reason' = [reason EXCEPT ![r] = Verdict(r)] /\ fed' = fed
      /\ paid' = paid /\ now' = now
  BY DEF Evaluate, money
<1>b. \/ Verdict(r) \in {"auto", "notify"} /\ pc' = [pc EXCEPT ![r] = "running"]
      \/ Verdict(r) = "company" /\ pc' = [pc EXCEPT ![r] = "rejected"]
      \/ Verdict(r) # "company" /\ pc' = [pc EXCEPT ![r] = "asking"]
  BY DEF Evaluate, BeginsRun, Goes
<1>c. Admitted \in SUBSET Reqs /\ Cardinality(Admitted) <= Callers - 1
  BY EvaluateCommits, <1>t
<1>d. Admitted' \subseteq Admitted \cup {r} /\ Recent(BreakerWindow)' = Recent(BreakerWindow)
  BY <1>a, <1>b, <1>t DEF Admitted, Recent
<1>e. Unseen' \subseteq Unseen \cup {r}
  BY <1>a, <1>t DEF Unseen
<1>f. r \in Unseen' <=> Verdict(r) \in {"auto", "notify"} /\ ask[r].priority # "critical"
  BY <1>a, <1>t DEF Unseen
<1>g. Fast \in SUBSET Reqs /\ Late \in SUBSET Reqs /\ Fast' \in SUBSET Reqs /\ Late' \in SUBSET Reqs
  BY DEF Fast, Late, Unseen
<1>h. Spend(Fast)' = Spend(Fast')
  BY <1>a DEF Spend, Units
<1>i. Fast' \subseteq Fast \cup {r} /\ Fast' \subseteq (fed \cap Recent(BreakerWindow)) \cup (Admitted \cup {r})
  BY <1>a, <1>d, <1>e DEF Fast
<1>j. tripped' = tripped => Late' \subseteq Late \cup {r}
  BY <1>a, <1>d, <1>e DEF Late
<1>k. Callers * MaxCost \in Nat /\ Spend(Fast) <= BreakerThreshold - 1 + Callers * MaxCost
  BY <1>t DEF BreakerHolds
<1> DEFINE bound == BreakerThreshold - 1 + Callers * MaxCost
<1>l. bound \in Nat
  <2> DEFINE m == Callers * MaxCost
  <2>1. m \in Nat
    BY <1>k
  <2> HIDE DEF m
  <2>2. BreakerThreshold - 1 + m \in Nat
    BY <1>t, <2>1
  <2> QED BY <2>2 DEF m
<1>m. Spend(Fast) <= bound
  BY <1>k
<1> HIDE DEF bound
\* What does not pass leaves the bounds as they are, and a trip takes a caller's place.
<1>1. CASE r \notin Unseen'
  <2>1. Fast' \subseteq Fast
    BY <1>1, <1>i DEF Fast
  <2>2. Spend(Fast') <= bound
    BY <2>1, <1>g, <1>l, <1>m, FewerRequests
  <2>3. ASSUME tripped' # 0 PROVE Cardinality(Late') <= Callers - 1
    <3>1. CASE tripped' = tripped
      <4>1. Late' \in SUBSET Late
        BY <3>1, <1>1, <1>j DEF Late
      <4>2. Cardinality(Late) <= Callers - 1
        BY <2>3, <3>1 DEF BreakerHolds
      <4> QED BY <4>1, <4>2, <1>g, <1>t, FewerRequests
    <3>2. CASE tripped' # tripped
      <4>1. tripped' = now
        BY <2>3, <3>2 DEF Evaluate
      <4>2. Late' \subseteq Admitted
        BY <4>1, <1>1, <1>a, <1>d, <1>p, <1>t DEF Late
      <4> QED BY <4>2, <1>c, <1>t, FewerRequests
    <3> QED BY <3>1, <3>2
  <2> QED BY <2>2, <2>3, <1>h, <1>p2, <1>a, <1>t DEF BreakerHolds, bound
\* What passes found the breaker below its threshold or its cooldown over.
<1>2. CASE r \in Unseen'
  <2>1. Verdict(r) \in {"auto", "notify"} /\ ask[r].priority # "critical"
    BY <1>2, <1>f
  <2>2. ~OverCompanyCap(r) /\ ~BreakerOpen
    BY <2>1 DEF Verdict
  <2>3. ~CoolingDown /\ ~TripsNow
    BY <2>2 DEF BreakerOpen
  <2>4. tripped' = 0
    BY <2>1, <2>2, <2>3 DEF Evaluate
  <2>5. CASE tripped = 0
    <3> DEFINE B == fed \cap Recent(BreakerWindow)
    <3>1. B \in SUBSET Reqs
      BY <1>t
    <3>2. Spend(B) < BreakerThreshold
      <4>1. Spend(B) \in Nat /\ ~(Spend(B) >= BreakerThreshold)
        BY <2>3, <2>5, <3>1, UnitsFinite DEF TripsNow, Velocity
      <4> HIDE DEF B
      <4> QED BY <4>1, <1>t
    <3>3. Cardinality(Admitted \cup {r}) <= Callers /\ (Admitted \cup {r}) \in SUBSET Reqs
      BY <1>c, <1>t, OneMore
    <3>4. Fast' \in SUBSET (B \cup (Admitted \cup {r}))
      BY <1>i
    <3> HIDE DEF B
    <3>5. Spend(Fast') <= BreakerThreshold - 1 + Callers * MaxCost
      BY <3>1, <3>2, <3>3, <3>4, BelowThreshold
    <3> QED BY <3>5, <2>4, <1>h, <1>p2, <1>a, <1>t DEF BreakerHolds
  <2>6. CASE tripped # 0
    <3>1. now - tripped >= Cooldown
      BY <2>3, <2>6, <1>t DEF CoolingDown
    <3>2. fed \cap Recent(BreakerWindow) \subseteq {q \in Reqs : paid[q] > tripped}
      BY <3>1, <1>t DEF Recent
    <3>3. Fast' \in SUBSET (Late \cup {r})
      BY <3>2, <1>a, <1>d, <1>e DEF Fast, Late
    <3>4. Cardinality(Late) <= Callers - 1
      BY <2>6 DEF BreakerHolds
    <3>5. Cardinality(Fast') <= Callers
      BY <3>3, <3>4, <1>g, <1>t, OneMore
    <3>6. Spend(Fast') <= Callers * MaxCost /\ Spend(Fast') \in Nat
      BY <3>5, <1>g, <1>t, SpendAtMost
    <3> DEFINE m == Callers * MaxCost
    <3>7. m \in Nat /\ Spend(Fast') <= m /\ Spend(Fast') \in Nat
      BY <1>k, <3>6
    <3> HIDE DEF m
    <3>8. Spend(Fast') <= BreakerThreshold - 1 + m
      BY <3>7, <1>t
    <3> QED BY <3>8, <2>4, <1>h, <1>p2, <1>a, <1>t DEF BreakerHolds, m
  <2> QED BY <2>5, <2>6
<1> QED BY <1>1, <1>2

\* What passes the breaker within its window is less than its threshold and what is
\* in progress, for any prices, approvals, resets, cancellations and restarts, as long
\* as the window is shorter than the cooldown (5 and 15 minutes by default) and the
\* breaker has a threshold.
THEOREM VelocityIsBounded ==
    ASSUME BreakerWindow < Cooldown, BreakerThreshold > 0
    PROVE  Spec => []VelocityBounded
<1> DEFINE m == Callers * MaxCost
<1>m. m \in Nat /\ BreakerThreshold \in Nat
  BY BudgetAssumption
<1>1. Init => BreakerHolds
  <2> SUFFICES ASSUME Init PROVE BreakerHolds
    OBVIOUS
  <2>1. Fast = {} /\ tripped = 0 /\ \A r \in Reqs : paid[r] <= now
    BY DEF Init, Fast, Unseen
  <2>2. {} \in SUBSET Reqs /\ Cardinality({}) <= 0
    BY FS_EmptySet
  <2>3. Spend({}) <= 0 * MaxCost /\ Spend({}) \in Nat
    BY <2>2, SpendAtMost
  <2> DEFINE zero == Spend({})
  <2>4. zero <= 0 /\ zero \in Nat
    BY <2>3, BudgetAssumption
  <2>5. Spend(Fast) = zero
    BY <2>1
  <2> HIDE DEF zero, m
  <2>6. Spend(Fast) <= BreakerThreshold - 1 + m
    BY <2>4, <2>5, <1>m
  <2> QED BY <2>1, <2>6 DEF BreakerHolds, m
<1>2. Basics /\ BreakerHolds /\ [Next]_vars => BreakerHolds'
  <2> SUFFICES ASSUME Basics, BreakerHolds, [Next]_vars PROVE BreakerHolds'
    OBVIOUS
  <2>1. CASE \E r \in Reqs : Evaluate(r)
    BY <2>1, BreakerEvaluates
  <2>2. CASE \A r \in Reqs : ~Evaluate(r)
    <3>1. \A r \in Reqs : paid[r] <= now
      BY DEF BreakerHolds
    <3>2. Fast' \subseteq Fast /\ (tripped' # 0 => tripped' = tripped /\ Late' \subseteq Late)
      BY <2>2, <3>1, BreakerKept
    <3>3. ask' = ask
      BY <2>2, CommittedKept, TimeAssumption
    <3>4. Fast \in SUBSET Reqs /\ Late \in SUBSET Reqs
      BY DEF Fast, Late, Unseen
    <3>5. Spend(Fast)' = Spend(Fast')
      BY <3>3 DEF Spend, Units
    <3>6. Spend(Fast) <= BreakerThreshold - 1 + m
      BY DEF BreakerHolds
    <3> HIDE DEF m
    <3>7. Spend(Fast') <= BreakerThreshold - 1 + m
      BY <3>2, <3>4, <3>6, <1>m, FewerRequests
    <3>8. tripped' # 0 => Cardinality(Late') <= Callers - 1
      BY <3>2, <3>4, FewerRequests, BudgetAssumption DEF BreakerHolds
    <3>9. (\A r \in Reqs : paid[r] <= now)'
      BY <3>1, PaidByNow
    <3> QED BY <3>5, <3>7, <3>8, <3>9 DEF BreakerHolds, m
  <2> QED BY <2>1, <2>2
<1>3. IInv => Basics
  BY DEF IInv
<1>4. BreakerHolds => VelocityBounded
  <2> SUFFICES ASSUME BreakerHolds PROVE VelocityBounded
    OBVIOUS
  <2> DEFINE S == {r \in fed \cap Recent(BreakerWindow) :
                     reason[r] \in {"auto", "notify"} /\ ask[r].priority # "critical"}
  <2>1. S \in SUBSET Fast /\ Fast \in SUBSET Reqs
    BY DEF Fast, Unseen, Recent
  <2>2. Spend(Fast) <= BreakerThreshold - 1 + m
    BY DEF BreakerHolds
  <2> HIDE DEF S, m
  <2>3. Spend(S) <= BreakerThreshold - 1 + m
    BY <2>1, <2>2, <1>m, FewerRequests
  <2> QED BY <2>3 DEF VelocityBounded, S, m
<1> QED BY <1>1, <1>2, <1>3, <1>4, Inductive, PTL DEF Spec
=============================================================================
