------------------------------ MODULE JobLedger ------------------------------
(***************************************************************************)
(* What the job panel promises about outcomes, without queue, workers or   *)
(* writes in flight.  live is the panel's own view of each job, saved what *)
(* a restarted panel would find.  A job is accepted once and closed once;  *)
(* what is saved follows what is live and is final once it is an outcome;  *)
(* an outcome that was not saved yet may be lost, never altered.           *)
(***************************************************************************)
CONSTANT Jobs

Outcome == {"completed", "failed", "cancelled"}

VARIABLES live, saved
ledger == <<live, saved>>

Init == /\ live = [j \in Jobs |-> "absent"]
        /\ saved = [j \in Jobs |-> "absent"]

Accept(j) == /\ live[j] = "absent" /\ saved[j] = "absent"
             /\ live' = [live EXCEPT ![j] = "open"]
             /\ UNCHANGED saved

Close(j) == /\ live[j] = "open"
            /\ \E o \in Outcome : live' = [live EXCEPT ![j] = o]
            /\ UNCHANGED saved

Save(j) == /\ live[j] # "absent" /\ saved[j] \notin Outcome
           /\ \E s \in {"open", live[j]} : saved' = [saved EXCEPT ![j] = s]
           /\ UNCHANGED live

\* The process ends or drops a write: some jobs are back where they were saved.
Lose == /\ \E S \in SUBSET Jobs :
             live' = [j \in Jobs |-> IF j \in S THEN saved[j] ELSE live[j]]
        /\ UNCHANGED saved

Next == (\E j \in Jobs : Accept(j) \/ Close(j) \/ Save(j)) \/ Lose

Spec == Init /\ [][Next]_ledger
=============================================================================
