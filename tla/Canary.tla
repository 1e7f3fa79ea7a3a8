------------------------------- MODULE Canary -------------------------------
(***************************************************************************)
(* Canary deployments (canary.py): a change is tried on one company, whose *)
(* CEO team's memory was copied before, its health is judged by the last   *)
(* result of the CEO's cycle, and it is promoted or rolled back.  The list *)
(* of deployments is written whole at every change of stage; the write may *)
(* fail, which the caller is told, or a crash may come before it.          *)
(*                                                                         *)
(* All canaries are tried on one company, whose memory the FileBackend     *)
(* keeps; the entry Results holds what the CEO's cycles ended with.        *)
(***************************************************************************)
EXTENDS MemoryStore, Sequences, SequencesExt

CONSTANTS Results,      \* cycle-results.json
          Deployments,  \* ids, drawn by start_canary
          MinHealthy,   \* min_healthy_checks
          CaMaxWrites, CaMaxFaults  \* bounds of the model

ASSUME CanaryAssumption ==
  /\ Results \in Keys /\ MinHealthy \in Nat \ {0}
  /\ CaMaxWrites \in Nat /\ CaMaxFaults \in Nat /\ 1..CaMaxWrites \subseteq Facts

VARIABLES
  ceo,          \* the memory of the company's CEO team
  deployments,  \* _deployments: stage, last health checks, snapshot (or none)
  saved,        \* canary-deployments.json
  failed,       \* history: the facts that record a failed cycle
  announced,    \* history: the deployments whose promotion was emitted
  caWrites, caFaults

canaryVars == <<ceo, deployments, saved, failed, announced, caWrites, caFaults>>

CanaryInit ==
  /\ ceo = EmptyStore
  /\ deployments = Nothing /\ saved = Nothing
  /\ failed = {} /\ announced = {}
  /\ caWrites = 0 /\ caFaults = 0

CaFact == caWrites + 1
NewCaFact == caWrites < CaMaxWrites /\ caWrites' = CaFact
CaFault == caFaults < CaMaxFaults /\ caFaults' = caFaults + 1

\* _persist: the list is written as it is now, or the write fails after the
\* change was made in memory.
Persist(list) ==
  /\ deployments' = list
  /\ \/ saved' = list /\ UNCHANGED caFaults
     \/ CaFault /\ UNCHANGED saved

Unhealthy(s) ==
  Results \in DOMAIN s.file /\ \E f \in s.file[Results] \cap failed : \A g \in s.file[Results] : g <= f

\* The CEO's cycle appends its result.
CeoCycleEnds(ok) ==
  /\ NewCaFact
  /\ ceo' = Put(ceo, Appended(ceo, Results, CaFact))
  /\ failed' = IF ok THEN failed ELSE failed \cup {CaFact}
  /\ UNCHANGED <<caFaults, deployments, saved, announced>>

\* The company's other memory.
CompanyWrites(k) ==
  /\ NewCaFact
  /\ ceo' = Put(ceo, Holding(k, {CaFact}))
  /\ UNCHANGED <<caFaults, deployments, saved, failed, announced>>

\* start_canary: the deployment is kept in memory before it is written; without
\* the snapshot the deployment goes on.
StartCanary(d) ==
  /\ d \notin DOMAIN deployments
  /\ \E snap \in {[any |-> TRUE, entries |-> Exported(ceo)], [any |-> FALSE, entries |-> Nothing]} :
       /\ ceo' = IF snap.any THEN Accessed(ceo, DOMAIN ceo.file) ELSE ceo
       /\ Persist(Updated(deployments, Holding(d, [stage |-> "canary_running", checks |-> << >>, snap |-> snap])))
  /\ UNCHANGED <<caWrites, failed, announced>>

Recent(checks, ok) ==
  LET all == Append(checks, ok)
  IN  IF Len(all) <= MinHealthy THEN all ELSE Tail(all)

Judged(checks) ==
  CASE Len(checks) = MinHealthy /\ ToSet(checks) = {TRUE} -> "canary_passed"
    [] Len(checks) = MinHealthy /\ ToSet(checks) = {FALSE} -> "canary_failed"
    [] OTHER -> "canary_running"

\* check_health: no result yet counts as a healthy one.
CheckHealth(d) ==
  /\ d \in DOMAIN deployments /\ deployments[d].stage = "canary_running"
  /\ LET checks == Recent(deployments[d].checks, ~Unhealthy(ceo))
     IN  Persist([deployments EXCEPT ![d].checks = checks, ![d].stage = Judged(checks)])
  /\ ceo' = Accessed(ceo, {Results})
  /\ UNCHANGED <<caWrites, failed, announced>>

At(d, stage) == [deployments EXCEPT ![d].stage = stage]

\* promote: "promoting" is written, then "promoted", then it is announced; each
\* write may fail.
Promote(d) ==
  /\ d \in DOMAIN deployments /\ deployments[d].stage = "canary_passed"
  /\ \/ /\ deployments' = At(d, "promoted") /\ saved' = deployments'
        /\ announced' = announced \cup {d}
        /\ UNCHANGED caFaults
     \/ /\ CaFault
        /\ \/ deployments' = At(d, "promoting") /\ UNCHANGED saved
           \/ deployments' = At(d, "promoted") /\ saved' = At(d, "promoting")
        /\ UNCHANGED announced
  /\ UNCHANGED <<ceo, caWrites, failed>>

\* A bug: a snapshot that could be restored in part counts as restored.
BadRollback(d) ==
  /\ d \in DOMAIN deployments
  /\ \E S \in SUBSET DOMAIN deployments[d].snap.entries :
       /\ ceo' = Restored(ceo, Only(deployments[d].snap.entries, S))
       /\ (S = DOMAIN deployments[d].snap.entries /\ UNCHANGED caFaults) \/ CaFault
  /\ deployments' = At(d, "rolled_back") /\ saved' = deployments'
  /\ UNCHANGED <<caWrites, failed, announced>>

\* rollback, from any stage: the entries of the snapshot are written back one
\* by one; if one fails, the deployment keeps its stage.
Rollback(d) ==
  /\ d \in DOMAIN deployments
  /\ LET entries == deployments[d].snap.entries IN
     \/ ceo' = Restored(ceo, entries) /\ Persist(At(d, "rolled_back"))
     \/ /\ CaFault
        /\ \E S \in SUBSET DOMAIN entries \ {DOMAIN entries} : ceo' = Restored(ceo, Only(entries, S))
        /\ UNCHANGED <<deployments, saved>>
  /\ UNCHANGED <<caWrites, failed, announced>>

\* The process ends, maybe after either write of promote, and another one loads
\* the list.
CanaryRestart ==
  /\ CaFault
  /\ saved' \in {saved} \cup
       {At(d, stage) : d \in {e \in DOMAIN deployments : deployments[e].stage = "canary_passed"},
                       stage \in {"promoting", "promoted"}}
  /\ deployments' = saved'
  /\ UNCHANGED <<ceo, failed, announced, caWrites>>

CanaryNext ==
  \/ \E ok \in BOOLEAN : CeoCycleEnds(ok)
  \/ \E k \in Keys \ {Results} : CompanyWrites(k)
  \/ \E d \in Deployments : StartCanary(d) \/ CheckHealth(d) \/ Promote(d) \/ Rollback(d)
  \/ CanaryRestart

----------------------------------------------------------------------------
\* A promotion that other companies were told of is never taken back: whichever
\* writes fail and whenever the process ends, the deployment counts as promoted
\* here and after a restart, or was rolled back on purpose.
AnnouncedStaysPromoted ==
  \A d \in announced : \A list \in {deployments, saved} :
    d \in DOMAIN list /\ list[d].stage \in {"promoted", "rolled_back"}

\* A deployment that counts as rolled back had every entry of its snapshot put
\* back in the step that made it so.
PutBackInFull ==
  \A d \in DOMAIN deployments :
    /\ d \in DOMAIN deployments' /\ deployments'[d].stage = "rolled_back"
    /\ deployments[d].stage # "rolled_back"
    => \A k \in DOMAIN deployments[d].snap.entries :
         k \in DOMAIN ceo'.file /\ ceo'.file[k] = deployments[d].snap.entries[k]

RolledBackIsRestored == [][PutBackInFull]_<<ceo, deployments>>

\* The two promises of a canary: what was announced as promoted stays so, and
\* what counts as rolled back was put back.
CanaryKeepsWord == []AnnouncedStaysPromoted /\ RolledBackIsRestored
=============================================================================
