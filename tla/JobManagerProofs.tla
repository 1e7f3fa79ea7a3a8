-------------------------- MODULE JobManagerProofs --------------------------
(* Theorems about JobManager for every set of jobs, pool of workers and bound: *)
(* its types, and that a final status on disk is final for every pattern of    *)
(* pauses, cancellations, crashes, restarts and failing writes; that every job *)
(* that is not finished is in somebody's hands, and in nobody else's as long   *)
(* as no job was paused; that the disk follows the memory, and finished jobs   *)
(* stay finished and the oldest of them leave the memory first; and that as    *)
(* long as no write fails, the panel implements JobLedger.                     *)
EXTENDS JobManager, FiniteSetTheorems, TLAPS

PoolOK == /\ wpc \in [Workers -> WorkerState]
          /\ wjob \in [Workers -> Jobs \cup {NoJob}]
          /\ \A w \in Workers : wpc[w] \in AtWork => wjob[w] # NoJob

Entry == [job : Jobs, row : Status, by : Awaiters]

\* One more write in flight, or the oldest one done, keeps dbq a sequence of writes.
LEMMA WritesType ==
    ASSUME NEW q \in Seq(Entry)
    PROVE  /\ \A j \in Jobs, row \in Status, who \in Awaiters :
                 Append(q, Write(j, row, who)) \in Seq(Entry)
           /\ q # <<>> => Tail(q) \in Seq(Entry) /\ Head(q) \in Entry
<1>1. \A j \in Jobs, row \in Status, who \in Awaiters : Write(j, row, who) \in Entry
  BY DEF Write, Entry
<1>2. \A e \in Entry : Append(q, e) \in Seq(Entry)
  OBVIOUS
<1> QED BY <1>1, <1>2

\* An orphaned write, kept or dropped, leaves a sequence of writes.
LEMMA OrphanedType ==
    ASSUME dbq \in Seq(Entry), NEW w \in Workers, NEW rest \in Orphaned(w)
    PROVE  rest \in Seq(Entry)
<1> DEFINE n == Len(dbq)
<1>1. n \in Nat /\ \A i \in 1..n : dbq[i] \in Entry
  OBVIOUS
<1>2. \A i \in 1..n : Write(dbq[i].job, dbq[i].row, "other") \in Entry
  BY <1>1 DEF Entry, Write, Awaiters
<1>3. CASE rest = [i \in 1..n |-> IF dbq[i].by = w THEN Write(dbq[i].job, dbq[i].row, "other")
                                  ELSE dbq[i]]
  <2> HIDE DEF n
  <2>1. rest \in [1..n -> Entry]
    BY <1>1, <1>2, <1>3
  <2> QED BY <2>1, <1>1
<1>4. ASSUME NEW k \in 1..n,
             rest = [i \in 1..(n - 1) |-> IF i < k THEN dbq[i] ELSE dbq[i + 1]]
      PROVE  rest \in Seq(Entry)
  <2> HIDE DEF n
  <2>1. rest \in [1..(n - 1) -> Entry] /\ n - 1 \in Nat
    BY <1>1, <1>4
  <2> QED BY <2>1
<1> QED BY <1>3, <1>4 DEF Orphaned

-----------------------------------------------------------------------------
(* Typing. *)

\* The table only allows statuses.
LEMMA TableType ==
    ASSUME NEW old, NEW new, CanGo(old, new)
    PROVE  old \in Status /\ new \in Status
BY DEF CanGo, ValidTransitions, Status, Open, Terminal

\* The queue start() builds holds jobs.
LEMMA QueueType ==
    ASSUME NEW S \in SUBSET Jobs, NEW q \in NewestFirst(S)
    PROVE  q \in Seq(Jobs)
<1>1. IsFiniteSet(S)
  BY FS_Subset, JobsAssumption
<1>2. Cardinality(S) \in Nat
  BY <1>1, FS_CardinalityType
<1>3. q \in [1..Cardinality(S) -> S]
  BY DEF NewestFirst
<1> QED BY <1>2, <1>3

\* The type of what the oldest write does.
LEMMA HeadStoredType ==
    ASSUME TypeOK, dbq # <<>>, HeadStored
    PROVE  /\ db' \in [Jobs -> Known] /\ losses' \in Nat
           /\ Tail(dbq) \in Seq(Entry) /\ Head(dbq) \in Entry
<1>1. Tail(dbq) \in Seq(Entry) /\ Head(dbq) \in Entry
  BY WritesType DEF TypeOK, Entry
<1>2. Head(dbq).job \in Jobs /\ Head(dbq).row \in Known
  BY <1>1 DEF Entry, Known
<1>3. PICK j \in Jobs, row \in Known :
        \/ db' = [db EXCEPT ![j] = row] /\ losses' = losses
        \/ losses' = losses + 1 /\ db' = db
  BY <1>2 DEF HeadStored
<1>4. db \in [Jobs -> Known] /\ losses \in Nat
  BY DEF TypeOK
<1>5. db' \in [Jobs -> Known] /\ losses' \in Nat
  BY <1>3, <1>4
<1> QED BY <1>1, <1>5

\* A final status and its stamp keep their types.
LEMMA ConcludeType ==
    ASSUME TypeOK, NEW j \in Jobs, NEW o \in Terminal, Conclude(j, o)
    PROVE  status' \in [Jobs -> Known] /\ completed' \in [Jobs -> Nat] /\ clock' \in Nat
BY DEF TypeOK, Conclude, Known, Status

\* A worker that moves keeps the types of the pool.
LEMMA HoldsType ==
    ASSUME TypeOK, NEW w \in Workers, NEW pc \in WorkerState,
           NEW j \in Jobs \cup {NoJob}, Holds(w, pc, j), pc \in AtWork => j # NoJob
    PROVE  PoolOK'
BY DEF TypeOK, Holds, PoolOK

\* The type of what the except branch of _execute_job leaves.
LEMMA RaisedType ==
    ASSUME TypeOK, NEW w \in Workers, NEW rest \in Seq(Entry),
           wjob[w] \in Jobs, Raised(w, rest)
    PROVE  /\ status' \in [Jobs -> Known] /\ completed' \in [Jobs -> Nat] /\ clock' \in Nat
           /\ dbq' \in Seq(Entry) /\ PoolOK'
<1>1. CASE CanGo(status[wjob[w]], "failed")
  <2>1. Append(rest, Write(wjob[w], "failed", w)) \in Seq(Entry)
    BY WritesType DEF Status, Terminal, Awaiters
  <2>2. Conclude(wjob[w], "failed") /\ Holds(w, "finishing", wjob[w])
    BY <1>1 DEF Raised
  <2>3. dbq' \in Seq(Entry)
    BY <1>1, <2>1 DEF Raised
  <2> QED BY <2>2, <2>3, ConcludeType, HoldsType, JobsAssumption DEF Terminal, WorkerState
<1>2. CASE ~CanGo(status[wjob[w]], "failed")
  <2>1. Holds(w, "dead", NoJob) /\ dbq' = rest /\ UNCHANGED <<status, completed, clock>>
    BY <1>2 DEF Raised, Dies
  <2> QED BY <2>1, HoldsType DEF TypeOK, WorkerState, AtWork
<1> QED BY <1>1, <1>2

LEMMA TypeInit == Init => TypeOK
BY JobsAssumption DEF Init, TypeOK, Known, WorkerState, AtWork

\* start() fills the memory from the rows it loads, from all of them and with every
\* write done unless the database failed.
LEMMA StartReads ==
    ASSUME Start
    PROVE  \E F \in SUBSET Loaded, lost \in SUBSET Loaded :
             /\ FromRows(F, lost)
             /\ (losses' = losses /\ F = Loaded /\ lost = {}) \/ losses' = losses + 1
<1>1. ASSUME FromRows(Loaded, {}), losses' = losses
      PROVE  \E F \in SUBSET Loaded, lost \in SUBSET Loaded :
               FromRows(F, lost) /\ losses' = losses /\ F = Loaded /\ lost = {}
  BY <1>1
<1>2. ASSUME FromRows({}, {})
      PROVE  \E F \in SUBSET Loaded, lost \in SUBSET Loaded : FromRows(F, lost)
  BY <1>2
<1>3. ASSUME NEW j \in Loaded, FromRows(Loaded, {j})
      PROVE  \E F \in SUBSET Loaded, lost \in SUBSET Loaded : FromRows(F, lost)
  BY <1>3
<1>4. \/ FromRows(Loaded, {}) /\ losses' = losses
      \/ losses' = losses + 1 /\ FromRows({}, {})
      \/ losses' = losses + 1 /\ \E j \in Loaded : FromRows(Loaded, {j})
  BY DEF Start
<1> QED BY <1>1, <1>2, <1>3, <1>4

LEMMA TypeNext == TypeOK /\ [Next]_vars => TypeOK'
<1> SUFFICES ASSUME TypeOK, [Next]_vars PROVE TypeOK'
  OBVIOUS
<1>t. dbq \in Seq(Entry)
  BY DEF TypeOK, Entry
<1>1. ASSUME NEW j \in Jobs, Submit(j) PROVE TypeOK'
  <2>1. dbq' \in Seq(Entry)
    BY <1>1, <1>t, WritesType DEF Submit, Status, Open, Awaiters
  <2> QED BY <1>1, <2>1 DEF Submit, TypeOK, Entry, pool, bounds, Known, Status, Open
<1>2. ASSUME NEW j \in Jobs, Cancel(j) PROVE TypeOK'
  <2>1. dbq' \in Seq(Entry)
    BY <1>2, <1>t, WritesType DEF Cancel, Status, Terminal, Awaiters
  <2>2. status' \in [Jobs -> Known] /\ completed' \in [Jobs -> Nat] /\ clock' \in Nat
    BY <1>2, ConcludeType DEF Cancel, Terminal
  <2> QED BY <1>2, <2>1, <2>2 DEF Cancel, TypeOK, Entry, pool, bounds
<1>3. ASSUME NEW j \in Jobs, Pause(j) PROVE TypeOK'
  <2>1. dbq' \in Seq(Entry)
    BY <1>3, <1>t, WritesType DEF Pause, Status, Open, Awaiters
  <2> QED BY <1>3, <2>1 DEF Pause, TypeOK, Entry, pool, Known, Status, Open
<1>4. ASSUME NEW j \in Jobs, Resume(j) PROVE TypeOK'
  <2>1. dbq' \in Seq(Entry)
    BY <1>4, <1>t, WritesType DEF Resume, Status, Open, Awaiters
  <2> QED BY <1>4, <2>1 DEF Resume, TypeOK, Entry, pool, bounds, Known, Status, Open
<1>5. ASSUME NEW j \in Jobs, Deny(j) PROVE TypeOK'
  <2>1. dbq' \in Seq(Entry)
    BY <1>5, <1>t, WritesType DEF Deny, Status, Terminal, Awaiters
  <2>2. status' \in [Jobs -> Known] /\ completed' \in [Jobs -> Nat] /\ clock' \in Nat
    BY <1>5, ConcludeType DEF Deny, Terminal
  <2> QED BY <1>5, <2>1, <2>2 DEF Deny, TypeOK, Entry, pool, bounds
<1>6. CASE SubmitPersisted
  <2>1. /\ db' \in [Jobs -> Known] /\ losses' \in Nat
        /\ Tail(dbq) \in Seq(Entry) /\ Head(dbq) \in Entry
    BY <1>6, HeadStoredType DEF SubmitPersisted, Woken
  <2> DEFINE j == Head(dbq).job
  <2>2. j \in Jobs
    BY <2>1 DEF Entry
  <2>a. \/ status' = [status EXCEPT ![j] = "queued"] /\ queue' = Append(queue, j)
        \/ UNCHANGED <<status, queue>>
    BY <1>6 DEF SubmitPersisted
  <2> HIDE DEF j
  <2>3. status' \in [Jobs -> Known] /\ queue' \in Seq(Jobs)
    <3>1. "queued" \in Known /\ status \in [Jobs -> Known] /\ queue \in Seq(Jobs)
      BY DEF TypeOK, Known, Status, Open
    <3> QED BY <2>a, <2>2, <3>1
  <2> QED BY <1>6, <2>1, <2>3 DEF SubmitPersisted, TypeOK, Entry, pool
<1>7. CASE ResumePersisted
  <2>1. /\ db' \in [Jobs -> Known] /\ losses' \in Nat
        /\ Tail(dbq) \in Seq(Entry) /\ Head(dbq) \in Entry
    BY <1>7, HeadStoredType DEF ResumePersisted, Woken
  <2>2. Head(dbq).job \in Jobs
    BY <2>1 DEF Entry
  <2>3. queue' \in Seq(Jobs)
    BY <1>7, <2>2 DEF ResumePersisted, TypeOK
  <2> QED BY <1>7, <2>1, <2>3 DEF ResumePersisted, TypeOK, Entry, pool
<1>8. CASE RowPersisted
  <2>1. db' \in [Jobs -> Known] /\ losses' \in Nat /\ Tail(dbq) \in Seq(Entry)
    BY <1>8, HeadStoredType DEF RowPersisted, Woken
  <2> QED BY <1>8, <2>1 DEF RowPersisted, TypeOK, Entry, pool
<1>9. ASSUME NEW w \in Workers, TakeNothing(w) PROVE TypeOK'
  <2>1. queue' \in Seq(Jobs)
    BY <1>9 DEF TakeNothing, NextId, TypeOK
  <2> QED BY <1>9, <2>1 DEF TakeNothing, NextId, TypeOK, Entry, pool, bounds
<1>10. ASSUME NEW w \in Workers, TakeResumed(w) PROVE TypeOK'
  <2>1. queue' \in Seq(Jobs) /\ Head(queue) \in Jobs
    BY <1>10 DEF TakeResumed, NextId, TypeOK
  <2>2. PoolOK'
    BY <1>10, <2>1, HoldsType, JobsAssumption DEF TakeResumed, WorkerState
  <2> QED BY <1>10, <2>1, <2>2 DEF TakeResumed, NextId, TypeOK, PoolOK, Entry, bounds
<1>11. ASSUME NEW w \in Workers, TakeQueued(w) PROVE TypeOK'
  <2>1. queue' \in Seq(Jobs) /\ Head(queue) \in Jobs
    BY <1>11 DEF TakeQueued, NextId, TypeOK
  <2>2. PoolOK'
    BY <1>11, <2>1, HoldsType, JobsAssumption DEF TakeQueued, WorkerState
  <2>3. dbq' \in Seq(Entry)
    BY <1>11, <1>t, <2>1, WritesType DEF TakeQueued, Status, Open, Awaiters
  <2>4. status' \in [Jobs -> Known]
    BY <1>11, <2>1 DEF TakeQueued, TypeOK, Known, Status, Open
  <2> QED BY <1>11, <2>1, <2>2, <2>3, <2>4 DEF TakeQueued, NextId, TypeOK, PoolOK, Entry, bounds
<1>12. ASSUME NEW w \in Workers, TakeInvalid(w) PROVE TypeOK'
  <2>1. queue' \in Seq(Jobs)
    BY <1>12 DEF TakeInvalid, NextId, TypeOK
  <2>2. PoolOK'
    BY <1>12, HoldsType DEF TakeInvalid, Dies, WorkerState, AtWork
  <2> QED BY <1>12, <2>1, <2>2 DEF TakeInvalid, NextId, TypeOK, PoolOK, Entry, bounds
<1>13. ASSUME NEW w \in Workers, DispatchPersisted(w) PROVE TypeOK'
  <2>1. /\ db' \in [Jobs -> Known] /\ losses' \in Nat
        /\ Tail(dbq) \in Seq(Entry)
    BY <1>13, HeadStoredType DEF DispatchPersisted, Woken
  <2>2. wjob[w] \in Jobs
    BY <1>13 DEF DispatchPersisted, TypeOK, AtWork
  <2>3. CASE CanGo(status[wjob[w]], "running")
    <3>1. dbq' \in Seq(Entry)
      BY <1>13, <2>1, <2>2, <2>3, WritesType DEF DispatchPersisted, Status, Open, Awaiters
    <3>2. PoolOK'
      BY <1>13, <2>2, <2>3, HoldsType, JobsAssumption DEF DispatchPersisted, WorkerState
    <3>3. status' \in [Jobs -> Known] /\ UNCHANGED <<completed, clock>>
      BY <1>13, <2>2, <2>3 DEF DispatchPersisted, TypeOK, Known, Status, Open
    <3> QED BY <1>13, <2>1, <3>1, <3>2, <3>3 DEF DispatchPersisted, TypeOK, PoolOK, Entry
  <2>4. CASE ~CanGo(status[wjob[w]], "running")
    <3>1. Raised(w, Tail(dbq))
      BY <1>13, <2>4 DEF DispatchPersisted
    <3> QED BY <1>13, <2>1, <2>2, <3>1, RaisedType DEF DispatchPersisted, TypeOK, PoolOK, Entry
  <2> QED BY <2>3, <2>4
<1>14. ASSUME NEW w \in Workers, StartPersisted(w) PROVE TypeOK'
  <2>1. db' \in [Jobs -> Known] /\ losses' \in Nat /\ Tail(dbq) \in Seq(Entry)
    BY <1>14, HeadStoredType DEF StartPersisted, Woken
  <2>2. wjob[w] \in Jobs
    BY <1>14 DEF StartPersisted, TypeOK, AtWork
  <2>3. PoolOK'
    BY <1>14, <2>2, HoldsType, JobsAssumption DEF StartPersisted, WorkerState
  <2> QED BY <1>14, <2>1, <2>3 DEF StartPersisted, TypeOK, PoolOK, Entry
<1>15. ASSUME NEW w \in Workers, Returns(w) PROVE TypeOK'
  <2>1. wjob[w] \in Jobs
    BY <1>15 DEF Returns, TypeOK, AtWork
  <2>2. CASE CanGo(status[wjob[w]], "completed")
    <3>1. dbq' \in Seq(Entry)
      BY <1>15, <1>t, <2>1, <2>2, WritesType DEF Returns, Status, Terminal, Awaiters
    <3>2. PoolOK'
      BY <1>15, <2>1, <2>2, HoldsType, JobsAssumption DEF Returns, WorkerState
    <3>3. status' \in [Jobs -> Known] /\ completed' \in [Jobs -> Nat] /\ clock' \in Nat
      BY <1>15, <2>1, <2>2, ConcludeType DEF Returns, Terminal
    <3> QED BY <1>15, <3>1, <3>2, <3>3 DEF Returns, TypeOK, PoolOK, Entry, bounds
  <2>3. CASE ~CanGo(status[wjob[w]], "completed")
    <3>1. Raised(w, dbq)
      BY <1>15, <2>3 DEF Returns
    <3> QED BY <1>15, <1>t, <2>1, <3>1, RaisedType DEF Returns, TypeOK, PoolOK, Entry, bounds
  <2> QED BY <2>2, <2>3
<1>16. ASSUME NEW w \in Workers, Raises(w) PROVE TypeOK'
  <2>1. wjob[w] \in Jobs /\ Raised(w, dbq)
    BY <1>16 DEF Raises, TypeOK, AtWork
  <2> QED BY <1>16, <1>t, <2>1, RaisedType DEF Raises, TypeOK, PoolOK, Entry, bounds
<1>17. ASSUME NEW w \in Workers, FinishPersisted(w) PROVE TypeOK'
  <2>1. db' \in [Jobs -> Known] /\ losses' \in Nat /\ Tail(dbq) \in Seq(Entry)
    BY <1>17, HeadStoredType DEF FinishPersisted, Woken
  <2>2. PoolOK'
    BY <1>17, HoldsType DEF FinishPersisted, WorkerState, AtWork
  <2>3. status' \in [Jobs -> Known]
    BY <1>17 DEF FinishPersisted, TypeOK, Known
  <2> QED BY <1>17, <2>1, <2>2, <2>3 DEF FinishPersisted, TypeOK, PoolOK, Entry
<1>18. ASSUME NEW w \in Workers, Interrupt(w) PROVE TypeOK'
  <2>1. PICK rest \in Orphaned(w) :
          IF wjob[w] # NoJob /\ status[wjob[w]] = "running"
          THEN /\ Conclude(wjob[w], "failed")
               /\ dbq' = Append(rest, Write(wjob[w], "failed", w))
               /\ Holds(w, "interrupted", wjob[w])
          ELSE /\ dbq' = rest
               /\ Holds(w, "stopped", NoJob)
               /\ UNCHANGED <<status, completed, clock>>
    BY <1>18 DEF Interrupt
  <2>2. rest \in Seq(Entry)
    BY <1>t, OrphanedType
  <2>3. CASE wjob[w] # NoJob /\ status[wjob[w]] = "running"
    <3>1. wjob[w] \in Jobs
      BY <2>3 DEF TypeOK
    <3>2. dbq' \in Seq(Entry)
      BY <2>1, <2>2, <2>3, <3>1, WritesType DEF Status, Terminal, Awaiters
    <3>3. PoolOK'
      BY <2>1, <2>3, <3>1, HoldsType, JobsAssumption DEF WorkerState
    <3>4. status' \in [Jobs -> Known] /\ completed' \in [Jobs -> Nat] /\ clock' \in Nat
      BY <2>1, <2>3, <3>1, ConcludeType DEF Terminal
    <3> QED BY <1>18, <3>2, <3>3, <3>4 DEF Interrupt, TypeOK, PoolOK, Entry, bounds
  <2>4. CASE ~(wjob[w] # NoJob /\ status[wjob[w]] = "running")
    <3>1. PoolOK'
      BY <2>1, <2>4, HoldsType DEF WorkerState, AtWork
    <3> QED BY <1>18, <2>1, <2>2, <2>4, <3>1 DEF Interrupt, TypeOK, PoolOK, Entry, bounds
  <2> QED BY <2>3, <2>4
<1>19. ASSUME NEW w \in Workers, InterruptPersisted(w) PROVE TypeOK'
  <2>1. db' \in [Jobs -> Known] /\ losses' \in Nat /\ Tail(dbq) \in Seq(Entry)
    BY <1>19, HeadStoredType DEF InterruptPersisted, Woken
  <2>2. PoolOK'
    BY <1>19, HoldsType DEF InterruptPersisted, WorkerState, AtWork
  <2> QED BY <1>19, <2>1, <2>2 DEF InterruptPersisted, TypeOK, PoolOK, Entry
<1>20. CASE Start
  <2>1. \A j \in Jobs : Recovered(db[j]) \in Known
    BY DEF Recovered, TypeOK, Known, Status, Open
  <2>0. PICK F \in SUBSET Loaded, lost \in SUBSET Loaded : FromRows(F, lost) /\ losses' \in {losses, losses + 1}
    BY <1>20, StartReads
  <2>2. status' \in [Jobs -> Known] /\ db' \in [Jobs -> Known]
    BY <2>0, <2>1 DEF FromRows, TypeOK, Known, Status, Open
  <2>3. queue' \in Seq(Jobs)
    <3> DEFINE S == {j \in F : Recovered(db[j]) = "queued"}
    <3>1. S \in SUBSET Jobs
      BY DEF Loaded, Rows
    <3>2. PICK q \in NewestFirst(S) : queue' = q
      BY <2>0 DEF FromRows
    <3> HIDE DEF S
    <3> QED BY <3>1, <3>2, QueueType
  <2>4. PoolOK'
    BY <1>20 DEF Start, TypeOK, PoolOK, WorkerState, AtWork
  <2>5. losses' \in Nat
    BY <2>0 DEF TypeOK
  <2> QED BY <1>20, <2>2, <2>3, <2>4, <2>5 DEF Start, TypeOK, PoolOK
<1>21. CASE Stop
  BY <1>21 DEF Stop, TypeOK, pool
<1>22. CASE Exit \/ Crash
  <2>1. Gone /\ restarts' \in Nat
    BY <1>22 DEF Exit, Crash, TypeOK
  <2>2. status' \in [Jobs -> Known]
    BY <2>1 DEF Gone, Known
  <2>3. queue' \in Seq(Jobs) /\ dbq' \in Seq(Entry)
    BY <2>1 DEF Gone
  <2>4. PoolOK'
    BY <2>1 DEF Gone, PoolOK, WorkerState, AtWork
  <2> QED BY <2>1, <2>2, <2>3, <2>4 DEF Gone, TypeOK, PoolOK, Entry
<1>23. CASE UNCHANGED vars
  BY <1>23 DEF vars, TypeOK
<1> QED
  BY <1>1, <1>2, <1>3, <1>4, <1>5, <1>6, <1>7, <1>8, <1>9, <1>10, <1>11, <1>12, <1>13,
     <1>14, <1>15, <1>16, <1>17, <1>18, <1>19, <1>20, <1>21, <1>22, <1>23
     DEF Next, Client, Caller, Worker, Process

\* Every variable has its type in every reachable state.
THEOREM TypeCorrect == Spec => []TypeOK
BY TypeInit, TypeNext, PTL DEF Spec

-----------------------------------------------------------------------------
(* How a job ended. *)


\* The invariant: typing and the agreement of memory, writes and disk.
IInv == TypeOK /\ OutcomesAgree

\* No final status of j is in q or d.
Unsettled(j, q, d) ==
    d[j] \notin Terminal /\ \A i \in DOMAIN q : q[i].job = j => q[i].row \notin Terminal

-----------------------------------------------------------------------------
(* What each kind of change does to the agreement. *)

\* The writes in flight name jobs and statuses.
LEMMA WritesInFlight ==
    ASSUME NEW q \in Seq(Entry)
    PROVE  \A i \in 1..Len(q) : q[i].job \in Jobs /\ q[i].row \in Status
<1>1. \A i \in 1..Len(q) : q[i] \in Entry
  OBVIOUS
<1> QED BY <1>1 DEF Entry

\* A job whose status in memory is open has no final status anywhere.
LEMMA OpenUnsettled ==
    ASSUME NEW st \in [Jobs -> Known], NEW q \in Seq(Entry), NEW d \in [Jobs -> Known],
           Agree(st, q, d), NEW j \in Jobs, st[j] \in Open
    PROVE  Unsettled(j, q, d)
BY DEF Agree, Unsettled, Open, Terminal

\* Storing or losing the oldest write.
LEMMA StoreAgrees ==
    ASSUME NEW st \in [Jobs -> Known], NEW q \in Seq(Entry), NEW d \in [Jobs -> Known],
           Agree(st, q, d), q # <<>>,
           NEW e, e \in {d, [d EXCEPT ![Head(q).job] = Head(q).row]}
    PROVE  /\ Agree(st, Tail(q), e)
           /\ \A j \in Jobs : d[j] \in Terminal => e[j] = d[j]
           /\ \A j \in Jobs : Unsettled(j, q, d) => Unsettled(j, Tail(q), e)
<1> DEFINE t == Tail(q)
           n == Len(q)
<1>1. /\ n \in Nat \ {0} /\ DOMAIN q = 1..n /\ DOMAIN t = 1..(n - 1)
      /\ \A i \in 1..(n - 1) : t[i] = q[i + 1] /\ i + 1 \in 1..n
      /\ Head(q) = q[1] /\ 1 \in 1..n
  OBVIOUS
<1>2. \A i \in 1..n : q[i].job \in Jobs /\ q[i].row \in Status
  BY WritesInFlight
<1> HIDE DEF t, n
\* The three facts about q alone carry over to its tail.
<1>a. \A i \in 1..(n - 1), k \in 1..(n - 1) :
        i <= k /\ t[i].job = t[k].job /\ t[i].row \in Terminal => t[k].row = t[i].row
  <2> SUFFICES ASSUME NEW i \in 1..(n - 1), NEW k \in 1..(n - 1),
                      i <= k, t[i].job = t[k].job, t[i].row \in Terminal
               PROVE  t[k].row = t[i].row
    OBVIOUS
  <2>1. i + 1 \in DOMAIN q /\ k + 1 \in DOMAIN q /\ i + 1 <= k + 1
    BY <1>1
  <2>2. t[i] = q[i + 1] /\ t[k] = q[k + 1]
    BY <1>1
  <2> QED BY <2>1, <2>2 DEF Agree
<1>b. \A i \in 1..(n - 1) : t[i].row \in Terminal => st[t[i].job] \in {t[i].row, "none"}
  <2> SUFFICES ASSUME NEW i \in 1..(n - 1), t[i].row \in Terminal
               PROVE  st[t[i].job] \in {t[i].row, "none"}
    OBVIOUS
  <2>1. i + 1 \in DOMAIN q /\ t[i] = q[i + 1]
    BY <1>1
  <2> QED BY <2>1 DEF Agree
<1>c. \A i \in 1..(n - 1) : d[t[i].job] \in Terminal => t[i].row = d[t[i].job]
  <2> SUFFICES ASSUME NEW i \in 1..(n - 1), d[t[i].job] \in Terminal
               PROVE  t[i].row = d[t[i].job]
    OBVIOUS
  <2>1. i + 1 \in DOMAIN q /\ t[i] = q[i + 1]
    BY <1>1
  <2> QED BY <2>1 DEF Agree
<1>d. \A j \in Jobs : Unsettled(j, q, d) => \A i \in 1..(n - 1) : t[i].job = j => t[i].row \notin Terminal
  BY <1>1 DEF Unsettled
<1>3. CASE e = d
  <2>1. Agree(st, t, e)
    BY <1>1, <1>3, <1>a, <1>b, <1>c DEF Agree
  <2>2. \A j \in Jobs : Unsettled(j, q, d) => Unsettled(j, t, e)
    BY <1>1, <1>3, <1>d DEF Unsettled
  <2> QED BY <1>3, <2>1, <2>2 DEF t
<1>4. CASE e = [d EXCEPT ![q[1].job] = q[1].row]
  <2>1. \A j \in Jobs : e[j] = IF j = q[1].job THEN q[1].row ELSE d[j]
    BY <1>1, <1>2, <1>4
  <2>2. \A j \in Jobs : d[j] \in Terminal => e[j] = d[j]
    BY <1>1, <2>1 DEF Agree
  <2>3. \A i \in 1..(n - 1) : e[t[i].job] \in Terminal => t[i].row = e[t[i].job]
    <3> SUFFICES ASSUME NEW i \in 1..(n - 1), e[t[i].job] \in Terminal
                 PROVE  t[i].row = e[t[i].job]
      OBVIOUS
    <3>1. i + 1 \in DOMAIN q /\ 1 \in DOMAIN q /\ 1 <= i + 1
      BY <1>1
    <3>2. t[i] = q[i + 1] /\ t[i].job \in Jobs
      BY <1>1, <1>2
    <3>3. CASE t[i].job = q[1].job
      BY <2>1, <3>1, <3>2, <3>3 DEF Agree
    <3>4. CASE t[i].job # q[1].job
      BY <2>1, <3>2, <3>4, <1>c
    <3> QED BY <3>3, <3>4
  <2>4. \A j \in Jobs : e[j] \in Terminal => st[j] \in {e[j], "none"}
    <3>1. 1 \in DOMAIN q
      BY <1>1
    <3> QED BY <2>1, <3>1 DEF Agree
  <2>5. Agree(st, t, e)
    BY <1>1, <1>a, <1>b, <2>3, <2>4 DEF Agree
  <2>6. \A j \in Jobs : Unsettled(j, q, d) => Unsettled(j, t, e)
    BY <1>1, <1>2, <1>d, <2>1 DEF Unsettled
  <2> QED BY <2>2, <2>5, <2>6 DEF t
<1> QED BY <1>1, <1>3, <1>4 DEF t

\* A new status for an unsettled job, and its write behind all the others.
LEMMA WriteAgrees ==
    ASSUME NEW st \in [Jobs -> Known], NEW q \in Seq(Entry), NEW d \in [Jobs -> Known],
           Agree(st, q, d), NEW j \in Jobs, Unsettled(j, q, d),
           NEW s \in Status, NEW who \in Awaiters
    PROVE  Agree([st EXCEPT ![j] = s], Append(q, Write(j, s, who)), d)
<1> DEFINE r == Append(q, Write(j, s, who))
           n == Len(q)
           u == [st EXCEPT ![j] = s]
<1>1. /\ n \in Nat /\ DOMAIN q = 1..n /\ DOMAIN r = 1..(n + 1)
      /\ \A i \in 1..n : r[i] = q[i]
      /\ r[n + 1].job = j /\ r[n + 1].row = s
  BY DEF Write
<1>2. \A i \in 1..n : q[i].job \in Jobs /\ q[i].row \in Status
  BY WritesInFlight
<1>3. \A k \in Jobs : u[k] = IF k = j THEN s ELSE st[k]
  OBVIOUS
<1> HIDE DEF r, n, u
<1>4. \A i \in 1..(n + 1) : i \in 1..n \/ i = n + 1
  BY <1>1
<1> SUFFICES Agree(u, r, d)
  BY DEF r, u
<1>5. \A i \in 1..(n + 1), k \in 1..(n + 1) :
        i <= k /\ r[i].job = r[k].job /\ r[i].row \in Terminal => r[k].row = r[i].row
  <2> SUFFICES ASSUME NEW i \in 1..(n + 1), NEW k \in 1..(n + 1),
                      i <= k, r[i].job = r[k].job, r[i].row \in Terminal
               PROVE  r[k].row = r[i].row
    OBVIOUS
  <2>1. CASE k \in 1..n
    BY <1>1, <2>1 DEF Agree
  <2>2. CASE k = n + 1 /\ i \in 1..n
    BY <1>1, <2>2 DEF Unsettled
  <2> QED BY <1>4, <2>1, <2>2, <1>1
<1>6. \A i \in 1..(n + 1) : r[i].row \in Terminal => u[r[i].job] \in {r[i].row, "none"}
  BY <1>1, <1>2, <1>3, <1>4 DEF Agree, Unsettled
<1>7. \A i \in 1..(n + 1) : d[r[i].job] \in Terminal => r[i].row = d[r[i].job]
  BY <1>1, <1>2, <1>4 DEF Agree, Unsettled
<1>8. \A k \in Jobs : d[k] \in Terminal => u[k] \in {d[k], "none"}
  BY <1>3 DEF Agree, Unsettled
<1> QED BY <1>1, <1>5, <1>6, <1>7, <1>8 DEF Agree

\* A new status for an unsettled job that is not written, and eviction.
LEMMA StatusAgrees ==
    ASSUME NEW st \in [Jobs -> Known], NEW q \in Seq(Entry), NEW d \in [Jobs -> Known],
           Agree(st, q, d), NEW u \in [Jobs -> Known],
           \A j \in Jobs : u[j] \in {st[j], "none"} \/ Unsettled(j, q, d)
    PROVE  Agree(u, q, d)
<1>2. \A i \in DOMAIN q : q[i].job \in Jobs
  BY WritesInFlight
<1> QED BY <1>2 DEF Agree, Unsettled

\* A cancelled worker's write, kept or dropped.
LEMMA OrphanAgrees ==
    ASSUME NEW st \in [Jobs -> Known], dbq \in Seq(Entry), NEW d \in [Jobs -> Known],
           Agree(st, dbq, d), NEW w \in Workers, NEW rest \in Orphaned(w)
    PROVE  /\ Agree(st, rest, d)
           /\ \A j \in Jobs : Unsettled(j, dbq, d) => Unsettled(j, rest, d)
           /\ \A j \in Jobs : (\A i \in DOMAIN dbq : dbq[i].job # j)
                                => \A i \in DOMAIN rest : rest[i].job # j
<1> DEFINE n == Len(dbq)
<1>1. n \in Nat /\ DOMAIN dbq = 1..n
  OBVIOUS
<1>2. CASE rest = [i \in 1..n |-> IF dbq[i].by = w THEN Write(dbq[i].job, dbq[i].row, "other")
                                  ELSE dbq[i]]
  <2>1. DOMAIN rest = 1..n /\ \A i \in 1..n : rest[i].job = dbq[i].job /\ rest[i].row = dbq[i].row
    BY <1>2 DEF Write
  <2> HIDE DEF n
  <2> QED BY <1>1, <2>1 DEF Agree, Unsettled
<1>3. ASSUME NEW k \in 1..n,
             rest = [i \in 1..(n - 1) |-> IF i < k THEN dbq[i] ELSE dbq[i + 1]]
      PROVE  /\ Agree(st, rest, d)
             /\ \A j \in Jobs : Unsettled(j, dbq, d) => Unsettled(j, rest, d)
             /\ \A j \in Jobs : (\A i \in DOMAIN dbq : dbq[i].job # j)
                                  => \A i \in DOMAIN rest : rest[i].job # j
  <2> DEFINE at(i) == IF i < k THEN i ELSE i + 1
  <2> HIDE DEF n
  <2>1. /\ DOMAIN rest = 1..(n - 1)
        /\ \A i \in 1..(n - 1) : at(i) \in 1..n /\ rest[i] = dbq[at(i)]
        /\ \A i, m \in 1..(n - 1) : i <= m => at(i) <= at(m)
    BY <1>1, <1>3
  <2> HIDE DEF at
  <2>2. \A i \in 1..(n - 1), m \in 1..(n - 1) :
          i <= m /\ rest[i].job = rest[m].job /\ rest[i].row \in Terminal
            => rest[m].row = rest[i].row
    BY <1>1, <2>1 DEF Agree
  <2>3. \A i \in 1..(n - 1) :
          /\ rest[i].row \in Terminal => st[rest[i].job] \in {rest[i].row, "none"}
          /\ d[rest[i].job] \in Terminal => rest[i].row = d[rest[i].job]
    BY <1>1, <2>1 DEF Agree
  <2>4. Agree(st, rest, d)
    BY <2>1, <2>2, <2>3 DEF Agree
  <2>5. \A j \in Jobs : Unsettled(j, dbq, d) => Unsettled(j, rest, d)
    BY <1>1, <2>1 DEF Unsettled
  <2>6. \A j \in Jobs : (\A i \in DOMAIN dbq : dbq[i].job # j)
                           => \A i \in DOMAIN rest : rest[i].job # j
    BY <1>1, <2>1
  <2> QED BY <2>4, <2>5, <2>6
<1> QED BY <1>2, <1>3 DEF Orphaned

-----------------------------------------------------------------------------
(* The steps, reduced to what they do to the agreement. *)

\* q and e are what a step may leave of the writes in flight and of the disk
\* before it makes a write of its own.
Base(q, e) ==
    /\ q \in Seq(Entry) /\ e \in [Jobs -> Known]
    /\ Agree(status, q, e)
    /\ \A j \in Jobs : db[j] \in Terminal => e[j] = db[j]
    /\ \A j \in Jobs : Unsettled(j, dbq, db) => Unsettled(j, q, e)
    /\ \A j \in Jobs : created[j] = 0 => e[j] = "none" /\ \A i \in DOMAIN q : q[i].job # j

\* What every step must keep.
Kept == OutcomesAgree' /\ \A j \in Jobs : db[j] \in Terminal => db'[j] = db[j]

LEMMA BaseNow == IInv => Base(dbq, db)
BY DEF IInv, TypeOK, OutcomesAgree, Entry, Base

LEMMA BaseStored ==
    ASSUME IInv, dbq # <<>>, HeadStored
    PROVE  Base(Tail(dbq), db')
<1>1. /\ status \in [Jobs -> Known] /\ db \in [Jobs -> Known] /\ dbq \in Seq(Entry)
      /\ Agree(status, dbq, db)
  BY DEF IInv, TypeOK, OutcomesAgree, Entry
<1>2. db' \in [Jobs -> Known] /\ Tail(dbq) \in Seq(Entry)
  BY HeadStoredType DEF IInv
<1>3. db' \in {db, [db EXCEPT ![Head(dbq).job] = Head(dbq).row]}
  BY DEF HeadStored
<1>4. ASSUME NEW j \in Jobs, created[j] = 0
      PROVE  db'[j] = "none" /\ \A i \in DOMAIN Tail(dbq) : Tail(dbq)[i].job # j
  <2>1. db[j] = "none" /\ \A i \in DOMAIN dbq : dbq[i].job # j
    BY <1>4 DEF IInv, OutcomesAgree
  <2>2. \A i \in DOMAIN Tail(dbq) : Tail(dbq)[i] = dbq[i + 1] /\ i + 1 \in DOMAIN dbq
    BY <1>1
  <2>3. Head(dbq) = dbq[1] /\ 1 \in DOMAIN dbq
    BY <1>1
  <2> QED BY <1>1, <1>3, <2>1, <2>2, <2>3
<1> QED BY <1>1, <1>2, <1>3, <1>4, StoreAgrees DEF Base

LEMMA BaseOrphaned ==
    ASSUME IInv, NEW w \in Workers, NEW rest \in Orphaned(w)
    PROVE  Base(rest, db)
<1>1. /\ status \in [Jobs -> Known] /\ db \in [Jobs -> Known] /\ dbq \in Seq(Entry)
      /\ Agree(status, dbq, db)
  BY DEF IInv, TypeOK, OutcomesAgree, Entry
<1>2. rest \in Seq(Entry)
  BY <1>1, OrphanedType
<1> QED BY <1>1, <1>2, OrphanAgrees DEF Base, IInv, OutcomesAgree

\* A step that gives an open job a new status and writes it.
LEMMA WriteStep ==
    ASSUME IInv, NEW q, NEW e, Base(q, e), NEW j \in Jobs, status[j] \in Open,
           NEW s \in Status, NEW who \in Awaiters,
           status' = [status EXCEPT ![j] = s], dbq' = Append(q, Write(j, s, who)),
           db' = e, created' = created, mode' # "down"
    PROVE  Kept
<1>1. /\ status \in [Jobs -> Known] /\ db \in [Jobs -> Known] /\ dbq \in Seq(Entry)
      /\ Agree(status, dbq, db)
  BY DEF IInv, TypeOK, OutcomesAgree, Entry
<1>2. Unsettled(j, q, e)
  BY <1>1, OpenUnsettled DEF Base
<1>3. Agree(status', dbq', db')
  BY <1>1, <1>2, WriteAgrees DEF Base
<1>4. created[j] # 0
  BY DEF IInv, OutcomesAgree, Open
<1>5. ASSUME NEW k \in Jobs, created[k] = 0
      PROVE  status'[k] = "none" /\ db'[k] = "none" /\ \A i \in DOMAIN dbq' : dbq'[i].job # k
  <2>1. status[k] = "none" /\ k # j
    BY <1>4, <1>5 DEF IInv, OutcomesAgree
  <2>2. \A i \in DOMAIN q : q[i].job # k
    BY <1>5 DEF Base
  <2>3. \A i \in DOMAIN dbq' : dbq'[i].job # k
    BY <2>1, <2>2 DEF Base, Write
  <2> QED BY <1>1, <1>5, <2>1, <2>3 DEF Base
<1> QED BY <1>3, <1>5 DEF Kept, OutcomesAgree, Base

\* A step that writes nothing new.
LEMMA QuietStep ==
    ASSUME IInv, NEW q, NEW e, Base(q, e), dbq' = q, db' = e, created' = created,
           mode' # "down", status' \in [Jobs -> Known],
           \A j \in Jobs : status'[j] \in {status[j], "none"} \/ status[j] \in Open
    PROVE  Kept
<1>1. /\ status \in [Jobs -> Known] /\ db \in [Jobs -> Known] /\ dbq \in Seq(Entry)
      /\ Agree(status, dbq, db)
  BY DEF IInv, TypeOK, OutcomesAgree, Entry
<1>2. \A j \in Jobs : status'[j] \in {status[j], "none"} \/ Unsettled(j, q, e)
  BY <1>1, OpenUnsettled DEF Base
<1>3. Agree(status', dbq', db')
  BY <1>1, <1>2, StatusAgrees DEF Base
<1>4. \A k \in Jobs : created[k] = 0 =>
        status'[k] = "none" /\ db'[k] = "none" /\ \A i \in DOMAIN dbq' : dbq'[i].job # k
  BY DEF Base, IInv, OutcomesAgree, Open
<1> QED BY <1>3, <1>4 DEF Kept, OutcomesAgree, Base

\* The except branch of _execute_job.
LEMMA RaisedStep ==
    ASSUME IInv, NEW q, NEW e, Base(q, e), NEW w \in Workers, wjob[w] \in Jobs,
           Raised(w, q), db' = e, created' = created, mode' # "down"
    PROVE  Kept
<1>1. CASE CanGo(status[wjob[w]], "failed")
  <2>1. status[wjob[w]] \in Open
    BY <1>1 DEF CanGo, ValidTransitions, Status, Open, Terminal
  <2>2. /\ status' = [status EXCEPT ![wjob[w]] = "failed"]
        /\ dbq' = Append(q, Write(wjob[w], "failed", w))
    BY <1>1 DEF Raised, Conclude
  <2>3. "failed" \in Status /\ w \in Awaiters
    BY DEF Status, Terminal, Awaiters
  <2> QED BY <2>1, <2>2, <2>3, WriteStep
<1>2. CASE ~CanGo(status[wjob[w]], "failed")
  <2>1. dbq' = q /\ status' = status
    BY <1>2 DEF Raised
  <2>2. status \in [Jobs -> Known]
    BY DEF IInv, TypeOK
  <2> QED BY <2>1, <2>2, QuietStep
<1> QED BY <1>1, <1>2

\* Only an open job can go anywhere.
LEMMA OpenGoes ==
    ASSUME NEW old, NEW new, CanGo(old, new)
    PROVE  old \in Open /\ new \in Status
BY DEF CanGo, ValidTransitions, Status, Open, Terminal

-----------------------------------------------------------------------------
(* The invariant is inductive. *)

LEMMA FinalInit == Init => OutcomesAgree
<1> SUFFICES ASSUME Init PROVE OutcomesAgree
  OBVIOUS
<1>1. dbq = <<>> /\ \A j \in Jobs : status[j] = "none" /\ db[j] = "none"
  BY DEF Init
<1>2. DOMAIN dbq = {}
  BY <1>1
<1>3. Agree(status, dbq, db)
  BY <1>1, <1>2 DEF Agree, Terminal
<1> QED BY <1>1, <1>2, <1>3 DEF OutcomesAgree

\* One step keeps the agreement, and no final status on disk changes.
LEMMA FinalNext == IInv /\ [Next]_vars => Kept
<1> SUFFICES ASSUME IInv, [Next]_vars PROVE Kept
  OBVIOUS
<1>t. /\ status \in [Jobs -> Known] /\ db \in [Jobs -> Known] /\ dbq \in Seq(Entry)
      /\ created \in [Jobs -> Nat] /\ clock \in Nat /\ queue \in Seq(Jobs)
      /\ Agree(status, dbq, db)
      /\ \A w \in Workers : wpc[w] \in AtWork => wjob[w] \in Jobs
  BY DEF IInv, TypeOK, OutcomesAgree, Entry
<1>f. \A j \in Jobs : created[j] = 0 =>
        status[j] = "none" /\ db[j] = "none" /\ \A i \in DOMAIN dbq : dbq[i].job # j
  BY DEF IInv, OutcomesAgree
<1>s. /\ Status \subseteq Known /\ Workers \subseteq Awaiters
      /\ {"submit", "resume", "other"} \subseteq Awaiters
      /\ Open \subseteq Status /\ Terminal \subseteq Status
  BY DEF Status, Known, Awaiters
<1>1. ASSUME NEW j \in Jobs, Submit(j) PROVE Kept
  <2>1. Unsettled(j, dbq, db)
    BY <1>1, <1>f DEF Submit, Unsettled, Terminal
  <2>2. Agree(status', dbq', db)
    BY <1>1, <1>t, <1>s, <2>1, WriteAgrees DEF Submit, Status, Open
  <2>3. \A k \in Jobs : created'[k] = 0 => created[k] = 0 /\ k # j
    BY <1>1, <1>t DEF Submit
  <2>4. \A k \in Jobs : created'[k] = 0 =>
          status'[k] = "none" /\ \A i \in DOMAIN dbq' : dbq'[i].job # k
    BY <1>1, <1>t, <1>f, <2>3 DEF Submit, Write
  <2> QED BY <1>1, <1>f, <2>2, <2>3, <2>4 DEF Submit, OutcomesAgree, Kept
<1>2. ASSUME NEW j \in Jobs, Cancel(j) PROVE Kept
  <2>1. status[j] \in Open
    BY <1>2, OpenGoes DEF Cancel
  <2> QED BY <1>2, <1>s, <2>1, BaseNow, WriteStep DEF Cancel, Conclude, Terminal
<1>3. ASSUME NEW j \in Jobs, Pause(j) PROVE Kept
  <2>1. status[j] \in Open
    BY <1>3, OpenGoes DEF Pause
  <2> QED BY <1>3, <1>s, <2>1, BaseNow, WriteStep DEF Pause, Open
<1>4. ASSUME NEW j \in Jobs, Resume(j) PROVE Kept
  BY <1>4, <1>s, BaseNow, WriteStep DEF Resume, Open
<1>5. ASSUME NEW j \in Jobs, Deny(j) PROVE Kept
  BY <1>5, <1>s, BaseNow, WriteStep DEF Deny, Conclude, Open, Terminal
<1>6. CASE SubmitPersisted
  <2>1. Base(Tail(dbq), db')
    BY <1>6, BaseStored DEF SubmitPersisted, Woken
  <2>2. PICK j \in Jobs : \/ CanGo(status[j], "queued") /\ status' = [status EXCEPT ![j] = "queued"]
                          \/ status' = status
    <3>1. dbq # <<>>
      BY <1>6 DEF SubmitPersisted, Woken
    <3>2. Head(dbq) \in Entry
      BY <1>t, <3>1
    <3>3. Head(dbq).job \in Jobs
      BY <3>2 DEF Entry
    <3> DEFINE h == Head(dbq).job
    <3>4. IF CanGo(status[h], "queued") THEN status' = [status EXCEPT ![h] = "queued"]
                                        ELSE status' = status
      BY <1>6 DEF SubmitPersisted
    <3> HIDE DEF h
    <3> QED BY <3>3, <3>4 DEF h
  <2>3. /\ status' \in [Jobs -> Known]
        /\ \A k \in Jobs : status'[k] \in {status[k], "none"} \/ status[k] \in Open
    BY <1>t, <1>s, <2>2, OpenGoes
  <2> QED BY <1>6, <2>1, <2>3, QuietStep DEF SubmitPersisted
<1>7. CASE ResumePersisted
  <2>1. Base(Tail(dbq), db')
    BY <1>7, BaseStored DEF ResumePersisted, Woken
  <2> QED BY <1>7, <1>t, <2>1, QuietStep DEF ResumePersisted
<1>8. CASE RowPersisted
  <2>1. Base(Tail(dbq), db')
    BY <1>8, BaseStored DEF RowPersisted, Woken
  <2> QED BY <1>8, <1>t, <2>1, QuietStep DEF RowPersisted
<1>9. ASSUME NEW w \in Workers, TakeNothing(w) \/ TakeResumed(w) \/ TakeInvalid(w) PROVE Kept
  BY <1>9, <1>t, BaseNow, QuietStep DEF TakeNothing, TakeResumed, TakeInvalid, NextId
<1>10. ASSUME NEW w \in Workers, TakeQueued(w) PROVE Kept
  <2>1. Head(queue) \in Jobs
    BY <1>10, <1>t DEF TakeQueued, NextId
  <2>2. status[Head(queue)] \in Open
    BY <1>10, OpenGoes DEF TakeQueued
  <2> QED BY <1>10, <1>s, <2>1, <2>2, BaseNow, WriteStep DEF TakeQueued, NextId, Open
<1>11. ASSUME NEW w \in Workers, DispatchPersisted(w) PROVE Kept
  <2>1. Base(Tail(dbq), db')
    BY <1>11, BaseStored DEF DispatchPersisted, Woken
  <2>2. wjob[w] \in Jobs
    BY <1>11, <1>t DEF DispatchPersisted, AtWork
  <2>3. CASE CanGo(status[wjob[w]], "running")
    <3>1. status[wjob[w]] \in Open
      BY <2>3, OpenGoes
    <3> QED BY <1>11, <1>s, <2>1, <2>2, <2>3, <3>1, WriteStep DEF DispatchPersisted, Open
  <2>4. CASE ~CanGo(status[wjob[w]], "running")
    BY <1>11, <2>1, <2>2, <2>4, RaisedStep DEF DispatchPersisted
  <2> QED BY <2>3, <2>4
<1>12. ASSUME NEW w \in Workers, StartPersisted(w) PROVE Kept
  <2>1. Base(Tail(dbq), db')
    BY <1>12, BaseStored DEF StartPersisted, Woken
  <2> QED BY <1>12, <1>t, <2>1, QuietStep DEF StartPersisted
<1>13. ASSUME NEW w \in Workers, Returns(w) PROVE Kept
  <2>1. wjob[w] \in Jobs
    BY <1>13, <1>t DEF Returns, AtWork
  <2>2. CASE CanGo(status[wjob[w]], "completed")
    <3>1. status[wjob[w]] \in Open
      BY <2>2, OpenGoes
    <3> QED BY <1>13, <1>s, <2>1, <2>2, <3>1, BaseNow, WriteStep
            DEF Returns, Conclude, Terminal
  <2>3. CASE ~CanGo(status[wjob[w]], "completed")
    BY <1>13, <2>1, <2>3, BaseNow, RaisedStep DEF Returns
  <2> QED BY <2>2, <2>3
<1>14. ASSUME NEW w \in Workers, Raises(w) PROVE Kept
  BY <1>14, <1>t, BaseNow, RaisedStep DEF Raises, AtWork
<1>15. ASSUME NEW w \in Workers, FinishPersisted(w) PROVE Kept
  <2>1. Base(Tail(dbq), db')
    BY <1>15, BaseStored DEF FinishPersisted, Woken
  <2>2. /\ status' \in [Jobs -> Known]
        /\ \A j \in Jobs : status'[j] \in {status[j], "none"}
    BY <1>15, <1>t DEF FinishPersisted, Known
  <2> QED BY <1>15, <2>1, <2>2, QuietStep DEF FinishPersisted
<1>16. ASSUME NEW w \in Workers, Interrupt(w) PROVE Kept
  <2>1. PICK rest \in Orphaned(w) :
          IF wjob[w] # NoJob /\ status[wjob[w]] = "running"
          THEN /\ Conclude(wjob[w], "failed")
               /\ dbq' = Append(rest, Write(wjob[w], "failed", w))
               /\ Holds(w, "interrupted", wjob[w])
          ELSE /\ dbq' = rest
               /\ Holds(w, "stopped", NoJob)
               /\ UNCHANGED <<status, completed, clock>>
    BY <1>16 DEF Interrupt
  <2>2. Base(rest, db)
    BY BaseOrphaned
  <2>3. CASE wjob[w] # NoJob /\ status[wjob[w]] = "running"
    <3>1. wjob[w] \in Jobs
      BY <2>3 DEF IInv, TypeOK
    <3> QED BY <1>16, <1>s, <2>1, <2>2, <2>3, <3>1, WriteStep
            DEF Interrupt, Conclude, Terminal, Open
  <2>4. CASE ~(wjob[w] # NoJob /\ status[wjob[w]] = "running")
    BY <1>16, <1>t, <2>1, <2>2, <2>4, QuietStep DEF Interrupt
  <2> QED BY <2>3, <2>4
<1>17. ASSUME NEW w \in Workers, InterruptPersisted(w) PROVE Kept
  <2>1. Base(Tail(dbq), db')
    BY <1>17, BaseStored DEF InterruptPersisted, Woken
  <2> QED BY <1>17, <1>t, <2>1, QuietStep DEF InterruptPersisted
<1>18. CASE Start
  <2>1. dbq = <<>> /\ dbq' = <<>> /\ mode' # "down" /\ created' = created
    BY <1>18 DEF Start, IInv, OutcomesAgree
  <2>0. PICK F \in SUBSET Loaded, lost \in SUBSET Loaded : FromRows(F, lost)
    BY <1>18, StartReads
  <2>2. \A j \in Jobs :
          /\ db[j] \in Terminal => db'[j] = db[j] /\ status'[j] \in {db[j], "none"}
          /\ db[j] = "none" => db'[j] = "none" /\ status'[j] = "none"
          /\ db'[j] \in Terminal => db[j] \in Terminal
    BY <2>0, <1>t DEF FromRows, Recovered, Loaded, Rows, Terminal
  <2> QED BY <1>f, <2>1, <2>2 DEF Kept, OutcomesAgree, Agree
<1>19. CASE Stop
  BY <1>19, <1>t, BaseNow, QuietStep DEF Stop
<1>20. CASE Exit \/ Crash
  <2>1. Gone
    BY <1>20 DEF Exit, Crash
  <2>2. dbq' = <<>> /\ db' = db /\ created' = created /\ \A j \in Jobs : status'[j] = "none"
    BY <2>1 DEF Gone
  <2> QED BY <1>f, <2>2 DEF Kept, OutcomesAgree, Agree
<1>21. CASE UNCHANGED vars
  BY <1>21 DEF vars, Kept, IInv, OutcomesAgree
<1> QED
  BY <1>1, <1>2, <1>3, <1>4, <1>5, <1>6, <1>7, <1>8, <1>9, <1>10, <1>11, <1>12, <1>13,
     <1>14, <1>15, <1>16, <1>17, <1>18, <1>19, <1>20, <1>21
     DEF Next, Client, Caller, Worker, Process

LEMMA Inductive == Spec => []IInv
<1>1. Init => IInv
  BY TypeInit, FinalInit DEF IInv
<1>2. IInv /\ [Next]_vars => IInv'
  BY TypeNext, FinalNext DEF IInv, Kept
<1> QED BY <1>1, <1>2, PTL DEF Spec

\* Memory, the writes in flight and the disk agree on every final status, in every
\* reachable state.
THEOREM OutcomesAlwaysAgree == Spec => []OutcomesAgree
BY Inductive, PTL DEF IInv

\* A final status on disk is never rewritten.
THEOREM OutcomeIsFinal == Spec => DurableOutcomeFinal
<1>1. IInv /\ [Next]_vars => [\A j \in Jobs : db[j] \in Terminal => db'[j] = db[j]]_vars
  BY FinalNext DEF Kept
<1> QED BY <1>1, Inductive, PTL DEF Spec, DurableOutcomeFinal

-----------------------------------------------------------------------------
(* Who waits for a write, and what stands in the queue. *)

Waits(q, j, who) == \E i \in DOMAIN q : q[i].job = j /\ q[i].by = who
Lined(l, j) == \E i \in DOMAIN l : l[i] = j

LEMMA WaitsAppend ==
    ASSUME NEW q \in Seq(Entry), NEW k, NEW row, NEW by
    PROVE  \A j, who : Waits(Append(q, Write(k, row, by)), j, who)
                         <=> Waits(q, j, who) \/ (j = k /\ who = by)
<1> DEFINE r == Append(q, Write(k, row, by))
           n == Len(q)
<1>1. /\ n \in Nat /\ DOMAIN q = 1..n /\ DOMAIN r = 1..(n + 1)
      /\ \A i \in 1..n : r[i] = q[i]
      /\ r[n + 1].job = k /\ r[n + 1].by = by
  BY DEF Write
<1> HIDE DEF r, n
<1>2. \A i \in 1..(n + 1) : i \in 1..n \/ i = n + 1
  BY <1>1
<1>3. 1..n \subseteq 1..(n + 1) /\ n + 1 \in 1..(n + 1)
  BY <1>1
<1>4. \A j, who : Waits(r, j, who) <=> Waits(q, j, who) \/ (j = k /\ who = by)
  BY <1>1, <1>2, <1>3 DEF Waits
<1> QED BY <1>4 DEF r

LEMMA WaitsTail ==
    ASSUME NEW q \in Seq(Entry), q # <<>>
    PROVE  \A j, who : Waits(q, j, who)
                         => Waits(Tail(q), j, who) \/ (Head(q).job = j /\ Head(q).by = who)
<1> DEFINE t == Tail(q)
           n == Len(q)
<1>1. /\ n \in Nat \ {0} /\ DOMAIN q = 1..n /\ DOMAIN t = 1..(n - 1)
      /\ \A i \in 1..(n - 1) : t[i] = q[i + 1]
      /\ Head(q) = q[1]
  OBVIOUS
<1> HIDE DEF t, n
<1>2. \A i \in 1..n : i = 1 \/ (i - 1 \in 1..(n - 1) /\ t[i - 1] = q[i])
  BY <1>1
<1>3. \A j, who : Waits(q, j, who) => Waits(t, j, who) \/ (q[1].job = j /\ q[1].by = who)
  BY <1>1, <1>2 DEF Waits
<1> QED BY <1>1, <1>3 DEF t

LEMMA LinedAppend ==
    ASSUME NEW l \in Seq(Jobs), NEW k \in Jobs
    PROVE  \A j : Lined(Append(l, k), j) <=> Lined(l, j) \/ j = k
<1> DEFINE r == Append(l, k)
           n == Len(l)
<1>1. /\ n \in Nat /\ DOMAIN l = 1..n /\ DOMAIN r = 1..(n + 1)
      /\ \A i \in 1..n : r[i] = l[i]
      /\ r[n + 1] = k
  OBVIOUS
<1> HIDE DEF r, n
<1>2. \A i \in 1..(n + 1) : i \in 1..n \/ i = n + 1
  BY <1>1
<1>3. 1..n \subseteq 1..(n + 1) /\ n + 1 \in 1..(n + 1)
  BY <1>1
<1>4. \A j : Lined(r, j) <=> Lined(l, j) \/ j = k
  BY <1>1, <1>2, <1>3 DEF Lined
<1> QED BY <1>4 DEF r

LEMMA LinedTail ==
    ASSUME NEW l \in Seq(Jobs), l # <<>>
    PROVE  /\ \A j : Lined(l, j) <=> Lined(Tail(l), j) \/ Head(l) = j
           /\ Head(l) \in Jobs
<1> DEFINE t == Tail(l)
           n == Len(l)
<1>1. /\ n \in Nat \ {0} /\ DOMAIN l = 1..n /\ DOMAIN t = 1..(n - 1)
      /\ \A i \in 1..(n - 1) : t[i] = l[i + 1]
      /\ Head(l) = l[1] /\ l[1] \in Jobs
  OBVIOUS
<1> HIDE DEF t, n
<1>2. \A i \in 1..n : i = 1 \/ (i - 1 \in 1..(n - 1) /\ t[i - 1] = l[i])
  BY <1>1
<1>3. /\ 1 \in 1..n
      /\ \A i \in 1..(n - 1) : i + 1 \in 1..n
  BY <1>1
<1>4. \A j : Lined(l, j) <=> Lined(t, j) \/ l[1] = j
  BY <1>1, <1>2, <1>3 DEF Lined
<1> QED BY <1>1, <1>4 DEF t

-----------------------------------------------------------------------------
(* No job is stranded. *)

HeldBy(j, pcs) == \E w \in Workers : wjob[w] = j /\ wpc[w] \in pcs

\* Somebody carries on with j.
Carried(j) ==
    /\ status[j] = "pending"    => Waits(dbq, j, "submit")
    /\ status[j] = "queued"     => Lined(queue, j)
    /\ status[j] = "dispatched" => HeldBy(j, {"dispatching"})
    /\ status[j] = "running"    => \/ HeldBy(j, {"starting", "running"})
                                   \/ Lined(queue, j) \/ Waits(dbq, j, "resume")

LEMMA CarriedMeans == NoStrandedJob <=> (mode = "up" => \A j \in Jobs : Carried(j))
BY DEF NoStrandedJob, Carried, Waits, Lined, HeldBy

\* The queue start() builds holds every job it recovered.
LEMMA QueueHoldsAll ==
    ASSUME TypeOK, NEW S \in SUBSET Jobs, NEW q \in NewestFirst(S)
    PROVE  /\ \A j \in S : Lined(q, j)
           /\ \A i, k \in DOMAIN q : q[i] = q[k] => i = k
           /\ \A i \in DOMAIN q : q[i] \in S
<1> DEFINE n == Cardinality(S)
<1>1. IsFiniteSet(S) /\ n \in Nat
  BY FS_Subset, FS_CardinalityType, JobsAssumption
<1>2. q \in [1..n -> S] /\ \A i, k \in 1..n : i < k => created[q[i]] > created[q[k]]
  BY DEF NewestFirst
<1>3. \A j \in S : created[j] \in Nat
  BY DEF TypeOK
<1> HIDE DEF n
<1>4. \A i, k \in 1..n : q[i] = q[k] => i = k
  <2> SUFFICES ASSUME NEW i \in 1..n, NEW k \in 1..n, q[i] = q[k], i # k PROVE FALSE
    OBVIOUS
  <2>1. i < k \/ k < i
    BY <1>1
  <2>2. q[i] \in S /\ created[q[i]] \in Nat
    BY <1>2, <1>3
  <2> QED BY <1>2, <2>1, <2>2
<1>5. q \in Injection(1..n, S)
  BY <1>2, <1>4 DEF Injection, IsInjective
<1>6. IsFiniteSet(1..n) /\ Cardinality(1..n) = n
  BY <1>1, FS_Interval
<1>7. q \in Surjection(1..n, S)
  BY <1>1, <1>5, <1>6, FS_Injection DEF n
<1> QED BY <1>2, <1>4, <1>7 DEF Surjection, Lined

\* A write of who that is done is not one of who else.
LEMMA HeadIsBy ==
    ASSUME TypeOK, NEW who, Woken(who)
    PROVE  /\ dbq # <<>> /\ dbq \in Seq(Entry) /\ Head(dbq).job \in Jobs
           /\ \A j, by : by # who /\ Waits(dbq, j, by) => Waits(Tail(dbq), j, by)
           /\ \A j : j # Head(dbq).job /\ Waits(dbq, j, who) => Waits(Tail(dbq), j, who)
<1>1. dbq # <<>> /\ dbq \in Seq(Entry) /\ Head(dbq).by = who
  BY DEF Woken, TypeOK, Entry
<1>2. Head(dbq) \in Entry
  BY <1>1, WritesType
<1>3. Head(dbq).job \in Jobs
  BY <1>2 DEF Entry
<1> QED BY <1>1, <1>3, WaitsTail

\* The except branch takes a job away from its worker only when it is not running.
LEMMA RaisedCarries ==
    ASSUME TypeOK, NEW w \in Workers, wjob[w] \in Jobs, NEW rest \in Seq(Entry),
           \A j \in Jobs, by \in {"submit", "resume"} : Waits(dbq, j, by) => Waits(rest, j, by),
           Raised(w, rest), queue' = queue,
           status[wjob[w]] # "dispatched" \/ wpc[w] = "running",
           \A j \in Jobs : Carried(j)
    PROVE  \A j \in Jobs : Carried(j)'
<1> SUFFICES ASSUME NEW j \in Jobs PROVE Carried(j)'
  OBVIOUS
<1>t. status \in [Jobs -> Known] /\ wpc \in [Workers -> WorkerState]
      /\ wjob \in [Workers -> Jobs \cup {NoJob}]
  BY DEF TypeOK
<1>1. CASE CanGo(status[wjob[w]], "failed")
  <2>1. /\ status' = [status EXCEPT ![wjob[w]] = "failed"]
        /\ dbq' = Append(rest, Write(wjob[w], "failed", w))
        /\ wpc' = [wpc EXCEPT ![w] = "finishing"] /\ wjob' = [wjob EXCEPT ![w] = wjob[w]]
    BY <1>1 DEF Raised, Conclude, Holds
  <2>2. \A by \in {"submit", "resume"} : Waits(dbq, j, by) => Waits(dbq', j, by)
    BY <2>1, WaitsAppend
  <2>3. CASE j = wjob[w]
    BY <1>t, <2>1, <2>3 DEF Carried
  <2>4. CASE j # wjob[w]
    BY <1>t, <2>1, <2>2, <2>4 DEF Carried, HeldBy
  <2> QED BY <2>3, <2>4
<1>2. CASE ~CanGo(status[wjob[w]], "failed")
  <2>1. /\ dbq' = rest /\ status' = status
        /\ wpc' = [wpc EXCEPT ![w] = "dead"] /\ wjob' = [wjob EXCEPT ![w] = NoJob]
    BY <1>2 DEF Raised, Dies, Holds
  <2>2. status[wjob[w]] \notin {"dispatched", "running"}
    BY <1>2 DEF CanGo, ValidTransitions, Status, Open
  <2> QED BY <1>t, <2>1, <2>2 DEF Carried, HeldBy
<1> QED BY <1>1, <1>2

LEMMA StrandedNext == TypeOK /\ NoStrandedJob /\ [Next]_vars => NoStrandedJob'
<1> SUFFICES ASSUME TypeOK, NoStrandedJob, [Next]_vars, mode' = "up",
                    NEW j \in Jobs
             PROVE  Carried(j)'
  BY CarriedMeans DEF NoStrandedJob, Carried, Waits, Lined, HeldBy
<1>t. /\ status \in [Jobs -> Known] /\ wpc \in [Workers -> WorkerState]
      /\ wjob \in [Workers -> Jobs \cup {NoJob}] /\ queue \in Seq(Jobs)
      /\ dbq \in Seq(Entry) /\ db \in [Jobs -> Known]
      /\ \A w \in Workers : wpc[w] \in AtWork => wjob[w] \in Jobs
  BY DEF TypeOK, Entry
<1>c. mode = "up" => \A k \in Jobs : Carried(k)
  BY CarriedMeans
<1>w. \A w \in Workers : w \notin {"submit", "resume", "other"}
  BY WorkersAssumption
<1>1. ASSUME NEW k \in Jobs, Submit(k) PROVE Carried(j)'
  <2>1. \A i, who : Waits(dbq', i, who) <=> Waits(dbq, i, who) \/ (i = k /\ who = "submit")
    BY <1>1, <1>t, WaitsAppend DEF Submit
  <2> QED BY <1>1, <1>t, <1>c, <2>1 DEF Submit, pool, Carried, HeldBy
<1>2. ASSUME NEW k \in Jobs, Cancel(k) \/ Deny(k) PROVE Carried(j)'
  <2>0. dbq' = Append(dbq, Write(k, "cancelled", "other"))
    BY <1>2 DEF Cancel, Deny
  <2>1. \A i, who : Waits(dbq', i, who) <=> Waits(dbq, i, who) \/ (i = k /\ who = "other")
    BY <1>t, <2>0, WaitsAppend
  <2>2. mode = "up" /\ status' = [status EXCEPT ![k] = "cancelled"] /\ UNCHANGED <<queue, wpc, wjob>>
    BY <1>2 DEF Cancel, Deny, Conclude, pool
  <2> QED BY <1>t, <1>c, <2>1, <2>2 DEF Carried, HeldBy
<1>3. ASSUME NEW k \in Jobs, Pause(k) PROVE Carried(j)'
  <2>1. \A i, who : Waits(dbq', i, who) <=> Waits(dbq, i, who) \/ (i = k /\ who = "other")
    BY <1>3, <1>t, WaitsAppend DEF Pause
  <2> QED BY <1>3, <1>t, <1>c, <2>1 DEF Pause, pool, Carried, HeldBy
<1>4. ASSUME NEW k \in Jobs, Resume(k) PROVE Carried(j)'
  <2>1. \A i, who : Waits(dbq', i, who) <=> Waits(dbq, i, who) \/ (i = k /\ who = "resume")
    BY <1>4, <1>t, WaitsAppend DEF Resume
  <2> QED BY <1>4, <1>t, <1>c, <2>1 DEF Resume, pool, Carried, HeldBy
<1>5. CASE SubmitPersisted
  <2> DEFINE h == Head(dbq).job
  <2>1. /\ h \in Jobs /\ mode = "up" /\ UNCHANGED <<wpc, wjob>>
        /\ Waits(dbq, j, "resume") => Waits(dbq', j, "resume")
        /\ j # h /\ Waits(dbq, j, "submit") => Waits(dbq', j, "submit")
    BY <1>5, HeadIsBy DEF SubmitPersisted, pool
  <2>2. IF CanGo(status[h], "queued")
        THEN status' = [status EXCEPT ![h] = "queued"] /\ queue' = Append(queue, h)
        ELSE UNCHANGED <<status, queue>>
    BY <1>5 DEF SubmitPersisted
  <2>3. status[h] = "pending" => CanGo(status[h], "queued")
    BY DEF CanGo, ValidTransitions, Status, Open
  <2> HIDE DEF h
  <2>4. CASE CanGo(status[h], "queued")
    <3>0. h \in Jobs /\ queue' = Append(queue, h)
      BY <2>1, <2>2, <2>4
    <3>1. \A i : Lined(queue', i) <=> Lined(queue, i) \/ i = h
      BY <1>t, <3>0, LinedAppend
    <3>2. status'[j] = IF j = h THEN "queued" ELSE status[j]
      BY <1>t, <2>2, <2>4
    <3> QED BY <1>c, <2>1, <3>1, <3>2 DEF Carried, HeldBy
  <2>5. CASE ~CanGo(status[h], "queued")
    BY <1>c, <2>1, <2>2, <2>3, <2>5 DEF Carried, HeldBy
  <2> QED BY <2>4, <2>5
<1>6. CASE ResumePersisted
  <2>1. /\ Head(dbq).job \in Jobs
        /\ Waits(dbq, j, "submit") => Waits(dbq', j, "submit")
        /\ j # Head(dbq).job /\ Waits(dbq, j, "resume") => Waits(dbq', j, "resume")
    BY <1>6, HeadIsBy DEF ResumePersisted
  <2>2. \A i : Lined(queue', i) <=> Lined(queue, i) \/ i = Head(dbq).job
    BY <1>6, <1>t, <2>1, LinedAppend DEF ResumePersisted
  <2>3. mode = "up" /\ UNCHANGED <<status, wpc, wjob>>
    BY <1>6 DEF ResumePersisted, pool
  <2> QED BY <1>c, <2>1, <2>2, <2>3 DEF Carried, HeldBy
<1>7. CASE RowPersisted
  <2>1. \A by \in {"submit", "resume"} : Waits(dbq, j, by) => Waits(dbq', j, by)
    BY <1>7, HeadIsBy DEF RowPersisted
  <2> QED BY <1>7, <1>c, <2>1 DEF RowPersisted, pool, Carried, HeldBy
<1>8. ASSUME NEW w \in Workers, TakeNothing(w) PROVE Carried(j)'
  <2>1. \A i : Lined(queue, i) <=> Lined(queue', i) \/ Head(queue) = i
    BY <1>8, <1>t, LinedTail DEF TakeNothing, NextId
  <2> QED BY <1>8, <1>c, <2>1 DEF TakeNothing, NextId, pool, Carried, HeldBy
<1>9. ASSUME NEW w \in Workers, TakeResumed(w) PROVE Carried(j)'
  <2>1. Head(queue) \in Jobs /\ \A i : Lined(queue, i) <=> Lined(queue', i) \/ Head(queue) = i
    BY <1>9, <1>t, LinedTail DEF TakeResumed, NextId
  <2>2. /\ mode = "up" /\ wpc[w] = "idle" /\ status[Head(queue)] = "running"
        /\ wpc' = [wpc EXCEPT ![w] = "running"] /\ wjob' = [wjob EXCEPT ![w] = Head(queue)]
        /\ UNCHANGED <<status, dbq>>
    BY <1>9 DEF TakeResumed, NextId, Holds
  <2>3. \A pcs \in {{"dispatching"}, {"starting", "running"}} :
          HeldBy(j, pcs) => HeldBy(j, pcs)'
    BY <1>t, <2>2 DEF HeldBy
  <2>4. j = Head(queue) => HeldBy(j, {"starting", "running"})'
    BY <1>t, <2>2 DEF HeldBy
  <2> QED BY <1>c, <2>1, <2>2, <2>3, <2>4 DEF Carried
<1>10. ASSUME NEW w \in Workers, TakeQueued(w) PROVE Carried(j)'
  <2>1. Head(queue) \in Jobs /\ \A i : Lined(queue, i) <=> Lined(queue', i) \/ Head(queue) = i
    BY <1>10, <1>t, LinedTail DEF TakeQueued, NextId
  <2>2. /\ mode = "up" /\ wpc[w] = "idle"
        /\ status' = [status EXCEPT ![Head(queue)] = "dispatched"]
        /\ dbq' = Append(dbq, Write(Head(queue), "dispatched", w))
        /\ wpc' = [wpc EXCEPT ![w] = "dispatching"] /\ wjob' = [wjob EXCEPT ![w] = Head(queue)]
    BY <1>10 DEF TakeQueued, NextId, Holds
  <2>3. \A by : Waits(dbq, j, by) => Waits(dbq', j, by)
    BY <1>t, <2>2, WaitsAppend
  <2>4. \A pcs \in {{"dispatching"}, {"starting", "running"}} :
          HeldBy(j, pcs) => HeldBy(j, pcs)'
    BY <1>t, <2>2 DEF HeldBy
  <2>5. CASE j = Head(queue)
    <3>1. HeldBy(j, {"dispatching"})' /\ status'[j] = "dispatched"
      BY <1>t, <2>2, <2>5 DEF HeldBy
    <3> QED BY <3>1 DEF Carried
  <2>6. CASE j # Head(queue)
    BY <1>c, <1>t, <2>1, <2>2, <2>3, <2>4, <2>6 DEF Carried
  <2> QED BY <2>5, <2>6
<1>11. ASSUME NEW w \in Workers, TakeInvalid(w) PROVE Carried(j)'
  <2>1. \A i : Lined(queue, i) <=> Lined(queue', i) \/ Head(queue) = i
    BY <1>11, <1>t, LinedTail DEF TakeInvalid, NextId
  <2>2. /\ mode = "up" /\ wpc[w] = "idle" /\ UNCHANGED <<status, dbq>>
        /\ wpc' = [wpc EXCEPT ![w] = "dead"] /\ wjob' = [wjob EXCEPT ![w] = NoJob]
        /\ status[Head(queue)] \notin {"queued", "running"}
    BY <1>11 DEF TakeInvalid, NextId, Dies, Holds, CanGo, ValidTransitions, Status, Open
  <2>3. \A pcs \in {{"dispatching"}, {"starting", "running"}} :
          HeldBy(j, pcs) => HeldBy(j, pcs)'
    BY <1>t, <2>2 DEF HeldBy
  <2> QED BY <1>c, <2>1, <2>2, <2>3 DEF Carried
<1>12. ASSUME NEW w \in Workers, DispatchPersisted(w) PROVE Carried(j)'
  <2>1. /\ mode = "up" /\ wpc[w] = "dispatching" /\ queue' = queue /\ wjob[w] \in Jobs
        /\ Tail(dbq) \in Seq(Entry)
    BY <1>12, <1>t, HeadStoredType DEF DispatchPersisted, Woken, AtWork
  <2>2. \A i \in Jobs, by \in {"submit", "resume"} : Waits(dbq, i, by) => Waits(Tail(dbq), i, by)
    BY <1>12, <1>w, HeadIsBy DEF DispatchPersisted
  <2>3. CASE CanGo(status[wjob[w]], "running")
    <3>1. /\ status' = [status EXCEPT ![wjob[w]] = "running"]
          /\ dbq' = Append(Tail(dbq), Write(wjob[w], "running", w))
          /\ wpc' = [wpc EXCEPT ![w] = "starting"] /\ wjob' = [wjob EXCEPT ![w] = wjob[w]]
      BY <1>12, <2>3 DEF DispatchPersisted, Holds
    <3>2. \A by \in {"submit", "resume"} : Waits(dbq, j, by) => Waits(dbq', j, by)
      <4>1. \A by : Waits(Tail(dbq), j, by) => Waits(dbq', j, by)
        BY <2>1, <3>1, WaitsAppend
      <4> QED BY <2>2, <4>1
    <3>3. CASE j = wjob[w]
      <4>1. HeldBy(j, {"starting", "running"})' /\ status'[j] = "running"
        BY <1>t, <3>1, <3>3 DEF HeldBy
      <4> QED BY <4>1 DEF Carried
    <3>4. CASE j # wjob[w]
      <4>1. \A pcs \in {{"dispatching"}, {"starting", "running"}} :
              HeldBy(j, pcs) => HeldBy(j, pcs)'
        BY <1>t, <3>1, <3>4 DEF HeldBy
      <4> QED BY <1>c, <1>t, <2>1, <3>1, <3>2, <3>4, <4>1 DEF Carried
    <3> QED BY <3>3, <3>4
  <2>4. CASE ~CanGo(status[wjob[w]], "running")
    <3>1. Raised(w, Tail(dbq)) /\ status[wjob[w]] # "dispatched"
      BY <1>12, <2>4 DEF DispatchPersisted, CanGo, ValidTransitions, Status, Open
    <3> QED BY <1>c, <2>1, <2>2, <3>1, RaisedCarries
  <2> QED BY <2>3, <2>4
<1>13. ASSUME NEW w \in Workers, StartPersisted(w) PROVE Carried(j)'
  <2>1. \A by \in {"submit", "resume"} : Waits(dbq, j, by) => Waits(dbq', j, by)
    BY <1>13, <1>w, HeadIsBy DEF StartPersisted
  <2>2. /\ mode = "up" /\ wpc[w] = "starting" /\ UNCHANGED <<status, queue>>
        /\ wpc' = [wpc EXCEPT ![w] = "running"] /\ wjob' = [wjob EXCEPT ![w] = wjob[w]]
    BY <1>13 DEF StartPersisted, Holds
  <2>3. \A pcs \in {{"dispatching"}, {"starting", "running"}} :
          HeldBy(j, pcs) => HeldBy(j, pcs)'
    BY <1>t, <2>2 DEF HeldBy
  <2> QED BY <1>c, <2>1, <2>2, <2>3 DEF Carried
<1>14. ASSUME NEW w \in Workers, Returns(w) PROVE Carried(j)'
  <2>1. mode = "up" /\ wpc[w] = "running" /\ queue' = queue /\ wjob[w] \in Jobs
    BY <1>14, <1>t DEF Returns, AtWork
  <2>2. CASE CanGo(status[wjob[w]], "completed")
    <3>1. /\ status' = [status EXCEPT ![wjob[w]] = "completed"]
          /\ dbq' = Append(dbq, Write(wjob[w], "completed", w))
          /\ wpc' = [wpc EXCEPT ![w] = "finishing"] /\ wjob' = [wjob EXCEPT ![w] = wjob[w]]
      BY <1>14, <2>2 DEF Returns, Conclude, Holds
    <3>2. \A by : Waits(dbq, j, by) => Waits(dbq', j, by)
      BY <1>t, <3>1, WaitsAppend
    <3>3. CASE j = wjob[w]
      BY <1>t, <3>1, <3>3 DEF Carried
    <3>4. CASE j # wjob[w]
      <4>1. \A pcs \in {{"dispatching"}, {"starting", "running"}} :
              HeldBy(j, pcs) => HeldBy(j, pcs)'
        BY <1>t, <3>1, <3>4 DEF HeldBy
      <4> QED BY <1>c, <1>t, <2>1, <3>1, <3>2, <3>4, <4>1 DEF Carried
    <3> QED BY <3>3, <3>4
  <2>3. CASE ~CanGo(status[wjob[w]], "completed")
    BY <1>14, <1>c, <1>t, <2>1, <2>3, RaisedCarries DEF Returns
  <2> QED BY <2>2, <2>3
<1>15. ASSUME NEW w \in Workers, Raises(w) PROVE Carried(j)'
  BY <1>15, <1>c, <1>t, RaisedCarries DEF Raises, AtWork
<1>16. ASSUME NEW w \in Workers, FinishPersisted(w) PROVE Carried(j)'
  <2>1. \A by \in {"submit", "resume"} : Waits(dbq, j, by) => Waits(dbq', j, by)
    BY <1>16, <1>w, HeadIsBy DEF FinishPersisted
  <2>2. /\ mode = "up" /\ wpc[w] = "finishing" /\ queue' = queue
        /\ status'[j] \in {status[j], "none"}
        /\ wpc' = [wpc EXCEPT ![w] = "idle"] /\ wjob' = [wjob EXCEPT ![w] = NoJob]
    BY <1>16 DEF FinishPersisted, Holds
  <2>3. \A pcs \in {{"dispatching"}, {"starting", "running"}} :
          HeldBy(j, pcs) => HeldBy(j, pcs)'
    BY <1>t, <2>2 DEF HeldBy
  <2> QED BY <1>c, <2>1, <2>2, <2>3 DEF Carried
<1>17. ASSUME NEW w \in Workers, Interrupt(w) \/ InterruptPersisted(w) PROVE Carried(j)'
  BY <1>17 DEF Interrupt, InterruptPersisted
<1>18. CASE Start
  <2>0. PICK F \in SUBSET Loaded, lost \in SUBSET Loaded : FromRows(F, lost)
    BY <1>18, StartReads
  <2> DEFINE S == {k \in F : Recovered(db[k]) = "queued"}
  <2>1. S \in SUBSET Jobs
    BY DEF Loaded, Rows
  <2>2. PICK q \in NewestFirst(S) : queue' = q
    BY <2>0 DEF FromRows
  <2>3. \A k \in S : Lined(queue', k)
    <3> HIDE DEF S
    <3> QED BY <2>1, <2>2, QueueHoldsAll
  <2>4. status'[j] = IF j \in F THEN Recovered(db[j]) ELSE "none"
    BY <2>0 DEF FromRows
  <2>5. status'[j] \notin {"pending", "dispatched", "running"}
    BY <2>4 DEF Recovered
  <2>6. status'[j] = "queued" => j \in S
    BY <2>4
  <2> QED BY <2>3, <2>5, <2>6 DEF Carried
<1>19. CASE Stop \/ Exit \/ Crash
  BY <1>19 DEF Stop, Exit, Crash, Gone
<1>20. CASE UNCHANGED vars
  BY <1>20, <1>c DEF vars, Carried, HeldBy
<1> QED
  BY <1>1, <1>2, <1>3, <1>4, <1>5, <1>6, <1>7, <1>8, <1>9, <1>10, <1>11, <1>12, <1>13,
     <1>14, <1>15, <1>16, <1>17, <1>18, <1>19, <1>20
     DEF Next, Client, Caller, Worker, Process

\* No job is stranded: whatever is open and not paused is waited for by its
\* caller, queued, or with a worker, in every reachable state.
THEOREM NothingIsStranded == Spec => []NoStrandedJob
<1>1. Init => NoStrandedJob
  BY DEF Init, NoStrandedJob
<1>2. TypeOK /\ NoStrandedJob /\ [Next]_vars => NoStrandedJob'
  BY StrandedNext
<1> QED BY <1>1, <1>2, TypeCorrect, PTL DEF Spec

-----------------------------------------------------------------------------
(* The row a job is heading for. *)

\* Some index is the last of a set of indices.
LEMMA LastExists ==
    ASSUME NEW n \in Nat, NEW M \in SUBSET (1..n), M # {}
    PROVE  \E i \in M : \A k \in M : k <= i
<1> DEFINE T == {x \in Nat : x <= n /\ n - x \in M}
<1>1. T \subseteq Nat /\ T # {}
  <2>1. PICK i \in M : TRUE
    OBVIOUS
  <2>2. n - i \in Nat /\ n - i <= n /\ n - (n - i) = i
    OBVIOUS
  <2> QED BY <2>1, <2>2
<1> HIDE DEF T
<1>2. PICK x \in T : \A y \in T : <<y, x>> \notin OpToRel(<, Nat)
  BY <1>1, NatLessThanWellFounded, WFMin
<1>3. \A y \in T : ~ (y < x)
  BY <1>1, <1>2 DEF OpToRel
<1>4. n - x \in M
  BY DEF T
<1>5. ASSUME NEW k \in M PROVE k <= n - x
  <2>1. n - k \in Nat /\ n - k <= n /\ n - (n - k) = k
    OBVIOUS
  <2>2. n - k \in T
    BY <2>1 DEF T
  <2> QED BY <1>1, <1>3, <2>1, <2>2
<1> QED BY <1>4, <1>5

\* Heading, for any writes in flight and disk.
HeadingOf(q, d, j) ==
    LET mine == {i \in DOMAIN q : q[i].job = j}
    IN IF mine = {} THEN d[j] ELSE q[CHOOSE i \in mine : \A k \in mine : k <= i].row

LEMMA HeadingMeans == \A j : Heading(j) = HeadingOf(dbq, db, j)
BY DEF Heading, HeadingOf

\* It is the row of the last write of the job, if there is one.
LEMMA HeadingIs ==
    ASSUME NEW q \in Seq(Entry), NEW d, NEW j
    PROVE  /\ (\A i \in DOMAIN q : q[i].job # j) => HeadingOf(q, d, j) = d[j]
           /\ \A i \in DOMAIN q :
                q[i].job = j /\ (\A k \in DOMAIN q : q[k].job = j => k <= i)
                  => HeadingOf(q, d, j) = q[i].row
           /\ (\A i \in DOMAIN q : q[i].job # j)
              \/ \E i \in DOMAIN q : q[i].job = j /\ \A k \in DOMAIN q : q[k].job = j => k <= i
<1> DEFINE n == Len(q)
           mine == {i \in 1..n : q[i].job = j}
<1>1. n \in Nat /\ DOMAIN q = 1..n
  OBVIOUS
<1>2. HeadingOf(q, d, j) = IF mine = {} THEN d[j]
                           ELSE q[CHOOSE i \in mine : \A k \in mine : k <= i].row
  BY <1>1 DEF HeadingOf
<1>3. mine # {} => \E i \in mine : \A k \in mine : k <= i
  <2>1. mine \in SUBSET (1..n)
    OBVIOUS
  <2> HIDE DEF mine, n
  <2> QED BY <1>1, <2>1, LastExists
<1>4. \A i \in mine : (\A k \in mine : k <= i) => HeadingOf(q, d, j) = q[i].row
  <2> SUFFICES ASSUME NEW i \in mine, \A k \in mine : k <= i PROVE HeadingOf(q, d, j) = q[i].row
    OBVIOUS
  <2> DEFINE c == CHOOSE i_1 \in mine : \A k \in mine : k <= i_1
  <2>1. c \in mine /\ \A k \in mine : k <= c
    OBVIOUS
  <2>2. mine \in SUBSET (1..n)
    OBVIOUS
  <2>3. HeadingOf(q, d, j) = q[c].row
    BY <1>2
  <2> HIDE DEF c, mine, n
  <2>4. c <= i /\ i <= c /\ c \in Nat /\ i \in Nat
    BY <1>1, <2>1, <2>2
  <2>5. c = i
    BY <2>4
  <2> QED BY <2>3, <2>5
<1> QED BY <1>1, <1>2, <1>3, <1>4

LEMMA HeadingEmpty == \A d, j : HeadingOf(<<>>, d, j) = d[j]
<1>1. DOMAIN <<>> = {} /\ <<>> \in Seq(Entry)
  OBVIOUS
<1> QED BY <1>1 DEF HeadingOf

LEMMA HeadingLast ==
    ASSUME NEW q \in Seq(Entry), NEW d, NEW j, NEW i \in DOMAIN q, q[i].job = j,
           \A k \in DOMAIN q : q[k].job = j => k <= i
    PROVE  HeadingOf(q, d, j) = q[i].row
BY HeadingIs

LEMMA HeadingAppend ==
    ASSUME NEW q \in Seq(Entry), NEW d, NEW k \in Jobs, NEW row \in Status, NEW by \in Awaiters
    PROVE  \A j : HeadingOf(Append(q, Write(k, row, by)), d, j)
                    = IF j = k THEN row ELSE HeadingOf(q, d, j)
<1> SUFFICES ASSUME NEW j
             PROVE  HeadingOf(Append(q, Write(k, row, by)), d, j)
                      = IF j = k THEN row ELSE HeadingOf(q, d, j)
  OBVIOUS
<1> DEFINE r == Append(q, Write(k, row, by))
           n == Len(q)
<1>1. /\ n \in Nat /\ DOMAIN q = 1..n /\ DOMAIN r = 1..(n + 1)
      /\ \A i \in 1..n : r[i] = q[i]
      /\ r[n + 1].job = k /\ r[n + 1].row = row
  BY DEF Write
<1>2. r \in Seq(Entry)
  BY WritesType
<1> HIDE DEF r, n
<1>3. /\ \A i \in 1..(n + 1) : i <= n + 1 /\ (i \in 1..n \/ i = n + 1)
      /\ n + 1 \in 1..(n + 1)
      /\ \A i \in 1..n : i \in 1..(n + 1)
  BY <1>1
<1>4. CASE j = k
  <2>1. HeadingOf(r, d, j) = row
    BY <1>1, <1>2, <1>3, <1>4, HeadingIs
  <2> QED BY <1>4, <2>1 DEF r
<1>5. CASE j # k
  <2>1. CASE \A i \in DOMAIN q : q[i].job # j
    <3>1. \A i \in DOMAIN r : r[i].job # j
      BY <1>1, <1>3, <1>5, <2>1
    <3>2. HeadingOf(q, d, j) = d[j] /\ HeadingOf(r, d, j) = d[j]
      BY <1>2, <2>1, <3>1, HeadingIs
    <3> QED BY <1>5, <3>2 DEF r
  <2>2. ASSUME NEW i \in DOMAIN q, q[i].job = j, \A m \in DOMAIN q : q[m].job = j => m <= i
        PROVE  HeadingOf(r, d, j) = HeadingOf(q, d, j)
    <3>1. HeadingOf(q, d, j) = q[i].row
      BY <2>2, HeadingIs
    <3>2. i \in DOMAIN r /\ r[i] = q[i] /\ r[i].job = j
      BY <1>1, <1>3, <2>2
    <3>3. \A m \in DOMAIN r : r[m].job = j => m <= i
      BY <1>1, <1>3, <1>5, <2>2
    <3>4. HeadingOf(r, d, j) = r[i].row
      BY <1>2, <3>2, <3>3, HeadingLast
    <3> QED BY <3>1, <3>2, <3>4
  <2> QED BY <1>5, <2>1, <2>2, HeadingIs DEF r
<1> QED BY <1>4, <1>5

\* The oldest write done: stored, it changes no heading; lost, it changes only
\* that of a job it was the only write of, back to what the disk has.
LEMMA HeadingTail ==
    ASSUME NEW q \in Seq(Entry), q # <<>>, NEW d \in [Jobs -> Known]
    PROVE  /\ \A j \in Jobs : HeadingOf(Tail(q), [d EXCEPT ![Head(q).job] = Head(q).row], j)
                                = HeadingOf(q, d, j)
           /\ \A j \in Jobs : HeadingOf(Tail(q), d, j) \in {HeadingOf(q, d, j), d[j]}
<1> DEFINE t == Tail(q)
           n == Len(q)
           h == q[1]
           e == [d EXCEPT ![h.job] = h.row]
<1>1. /\ n \in Nat \ {0} /\ DOMAIN q = 1..n /\ DOMAIN t = 1..(n - 1)
      /\ \A i \in 1..(n - 1) : t[i] = q[i + 1]
      /\ Head(q) = h
  OBVIOUS
<1>2. t \in Seq(Entry) /\ h \in Entry
  BY WritesType
<1>3. \A j \in Jobs : e[j] = IF j = h.job THEN h.row ELSE d[j]
  OBVIOUS
<1> SUFFICES ASSUME NEW j \in Jobs
             PROVE  /\ HeadingOf(t, e, j) = HeadingOf(q, d, j)
                    /\ HeadingOf(t, d, j) \in {HeadingOf(q, d, j), d[j]}
  BY <1>1
<1> HIDE DEF t, n, e
<1>4. /\ \A i \in 1..n : i = 1 \/ (i - 1 \in 1..(n - 1) /\ t[i - 1] = q[i])
      /\ \A i \in 1..(n - 1) : i + 1 \in 1..n /\ i + 1 # 1
      /\ 1 \in 1..n
  BY <1>1
<1>5. CASE \A i \in DOMAIN t : t[i].job # j
  <2>1. HeadingOf(t, e, j) = e[j] /\ HeadingOf(t, d, j) = d[j]
    BY <1>2, <1>5, HeadingIs
  <2>2. \A i \in DOMAIN q : q[i].job = j => i = 1
    BY <1>1, <1>4, <1>5
  <2>3. CASE j = h.job
    <3>1. HeadingOf(q, d, j) = h.row
      <4>1. 1 \in DOMAIN q /\ q[1].job = j /\ \A k \in DOMAIN q : q[k].job = j => k <= 1
        BY <1>1, <1>4, <2>2, <2>3
      <4> QED BY <4>1, HeadingIs
    <3> QED BY <1>3, <2>1, <2>3, <3>1
  <2>4. CASE j # h.job
    <3>1. \A i \in DOMAIN q : q[i].job # j
      BY <2>2, <2>4
    <3>2. HeadingOf(q, d, j) = d[j]
      BY <3>1, HeadingIs
    <3> QED BY <1>3, <2>1, <2>4, <3>2
  <2> QED BY <2>3, <2>4
<1>6. ASSUME NEW i \in DOMAIN t, t[i].job = j, \A m \in DOMAIN t : t[m].job = j => m <= i
      PROVE  /\ HeadingOf(t, e, j) = HeadingOf(q, d, j)
             /\ HeadingOf(t, d, j) = HeadingOf(q, d, j)
  <2>1. HeadingOf(t, e, j) = t[i].row /\ HeadingOf(t, d, j) = t[i].row
    BY <1>2, <1>6, HeadingIs
  <2>2. i + 1 \in DOMAIN q /\ q[i + 1] = t[i]
    BY <1>1, <1>4
  <2>3. ASSUME NEW m \in DOMAIN q, q[m].job = j PROVE m <= i + 1
    <3>1. i \in 1..(n - 1) /\ m \in 1..n
      BY <1>1
    <3>2. CASE m = 1
      BY <1>1, <3>1, <3>2
    <3>3. CASE m - 1 \in 1..(n - 1) /\ t[m - 1] = q[m]
      <4>1. m - 1 <= i
        BY <1>1, <1>6, <2>3, <3>3
      <4> QED BY <1>1, <3>1, <4>1
    <3> QED BY <1>4, <3>1, <3>2, <3>3
  <2>4. HeadingOf(q, d, j) = q[i + 1].row
    BY <1>6, <2>2, <2>3, HeadingIs
  <2> QED BY <2>1, <2>2, <2>4
<1> QED BY <1>2, <1>5, <1>6, HeadingIs

-----------------------------------------------------------------------------
(* The disk follows the memory. *)

\* The disk is, or will be, what the memory says; "queued" is not written.
OnTrack(j) ==
    status[j] # "none" => \/ HeadingOf(dbq, db, j) = status[j]
                          \/ HeadingOf(dbq, db, j) = "pending" /\ status[j] = "queued"

Tracked == mode = "up" /\ losses = 0 => \A j \in Jobs : OnTrack(j)

LEMMA TrackedFollows ==
    ASSUME TypeOK, Tracked
    PROVE  DiskFollowsMemory
<1>1. dbq \in Seq(Entry)
  BY DEF TypeOK, Entry
<1> QED BY <1>1, HeadingIs DEF Tracked, OnTrack, DiskFollowsMemory, InMemory

\* q and e stand for the writes in flight and the disk, and no heading differs.
SameHeading(q, e) ==
    q \in Seq(Entry) /\ \A j \in Jobs : HeadingOf(q, e, j) = HeadingOf(dbq, db, j)

LEMMA StoredHeading ==
    ASSUME TypeOK, dbq # <<>>, HeadStored, losses' = 0
    PROVE  losses = 0 /\ SameHeading(Tail(dbq), db')
<1>1. dbq \in Seq(Entry) /\ db \in [Jobs -> Known] /\ losses \in Nat
  BY DEF TypeOK, Entry
<1>2. losses = 0 /\ db' = [db EXCEPT ![Head(dbq).job] = Head(dbq).row]
  BY <1>1 DEF HeadStored
<1>3. Tail(dbq) \in Seq(Entry)
  BY <1>1, WritesType
<1> QED BY <1>1, <1>2, <1>3, HeadingTail DEF SameHeading

\* A new status and its write.
LEMMA WriteTracks ==
    ASSUME TypeOK, NEW q, SameHeading(q, db'), \A j \in Jobs : OnTrack(j),
           NEW k \in Jobs, NEW s \in Status, NEW by \in Awaiters,
           status' = [status EXCEPT ![k] = s], dbq' = Append(q, Write(k, s, by))
    PROVE  \A j \in Jobs : OnTrack(j)'
<1>1. status \in [Jobs -> Known]
  BY DEF TypeOK
<1>2. \A j : HeadingOf(dbq', db', j) = IF j = k THEN s ELSE HeadingOf(q, db', j)
  BY HeadingAppend DEF SameHeading
<1> QED BY <1>1, <1>2 DEF SameHeading, OnTrack

\* No write, and nothing but evictions.
LEMMA QuietTracks ==
    ASSUME TypeOK, SameHeading(dbq', db'), \A j \in Jobs : OnTrack(j),
           \A j \in Jobs : status'[j] \in {status[j], "none"}
    PROVE  \A j \in Jobs : OnTrack(j)'
BY DEF SameHeading, OnTrack

LEMMA RaisedTracks ==
    ASSUME TypeOK, NEW q, SameHeading(q, db'), \A j \in Jobs : OnTrack(j),
           NEW w \in Workers, wjob[w] \in Jobs, Raised(w, q)
    PROVE  \A j \in Jobs : OnTrack(j)'
<1>1. CASE CanGo(status[wjob[w]], "failed")
  <2>1. /\ status' = [status EXCEPT ![wjob[w]] = "failed"]
        /\ dbq' = Append(q, Write(wjob[w], "failed", w))
    BY <1>1 DEF Raised, Conclude
  <2>2. "failed" \in Status /\ w \in Awaiters
    BY DEF Status, Terminal, Awaiters
  <2> QED BY <2>1, <2>2, WriteTracks
<1>2. CASE ~CanGo(status[wjob[w]], "failed")
  <2>1. dbq' = q /\ status' = status
    BY <1>2 DEF Raised
  <2> QED BY <2>1, QuietTracks
<1> QED BY <1>1, <1>2

LEMMA TrackedNext == IInv /\ Tracked /\ [Next]_vars => Tracked'
<1> SUFFICES ASSUME IInv, Tracked, [Next]_vars, mode' = "up", losses' = 0
             PROVE  \A j \in Jobs : OnTrack(j)'
  BY DEF Tracked
<1>t. /\ TypeOK /\ status \in [Jobs -> Known] /\ queue \in Seq(Jobs) /\ losses \in Nat
      /\ dbq \in Seq(Entry) /\ db \in [Jobs -> Known]
      /\ \A w \in Workers : wpc[w] \in AtWork => wjob[w] \in Jobs
  BY DEF IInv, TypeOK, Entry
<1>s. /\ Status \subseteq Known /\ Workers \subseteq Awaiters
      /\ {"submit", "resume", "other"} \subseteq Awaiters
      /\ Open \subseteq Status /\ Terminal \subseteq Status
  BY DEF Status, Known, Awaiters
<1>c. mode = "up" /\ losses = 0 => \A j \in Jobs : OnTrack(j)
  BY DEF Tracked
<1>n. db' = db => SameHeading(dbq, db')
  BY <1>t DEF SameHeading
<1>1. ASSUME NEW k \in Jobs, Submit(k) PROVE \A j \in Jobs : OnTrack(j)'
  BY <1>1, <1>t, <1>s, <1>c, <1>n, WriteTracks DEF Submit, bounds, Open
<1>2. ASSUME NEW k \in Jobs, Cancel(k) PROVE \A j \in Jobs : OnTrack(j)'
  BY <1>2, <1>t, <1>s, <1>c, <1>n, WriteTracks DEF Cancel, Conclude, bounds, Terminal
<1>3. ASSUME NEW k \in Jobs, Deny(k) PROVE \A j \in Jobs : OnTrack(j)'
  BY <1>3, <1>t, <1>s, <1>c, <1>n, WriteTracks DEF Deny, Conclude, bounds, Terminal
<1>4. ASSUME NEW k \in Jobs, Pause(k) PROVE \A j \in Jobs : OnTrack(j)'
  BY <1>4, <1>t, <1>s, <1>c, <1>n, WriteTracks DEF Pause, Open
<1>5. ASSUME NEW k \in Jobs, Resume(k) PROVE \A j \in Jobs : OnTrack(j)'
  BY <1>5, <1>t, <1>s, <1>c, <1>n, WriteTracks DEF Resume, bounds, Open
<1>6. CASE SubmitPersisted
  <2> DEFINE h == Head(dbq).job
  <2>1. /\ SameHeading(dbq', db') /\ losses = 0 /\ mode = "up"
    BY <1>6, <1>t, StoredHeading DEF SubmitPersisted, Woken
  <2>2. h \in Jobs
    BY <1>6, <1>t, HeadIsBy DEF SubmitPersisted
  <2>3. \/ CanGo(status[h], "queued") /\ status' = [status EXCEPT ![h] = "queued"]
        \/ status' = status
    BY <1>6 DEF SubmitPersisted
  <2> HIDE DEF h
  <2>4. CASE CanGo(status[h], "queued") /\ status' = [status EXCEPT ![h] = "queued"]
    <3>1. status[h] = "pending"
      BY <2>4 DEF CanGo, ValidTransitions, Status, Open, Terminal
    <3> QED BY <1>t, <1>c, <2>1, <2>2, <2>4, <3>1 DEF OnTrack, SameHeading
  <2>5. CASE status' = status
    BY <1>t, <1>c, <2>1, <2>5, QuietTracks
  <2> QED BY <2>3, <2>4, <2>5
<1>7. CASE ResumePersisted
  BY <1>7, <1>t, <1>c, StoredHeading, QuietTracks DEF ResumePersisted, Woken
<1>8. CASE RowPersisted
  BY <1>8, <1>t, <1>c, StoredHeading, QuietTracks DEF RowPersisted, Woken
<1>9. ASSUME NEW w \in Workers, TakeNothing(w) \/ TakeResumed(w) \/ TakeInvalid(w)
      PROVE  \A j \in Jobs : OnTrack(j)'
  BY <1>9, <1>t, <1>c, <1>n, QuietTracks DEF TakeNothing, TakeResumed, TakeInvalid, NextId, bounds
<1>10. ASSUME NEW w \in Workers, TakeQueued(w) PROVE \A j \in Jobs : OnTrack(j)'
  <2>1. Head(queue) \in Jobs
    BY <1>10, <1>t DEF TakeQueued, NextId
  <2> QED BY <1>10, <1>t, <1>s, <1>c, <1>n, <2>1, WriteTracks DEF TakeQueued, NextId, bounds, Open
<1>11. ASSUME NEW w \in Workers, DispatchPersisted(w) PROVE \A j \in Jobs : OnTrack(j)'
  <2>1. SameHeading(Tail(dbq), db') /\ losses = 0 /\ mode = "up" /\ wjob[w] \in Jobs
    BY <1>11, <1>t, StoredHeading DEF DispatchPersisted, Woken, AtWork
  <2>2. CASE CanGo(status[wjob[w]], "running")
    <3>1. /\ status' = [status EXCEPT ![wjob[w]] = "running"]
          /\ dbq' = Append(Tail(dbq), Write(wjob[w], "running", w))
      BY <1>11, <2>2 DEF DispatchPersisted
    <3> QED BY <1>t, <1>s, <1>c, <2>1, <3>1, WriteTracks DEF Open
  <2>3. CASE ~CanGo(status[wjob[w]], "running")
    BY <1>11, <1>t, <1>c, <2>1, <2>3, RaisedTracks DEF DispatchPersisted
  <2> QED BY <2>2, <2>3
<1>12. ASSUME NEW w \in Workers, StartPersisted(w) PROVE \A j \in Jobs : OnTrack(j)'
  BY <1>12, <1>t, <1>c, StoredHeading, QuietTracks DEF StartPersisted, Woken
<1>13. ASSUME NEW w \in Workers, Returns(w) PROVE \A j \in Jobs : OnTrack(j)'
  <2>1. SameHeading(dbq, db') /\ losses = 0 /\ mode = "up" /\ wjob[w] \in Jobs
    BY <1>13, <1>t, <1>n DEF Returns, AtWork, bounds
  <2>2. CASE CanGo(status[wjob[w]], "completed")
    BY <1>13, <1>t, <1>s, <1>c, <2>1, <2>2, WriteTracks DEF Returns, Conclude, Terminal
  <2>3. CASE ~CanGo(status[wjob[w]], "completed")
    BY <1>13, <1>t, <1>c, <2>1, <2>3, RaisedTracks DEF Returns
  <2> QED BY <2>2, <2>3
<1>14. ASSUME NEW w \in Workers, Raises(w) PROVE \A j \in Jobs : OnTrack(j)'
  BY <1>14, <1>t, <1>c, <1>n, RaisedTracks DEF Raises, AtWork, bounds
<1>15. ASSUME NEW w \in Workers, FinishPersisted(w) PROVE \A j \in Jobs : OnTrack(j)'
  BY <1>15, <1>t, <1>c, StoredHeading, QuietTracks DEF FinishPersisted, Woken
<1>16. ASSUME NEW w \in Workers, Interrupt(w) \/ InterruptPersisted(w)
       PROVE  \A j \in Jobs : OnTrack(j)'
  BY <1>16 DEF Interrupt, InterruptPersisted
<1>17. CASE Start
  <2>0. FromRows(Loaded, {})
    <3>1. losses + 1 # 0
      BY <1>t
    <3> QED BY <1>17, <3>1 DEF Start
  <2>1. dbq' = <<>>
    BY <1>17 DEF Start, IInv, OutcomesAgree
  <2>2. \A j \in Jobs : HeadingOf(dbq', db', j) = db'[j]
    BY <2>1, HeadingEmpty
  <2>3. \A j \in Jobs : j \in Loaded =>
          status'[j] = db'[j] \/ (status'[j] = "queued" /\ db'[j] = "pending")
    BY <2>0, <1>t DEF FromRows, Recovered
  <2>4. \A j \in Jobs : j \notin Loaded => status'[j] = "none"
    BY <2>0 DEF FromRows
  <2> QED BY <2>2, <2>3, <2>4 DEF OnTrack
<1>18. CASE Stop \/ Exit \/ Crash
  BY <1>18 DEF Stop, Exit, Crash, Gone
<1>19. CASE UNCHANGED vars
  BY <1>19, <1>t, <1>c, <1>n, QuietTracks DEF vars
<1> QED
  BY <1>1, <1>2, <1>3, <1>4, <1>5, <1>6, <1>7, <1>8, <1>9, <1>10, <1>11, <1>12, <1>13,
     <1>14, <1>15, <1>16, <1>17, <1>18, <1>19
     DEF Next, Client, Caller, Worker, Process

LEMMA AlwaysTracked == Spec => []Tracked
<1>1. Init => Tracked
  BY DEF Init, Tracked
<1>2. IInv /\ Tracked /\ [Next]_vars => Tracked'
  BY TrackedNext
<1> QED BY <1>1, <1>2, Inductive, PTL DEF Spec

\* When no write of a job is in flight, the disk says what the memory says, in
\* every reachable state of a run in which no write failed.
THEOREM DiskAlwaysFollows == Spec => []DiskFollowsMemory
<1>1. IInv /\ Tracked => DiskFollowsMemory
  BY TrackedFollows DEF IInv
<1> QED BY <1>1, AlwaysTracked, Inductive, PTL

-----------------------------------------------------------------------------
(* Nobody else has the job in hand. *)

\* A job that was not submitted yet is neither queued nor with a worker.
Fresh == \A j \in Jobs : created[j] = 0 => ~Lined(queue, j) /\ \A w \in Workers : wjob[w] # j

LEMMA FreshNext == IInv /\ Fresh /\ [Next]_vars => Fresh'
<1> SUFFICES ASSUME IInv, Fresh, [Next]_vars, NEW j \in Jobs, created'[j] = 0
             PROVE  ~Lined(queue', j) /\ \A w \in Workers : wjob'[w] # j
  BY DEF Fresh
<1>t. /\ TypeOK /\ queue \in Seq(Jobs) /\ clock \in Nat
      /\ created \in [Jobs -> Nat] /\ wjob \in [Workers -> Jobs \cup {NoJob}]
      /\ \A w \in Workers : wpc[w] \in AtWork => wjob[w] \in Jobs
      /\ NoJob \notin Jobs
  BY JobsAssumption DEF IInv, TypeOK
<1>c. created[j] = 0
  <2>1. CASE \E k \in Jobs : Submit(k)
    BY <1>t, <2>1 DEF Submit
  <2>2. CASE created' = created
    BY <2>2
  <2>3. (\E k \in Jobs : Submit(k)) \/ created' = created
    BY DEF Next, Client, Caller, Worker, Process, Cancel, Pause, Resume, Deny,
           SubmitPersisted, ResumePersisted, RowPersisted, TakeNothing, TakeResumed,
           TakeQueued, TakeInvalid, DispatchPersisted, StartPersisted, Returns, Raises,
           FinishPersisted, Interrupt, InterruptPersisted, Start, Stop, Exit, Crash, Gone, vars
  <2> QED BY <2>1, <2>2, <2>3
<1>f. ~Lined(queue, j) /\ \A w \in Workers : wjob[w] # j
  BY <1>c DEF Fresh
<1>o. db[j] = "none" /\ \A i \in DOMAIN dbq : dbq[i].job # j
  BY <1>c DEF IInv, OutcomesAgree
<1>h. dbq # <<>> => Head(dbq).job # j
  <2>1. dbq \in Seq(Entry)
    BY DEF IInv, TypeOK, Entry
  <2>2. dbq # <<>> => Head(dbq) = dbq[1] /\ 1 \in DOMAIN dbq
    BY <2>1
  <2> QED BY <1>o, <2>2
<1>q. queue # <<>> => /\ Head(queue) \in Jobs /\ Head(queue) # j
                      /\ \A i : Lined(Tail(queue), i) => Lined(queue, i)
  BY <1>t, <1>f, LinedTail
<1>1. CASE Client
  BY <1>1, <1>f DEF Client, Submit, Cancel, Pause, Resume, Deny, pool
<1>2. CASE SubmitPersisted \/ ResumePersisted
  <2> DEFINE h == Head(dbq).job
  <2>1. h \in Jobs /\ h # j /\ wjob' = wjob
    BY <1>2, <1>t, <1>h, HeadIsBy DEF SubmitPersisted, ResumePersisted, Woken, pool
  <2>2. queue' = queue \/ queue' = Append(queue, h)
    BY <1>2 DEF SubmitPersisted, ResumePersisted
  <2> HIDE DEF h
  <2> QED BY <1>t, <1>f, <2>1, <2>2, LinedAppend
<1>3. CASE RowPersisted
  BY <1>3, <1>f DEF RowPersisted, pool
<1>4. ASSUME NEW w \in Workers,
             TakeNothing(w) \/ TakeResumed(w) \/ TakeQueued(w) \/ TakeInvalid(w)
      PROVE  ~Lined(queue', j) /\ \A v \in Workers : wjob'[v] # j
  <2>1. queue # <<>> /\ queue' = Tail(queue)
    BY <1>4 DEF TakeNothing, TakeResumed, TakeQueued, TakeInvalid, NextId
  <2>2. wjob' = wjob \/ \E k \in {Head(queue), NoJob} : wjob' = [wjob EXCEPT ![w] = k]
    BY <1>4 DEF TakeNothing, TakeResumed, TakeQueued, TakeInvalid, Dies, Holds, pool
  <2> QED BY <1>t, <1>f, <1>q, <2>1, <2>2
<1>5. ASSUME NEW w \in Workers,
             \/ DispatchPersisted(w) \/ StartPersisted(w) \/ Returns(w) \/ Raises(w)
             \/ FinishPersisted(w) \/ Interrupt(w) \/ InterruptPersisted(w)
      PROVE  ~Lined(queue', j) /\ \A v \in Workers : wjob'[v] # j
  <2>1. queue' = queue /\ \E k \in {wjob[w], NoJob} : wjob' = [wjob EXCEPT ![w] = k]
    BY <1>5 DEF DispatchPersisted, StartPersisted, Returns, Raises, FinishPersisted, Interrupt,
                InterruptPersisted, Raised, Dies, Holds
  <2> QED BY <1>t, <1>f, <2>1
<1>6. CASE Start
  <2>0. PICK F \in SUBSET Loaded, lost \in SUBSET Loaded : FromRows(F, lost)
    BY <1>6, StartReads
  <2> DEFINE S == {k \in F : Recovered(db[k]) = "queued"}
  <2>1. S \in SUBSET Jobs /\ j \notin S
    BY <1>o DEF Loaded, Rows
  <2>2. PICK q \in NewestFirst(S) : queue' = q
    BY <2>0 DEF FromRows
  <2>3. \A i \in DOMAIN queue' : queue'[i] \in S
    <3> HIDE DEF S
    <3> QED BY <1>t, <2>1, <2>2, QueueHoldsAll
  <2> QED BY <1>6, <1>f, <2>1, <2>3 DEF Start, Lined
<1>7. CASE Stop \/ UNCHANGED vars
  BY <1>7, <1>f DEF Stop, vars, pool
<1>8. CASE Exit \/ Crash
  <2>1. queue' = <<>> /\ wjob' = [w \in Workers |-> NoJob]
    BY <1>8 DEF Exit, Crash, Gone
  <2> QED BY <1>t, <2>1 DEF Lined
<1> QED BY <1>1, <1>2, <1>3, <1>4, <1>5, <1>6, <1>7, <1>8 DEF Next, Caller, Worker, Process

\* The writes in flight when nothing was paused: no job waits for approval or is
\* being resumed, and submit() awaits at most one write of a job.
Plain(q) ==
    /\ \A i \in DOMAIN q : q[i].row # "waiting_approval" /\ q[i].by # "resume"
    /\ \A i, k \in DOMAIN q :
          q[i].by = "submit" /\ q[k].by = "submit" /\ q[i].job = q[k].job => i = k

LEMMA PlainAppend ==
    ASSUME NEW q \in Seq(Entry), Plain(q), NEW k, NEW row, NEW by,
           row # "waiting_approval", by # "resume", by = "submit" => ~Waits(q, k, "submit")
    PROVE  Plain(Append(q, Write(k, row, by)))
<1> DEFINE r == Append(q, Write(k, row, by))
           n == Len(q)
<1>1. /\ n \in Nat /\ DOMAIN q = 1..n /\ DOMAIN r = 1..(n + 1)
      /\ \A i \in 1..n : r[i] = q[i]
      /\ r[n + 1].job = k /\ r[n + 1].by = by /\ r[n + 1].row = row
  BY DEF Write
<1> HIDE DEF r, n
<1>2. \A i \in 1..(n + 1) : i \in 1..n \/ i = n + 1
  BY <1>1
<1>3. Plain(r)
  BY <1>1, <1>2 DEF Plain, Waits
<1> QED BY <1>3 DEF r

LEMMA PlainTail ==
    ASSUME NEW q \in Seq(Entry), q # <<>>, Plain(q)
    PROVE  /\ Plain(Tail(q)) /\ Head(q).row # "waiting_approval" /\ Head(q).by # "resume"
           /\ \A j, by : Waits(Tail(q), j, by) => Waits(q, j, by)
           /\ Head(q).by = "submit" => /\ Waits(q, Head(q).job, "submit")
                                       /\ ~Waits(Tail(q), Head(q).job, "submit")
<1> DEFINE t == Tail(q)
           n == Len(q)
<1>1. /\ n \in Nat \ {0} /\ DOMAIN q = 1..n /\ DOMAIN t = 1..(n - 1)
      /\ \A i \in 1..(n - 1) : t[i] = q[i + 1]
      /\ Head(q) = q[1]
  OBVIOUS
<1> HIDE DEF t, n
<1>2. /\ 1 \in 1..n
      /\ \A i \in 1..(n - 1) : i \in Int /\ i + 1 \in 1..n /\ i + 1 # 1
  BY <1>1
<1>3. \A i, k \in 1..(n - 1) : i + 1 = k + 1 => i = k
  BY <1>1
<1>4. Plain(t)
  <2>1. \A i \in 1..(n - 1) : t[i].row # "waiting_approval" /\ t[i].by # "resume"
    BY <1>1, <1>2 DEF Plain
  <2>2. ASSUME NEW i \in 1..(n - 1), NEW k \in 1..(n - 1),
               t[i].by = "submit", t[k].by = "submit", t[i].job = t[k].job
        PROVE  i = k
    <3>1. i + 1 \in DOMAIN q /\ k + 1 \in DOMAIN q /\ t[i] = q[i + 1] /\ t[k] = q[k + 1]
      BY <1>1, <1>2
    <3>2. i + 1 = k + 1
      BY <2>2, <3>1 DEF Plain
    <3> QED BY <1>3, <3>2
  <2> QED BY <1>1, <2>1, <2>2 DEF Plain
<1>5. \A j, by : Waits(t, j, by) => Waits(q, j, by)
  BY <1>1, <1>2 DEF Waits
<1>6. q[1].by = "submit" => Waits(q, q[1].job, "submit") /\ ~Waits(t, q[1].job, "submit")
  BY <1>1, <1>2 DEF Plain, Waits
<1>7. q[1].row # "waiting_approval" /\ q[1].by # "resume"
  BY <1>1, <1>2 DEF Plain
<1> QED BY <1>1, <1>4, <1>5, <1>6, <1>7 DEF t

LEMMA PlainOrphaned ==
    ASSUME dbq \in Seq(Entry), Plain(dbq), NEW w \in Workers, NEW rest \in Orphaned(w)
    PROVE  Plain(rest) /\ \A j : Waits(rest, j, "submit") => Waits(dbq, j, "submit")
<1> DEFINE n == Len(dbq)
<1>1. n \in Nat /\ DOMAIN dbq = 1..n
  OBVIOUS
<1>2. CASE rest = [i \in 1..n |-> IF dbq[i].by = w THEN Write(dbq[i].job, dbq[i].row, "other")
                                  ELSE dbq[i]]
  <2>1. /\ DOMAIN rest = 1..n
        /\ \A i \in 1..n : /\ rest[i].job = dbq[i].job /\ rest[i].row = dbq[i].row
                           /\ rest[i].by \in {dbq[i].by, "other"}
    BY <1>2 DEF Write
  <2> HIDE DEF n
  <2> QED BY <1>1, <2>1 DEF Plain, Waits
<1>3. ASSUME NEW k \in 1..n,
             rest = [i \in 1..(n - 1) |-> IF i < k THEN dbq[i] ELSE dbq[i + 1]]
      PROVE  Plain(rest) /\ \A j : Waits(rest, j, "submit") => Waits(dbq, j, "submit")
  <2> DEFINE at(i) == IF i < k THEN i ELSE i + 1
  <2> HIDE DEF n
  <2>1. /\ DOMAIN rest = 1..(n - 1)
        /\ \A i \in 1..(n - 1) : at(i) \in 1..n /\ rest[i] = dbq[at(i)]
        /\ \A i, m \in 1..(n - 1) : at(i) = at(m) => i = m
    BY <1>1, <1>3
  <2> HIDE DEF at
  <2> QED BY <1>1, <2>1 DEF Plain, Waits
<1> QED BY <1>2, <1>3 DEF Orphaned

\* No id is queued twice.
Once(l) == \A i, k \in DOMAIN l : l[i] = l[k] => i = k

LEMMA OnceAppend ==
    ASSUME NEW l \in Seq(Jobs), NEW k \in Jobs, Once(l), ~Lined(l, k)
    PROVE  Once(Append(l, k))
<1> DEFINE r == Append(l, k)
           n == Len(l)
<1>1. /\ n \in Nat /\ DOMAIN l = 1..n /\ DOMAIN r = 1..(n + 1)
      /\ \A i \in 1..n : r[i] = l[i]
      /\ r[n + 1] = k
  OBVIOUS
<1> HIDE DEF r, n
<1>2. \A i \in 1..(n + 1) : i \in 1..n \/ i = n + 1
  BY <1>1
<1>3. Once(r)
  BY <1>1, <1>2 DEF Once, Lined
<1> QED BY <1>3 DEF r

LEMMA OnceTail ==
    ASSUME NEW l \in Seq(Jobs), l # <<>>, Once(l)
    PROVE  Once(Tail(l)) /\ ~Lined(Tail(l), Head(l))
<1> DEFINE t == Tail(l)
           n == Len(l)
<1>1. /\ n \in Nat \ {0} /\ DOMAIN l = 1..n /\ DOMAIN t = 1..(n - 1)
      /\ \A i \in 1..(n - 1) : t[i] = l[i + 1]
      /\ Head(l) = l[1]
  OBVIOUS
<1> HIDE DEF t, n
<1>2. /\ 1 \in 1..n
      /\ \A i \in 1..(n - 1) : i \in Int /\ i + 1 \in 1..n /\ i + 1 # 1
      /\ \A i, k \in 1..(n - 1) : i + 1 = k + 1 => i = k
  BY <1>1
<1>3. Once(t) /\ ~Lined(t, l[1])
  BY <1>1, <1>2 DEF Once, Lined
<1> QED BY <1>1, <1>3 DEF t

\* Where j is, when nothing was paused: with its submit(), in the queue, or with one
\* worker, and in a status that fits.
Alone(j) ==
    /\ status[j] # "waiting_approval" /\ db[j] # "waiting_approval"
    /\ Lined(queue, j) => /\ status[j] \in {"queued", "cancelled", "none"}
                          /\ ~HeldBy(j, Busy)
    /\ Waits(dbq, j, "submit") => /\ status[j] \in {"pending", "cancelled", "none"}
                                  /\ ~HeldBy(j, Busy) /\ ~Lined(queue, j)

OneEach == \A v, w \in Workers : wpc[v] \in Busy /\ wpc[w] \in Busy /\ wjob[v] = wjob[w] => v = w

SoleNow == Plain(dbq) /\ Once(queue) /\ OneEach /\ \A j \in Jobs : Alone(j)

\* The oldest write done.
LEMMA SoleStored ==
    ASSUME TypeOK, SoleNow, dbq # <<>>, HeadStored
    PROVE  /\ Plain(Tail(dbq)) /\ Tail(dbq) \in Seq(Entry) /\ Head(dbq).job \in Jobs
           /\ \A j : Waits(Tail(dbq), j, "submit") => Waits(dbq, j, "submit")
           /\ Head(dbq).by = "submit" => /\ Waits(dbq, Head(dbq).job, "submit")
                                         /\ ~Waits(Tail(dbq), Head(dbq).job, "submit")
           /\ Head(dbq).by # "resume"
           /\ \A j \in Jobs : db'[j] # "waiting_approval"
<1>1. dbq \in Seq(Entry) /\ db \in [Jobs -> Known] /\ Plain(dbq)
  BY DEF TypeOK, Entry, SoleNow
<1>2. Tail(dbq) \in Seq(Entry) /\ Head(dbq) \in Entry
  BY <1>1, WritesType
<1>3. Head(dbq).job \in Jobs /\ Head(dbq).row # "waiting_approval"
  BY <1>1, <1>2, PlainTail DEF Entry
<1>4. \A j \in Jobs : db[j] # "waiting_approval"
  BY DEF SoleNow, Alone
<1>5. db' = [db EXCEPT ![Head(dbq).job] = Head(dbq).row] \/ db' = db
  BY DEF HeadStored
<1>6. \A j \in Jobs : db'[j] # "waiting_approval"
  BY <1>1, <1>3, <1>4, <1>5
<1> QED BY <1>1, <1>2, <1>3, <1>6, PlainTail

\* A worker's step that puts nobody new to work: statuses change to a final one, for
\* a job that is running or with a busy worker, or by eviction.
LEMMA SoleLets ==
    ASSUME TypeOK, SoleNow, queue' = queue, Plain(dbq'),
           \A j : Waits(dbq', j, "submit") => Waits(dbq, j, "submit"),
           \A j \in Jobs : db'[j] # "waiting_approval",
           NEW w \in Workers,
           \A v \in Workers : v # w => wpc'[v] = wpc[v] /\ wjob'[v] = wjob[v],
           wpc'[w] \in Busy => wpc[w] \in Busy /\ wjob'[w] = wjob[w],
           \A j \in Jobs : \/ status'[j] \in {status[j], "none"}
                           \/ /\ status'[j] # "waiting_approval"
                              /\ status[j] = "running" \/ HeldBy(j, Busy)
    PROVE  SoleNow'
<1>1. \A j : HeldBy(j, Busy)' => HeldBy(j, Busy)
  BY DEF HeldBy
<1>2. OneEach'
  BY DEF OneEach, SoleNow
<1>3. ASSUME NEW j \in Jobs PROVE Alone(j)'
  BY <1>1 DEF Alone, SoleNow
<1> QED BY <1>2, <1>3 DEF SoleNow

\* The except branch, for a busy worker.
LEMMA SoleRaised ==
    ASSUME TypeOK, SoleNow, queue' = queue, NEW rest \in Seq(Entry), Plain(rest),
           \A j : Waits(rest, j, "submit") => Waits(dbq, j, "submit"),
           \A j \in Jobs : db'[j] # "waiting_approval",
           NEW w \in Workers, wpc[w] \in Busy, wjob[w] \in Jobs, Raised(w, rest)
    PROVE  SoleNow'
<1>t. /\ status \in [Jobs -> Known] /\ wpc \in [Workers -> WorkerState]
      /\ wjob \in [Workers -> Jobs \cup {NoJob}]
      /\ w \notin {"submit", "resume", "other"}
  BY WorkersAssumption DEF TypeOK
<1>1. CASE CanGo(status[wjob[w]], "failed")
  <2>1. /\ status' = [status EXCEPT ![wjob[w]] = "failed"]
        /\ dbq' = Append(rest, Write(wjob[w], "failed", w))
        /\ wpc' = [wpc EXCEPT ![w] = "finishing"] /\ wjob' = [wjob EXCEPT ![w] = wjob[w]]
    BY <1>1 DEF Raised, Conclude, Holds
  <2>2. Plain(dbq') /\ \A j : Waits(dbq', j, "submit") => Waits(dbq, j, "submit")
    <3>1. Plain(dbq')
      BY <1>t, <2>1, PlainAppend
    <3>2. \A j, who : Waits(dbq', j, who) <=> Waits(rest, j, who) \/ (j = wjob[w] /\ who = w)
      BY <2>1, WaitsAppend
    <3> QED BY <1>t, <3>1, <3>2
  <2>3. wpc'[w] \notin Busy /\ \A v \in Workers : v # w => wpc'[v] = wpc[v] /\ wjob'[v] = wjob[v]
    BY <1>t, <2>1 DEF Busy
  <2>4. HeldBy(wjob[w], Busy)
    BY DEF HeldBy
  <2>5. \A j \in Jobs : status'[j] = status[j] \/ (status'[j] = "failed" /\ HeldBy(j, Busy))
    BY <1>t, <2>1, <2>4
  <2> QED BY <2>2, <2>3, <2>5, SoleLets
<1>2. CASE ~CanGo(status[wjob[w]], "failed")
  <2>1. /\ dbq' = rest /\ status' = status
        /\ wpc' = [wpc EXCEPT ![w] = "dead"] /\ wjob' = [wjob EXCEPT ![w] = NoJob]
    BY <1>2 DEF Raised, Dies, Holds
  <2>2. wpc'[w] \notin Busy /\ \A v \in Workers : v # w => wpc'[v] = wpc[v] /\ wjob'[v] = wjob[v]
    BY <1>t, <2>1 DEF Busy
  <2> QED BY <2>1, <2>2, SoleLets
<1> QED BY <1>1, <1>2

LEMMA SoleNext == IInv /\ Fresh /\ SoleNow /\ [Next]_vars /\ pauses' = 0 => SoleNow'
<1> SUFFICES ASSUME IInv, Fresh, SoleNow, [Next]_vars, pauses' = 0 PROVE SoleNow'
  OBVIOUS
<1>t. /\ TypeOK /\ status \in [Jobs -> Known] /\ wpc \in [Workers -> WorkerState]
      /\ wjob \in [Workers -> Jobs \cup {NoJob}] /\ queue \in Seq(Jobs)
      /\ dbq \in Seq(Entry) /\ db \in [Jobs -> Known] /\ pauses \in Nat
      /\ \A w \in Workers : wpc[w] \in AtWork => wjob[w] \in Jobs
      /\ \A w \in Workers : w \notin {"submit", "resume", "other"}
  BY WorkersAssumption DEF IInv, TypeOK, Entry
<1>c. /\ Plain(dbq) /\ Once(queue) /\ OneEach /\ \A j \in Jobs : Alone(j)
      /\ \A j \in Jobs : status[j] # "waiting_approval" /\ db[j] # "waiting_approval"
  BY DEF SoleNow, Alone
<1>1. ASSUME NEW k \in Jobs, Submit(k) PROVE SoleNow'
  <2>1. ~Waits(dbq, k, "submit") /\ ~Lined(queue, k) /\ ~HeldBy(k, Busy)
    BY <1>1 DEF Submit, IInv, OutcomesAgree, Fresh, Waits, HeldBy
  <2>2. /\ dbq' = Append(dbq, Write(k, "pending", "submit"))
        /\ status' = [status EXCEPT ![k] = "pending"]
        /\ UNCHANGED <<queue, wpc, wjob, db>>
    BY <1>1 DEF Submit, pool
  <2>3. Plain(dbq')
    BY <1>t, <1>c, <2>1, <2>2, PlainAppend
  <2>4. \A j, who : Waits(dbq', j, who) <=> Waits(dbq, j, who) \/ (j = k /\ who = "submit")
    BY <1>t, <2>2, WaitsAppend
  <2>5. ASSUME NEW j \in Jobs PROVE Alone(j)'
    BY <1>t, <1>c, <2>1, <2>2, <2>4 DEF Alone, HeldBy
  <2> QED BY <1>c, <2>2, <2>3, <2>5 DEF SoleNow, OneEach
<1>2. ASSUME NEW k \in Jobs, Cancel(k) PROVE SoleNow'
  <2>2. /\ dbq' = Append(dbq, Write(k, "cancelled", "other"))
        /\ status' = [status EXCEPT ![k] = "cancelled"]
        /\ UNCHANGED <<queue, wpc, wjob, db>>
    BY <1>2 DEF Cancel, Conclude, pool
  <2>3. Plain(dbq')
    BY <1>t, <1>c, <2>2, PlainAppend
  <2>4. \A j, who : Waits(dbq', j, who) <=> Waits(dbq, j, who) \/ (j = k /\ who = "other")
    BY <1>t, <2>2, WaitsAppend
  <2>5. ASSUME NEW j \in Jobs PROVE Alone(j)'
    BY <1>t, <1>c, <2>2, <2>4 DEF Alone, HeldBy
  <2> QED BY <1>c, <2>2, <2>3, <2>5 DEF SoleNow, OneEach
<1>3. ASSUME NEW k \in Jobs, Pause(k) \/ Resume(k) \/ Deny(k) PROVE SoleNow'
  BY <1>3, <1>t, <1>c DEF Pause, Resume, Deny
<1>4. CASE SubmitPersisted
  <2> DEFINE h == Head(dbq).job
  <2>1. /\ h \in Jobs /\ Plain(dbq') /\ Waits(dbq, h, "submit") /\ ~Waits(dbq', h, "submit")
        /\ \A j : Waits(dbq', j, "submit") => Waits(dbq, j, "submit")
        /\ \A j \in Jobs : db'[j] # "waiting_approval"
        /\ UNCHANGED <<wpc, wjob>>
    BY <1>4, <1>t, SoleStored DEF SubmitPersisted, Woken, pool
  <2>2. IF CanGo(status[h], "queued")
        THEN status' = [status EXCEPT ![h] = "queued"] /\ queue' = Append(queue, h)
        ELSE UNCHANGED <<status, queue>>
    BY <1>4 DEF SubmitPersisted
  <2> HIDE DEF h
  <2>3. ~Lined(queue, h) /\ ~HeldBy(h, Busy)
    BY <1>c, <2>1 DEF Alone
  <2>4. CASE CanGo(status[h], "queued")
    <3>0. h \in Jobs /\ queue' = Append(queue, h)
      BY <2>1, <2>2, <2>4
    <3>1. Once(queue') /\ \A j : Lined(queue', j) <=> Lined(queue, j) \/ j = h
      BY <1>t, <1>c, <2>3, <3>0, OnceAppend, LinedAppend
    <3>2. \A j \in Jobs : status'[j] = IF j = h THEN "queued" ELSE status[j]
      BY <1>t, <2>2, <2>4
    <3>3. ASSUME NEW j \in Jobs PROVE Alone(j)'
      BY <1>c, <2>1, <2>3, <3>1, <3>2 DEF Alone, HeldBy
    <3> QED BY <1>c, <2>1, <3>1, <3>3 DEF SoleNow, OneEach
  <2>5. CASE ~CanGo(status[h], "queued")
    <3>1. ASSUME NEW j \in Jobs PROVE Alone(j)'
      BY <1>c, <2>1, <2>2, <2>5 DEF Alone, HeldBy
    <3> QED BY <1>c, <2>1, <2>2, <2>5, <3>1 DEF SoleNow, OneEach
  <2> QED BY <2>4, <2>5
<1>5. CASE ResumePersisted
  BY <1>5, <1>t, SoleStored DEF ResumePersisted, Woken
<1>6. CASE RowPersisted
  <2>1. /\ Plain(dbq') /\ UNCHANGED <<status, queue, wpc, wjob>>
        /\ \A j : Waits(dbq', j, "submit") => Waits(dbq, j, "submit")
        /\ \A j \in Jobs : db'[j] # "waiting_approval"
    BY <1>6, <1>t, SoleStored DEF RowPersisted, Woken, pool
  <2>2. ASSUME NEW j \in Jobs PROVE Alone(j)'
    BY <1>c, <2>1 DEF Alone, HeldBy
  <2> QED BY <1>c, <2>1, <2>2 DEF SoleNow, OneEach
<1>q. queue # <<>> =>
        /\ Head(queue) \in Jobs /\ Once(Tail(queue)) /\ ~Lined(Tail(queue), Head(queue))
        /\ \A j : Lined(queue, j) <=> Lined(Tail(queue), j) \/ Head(queue) = j
  BY <1>t, <1>c, OnceTail, LinedTail
<1>7. ASSUME NEW w \in Workers, TakeNothing(w) PROVE SoleNow'
  <2>1. queue # <<>> /\ queue' = Tail(queue) /\ UNCHANGED <<status, wpc, wjob, dbq, db>>
    BY <1>7 DEF TakeNothing, NextId, pool
  <2>2. ASSUME NEW j \in Jobs PROVE Alone(j)'
    BY <1>c, <1>q, <2>1 DEF Alone, HeldBy
  <2> QED BY <1>c, <1>q, <2>1, <2>2 DEF SoleNow, OneEach
<1>8. ASSUME NEW w \in Workers, TakeResumed(w) PROVE SoleNow'
  <2>1. queue # <<>> /\ status[Head(queue)] = "running"
    BY <1>8 DEF TakeResumed, NextId
  <2> QED BY <1>c, <1>q, <2>1 DEF Alone
<1>9. ASSUME NEW w \in Workers, TakeInvalid(w) PROVE SoleNow'
  <2>1. queue # <<>> /\ status[Head(queue)] \notin {"none", "cancelled", "queued"}
    BY <1>9 DEF TakeInvalid, NextId, CanGo, ValidTransitions, Status, Open
  <2> QED BY <1>c, <1>q, <2>1 DEF Alone
<1>10. ASSUME NEW w \in Workers, TakeQueued(w) PROVE SoleNow'
  <2> DEFINE h == Head(queue)
  <2>1. /\ queue # <<>> /\ queue' = Tail(queue) /\ h \in Jobs /\ wpc[w] = "idle" /\ db' = db
        /\ status' = [status EXCEPT ![h] = "dispatched"]
        /\ dbq' = Append(dbq, Write(h, "dispatched", w))
        /\ wpc' = [wpc EXCEPT ![w] = "dispatching"] /\ wjob' = [wjob EXCEPT ![w] = h]
    BY <1>10, <1>q DEF TakeQueued, NextId, Holds
  <2>2. Once(queue') /\ ~Lined(queue', h) /\ \A j : Lined(queue, j) <=> Lined(queue', j) \/ h = j
    BY <1>q, <2>1
  <2> HIDE DEF h
  <2>3. ~HeldBy(h, Busy) /\ ~Waits(dbq, h, "submit")
    BY <1>c, <2>1, <2>2 DEF Alone
  <2>4. Plain(dbq')
    BY <1>t, <1>c, <2>1, PlainAppend
  <2>5. \A j, who : Waits(dbq', j, who) <=> Waits(dbq, j, who) \/ (j = h /\ who = w)
    BY <1>t, <2>1, WaitsAppend
  <2>6. OneEach'
    BY <1>t, <1>c, <2>1, <2>3 DEF OneEach, HeldBy, Busy
  <2>7. \A j : HeldBy(j, Busy)' => HeldBy(j, Busy) \/ j = h
    BY <1>t, <2>1 DEF HeldBy
  <2>8. ASSUME NEW j \in Jobs PROVE Alone(j)'
    BY <1>t, <1>c, <2>1, <2>2, <2>3, <2>5, <2>7 DEF Alone
  <2> QED BY <2>2, <2>4, <2>6, <2>8 DEF SoleNow
<1>11. ASSUME NEW w \in Workers, DispatchPersisted(w) PROVE SoleNow'
  <2>1. /\ Plain(Tail(dbq)) /\ Tail(dbq) \in Seq(Entry)
        /\ \A j : Waits(Tail(dbq), j, "submit") => Waits(dbq, j, "submit")
        /\ \A j \in Jobs : db'[j] # "waiting_approval"
        /\ queue' = queue /\ wpc[w] = "dispatching" /\ wjob[w] \in Jobs /\ wpc[w] \in Busy
    BY <1>11, <1>t, SoleStored DEF DispatchPersisted, Woken, AtWork, Busy
  <2>2. CASE CanGo(status[wjob[w]], "running")
    <3>1. /\ status' = [status EXCEPT ![wjob[w]] = "running"]
          /\ dbq' = Append(Tail(dbq), Write(wjob[w], "running", w))
          /\ wpc' = [wpc EXCEPT ![w] = "starting"] /\ wjob' = [wjob EXCEPT ![w] = wjob[w]]
      BY <1>11, <2>2 DEF DispatchPersisted, Holds
    <3>2. Plain(dbq')
      BY <1>t, <2>1, <3>1, PlainAppend
    <3> DEFINE t == Tail(dbq)
    <3>0. t \in Seq(Entry) /\ dbq' = Append(t, Write(wjob[w], "running", w))
      BY <2>1, <3>1
    <3> HIDE DEF t
    <3>3. \A j, who : Waits(dbq', j, who) <=> Waits(t, j, who) \/ (j = wjob[w] /\ who = w)
      BY <3>0, WaitsAppend
    <3>4. /\ wjob'[w] = wjob[w]
          /\ \A v \in Workers : v # w => wpc'[v] = wpc[v] /\ wjob'[v] = wjob[v]
      BY <1>t, <3>1
    <3>5. HeldBy(wjob[w], Busy)
      BY <2>1 DEF HeldBy
    <3>6. \A j \in Jobs : status'[j] = status[j] \/ (status'[j] = "running" /\ HeldBy(j, Busy))
      BY <1>t, <3>1, <3>5
    <3>7. \A j : Waits(dbq', j, "submit") => Waits(dbq, j, "submit")
      BY <1>t, <2>1, <3>3 DEF t
    <3> QED BY <1>t, <2>1, <3>2, <3>4, <3>6, <3>7, SoleLets
  <2>3. CASE ~CanGo(status[wjob[w]], "running")
    BY <1>11, <1>t, <2>1, <2>3, SoleRaised DEF DispatchPersisted
  <2> QED BY <2>2, <2>3
<1>12. ASSUME NEW w \in Workers, StartPersisted(w) PROVE SoleNow'
  <2>1. /\ Plain(dbq') /\ status' = status /\ queue' = queue
        /\ \A j : Waits(dbq', j, "submit") => Waits(dbq, j, "submit")
        /\ \A j \in Jobs : db'[j] # "waiting_approval"
        /\ wpc[w] \in Busy
        /\ wpc' = [wpc EXCEPT ![w] = "running"] /\ wjob' = [wjob EXCEPT ![w] = wjob[w]]
    BY <1>12, <1>t, SoleStored DEF StartPersisted, Woken, Busy, Holds
  <2>2. wjob'[w] = wjob[w] /\ \A v \in Workers : v # w => wpc'[v] = wpc[v] /\ wjob'[v] = wjob[v]
    BY <1>t, <2>1
  <2> QED BY <1>t, <2>1, <2>2, SoleLets
<1>13. ASSUME NEW w \in Workers, Returns(w) PROVE SoleNow'
  <2>1. /\ queue' = queue /\ db' = db /\ wpc[w] \in Busy /\ wjob[w] \in Jobs
    BY <1>13, <1>t DEF Returns, AtWork, Busy
  <2>2. CASE CanGo(status[wjob[w]], "completed")
    <3>1. /\ status' = [status EXCEPT ![wjob[w]] = "completed"]
          /\ dbq' = Append(dbq, Write(wjob[w], "completed", w))
          /\ wpc' = [wpc EXCEPT ![w] = "finishing"] /\ wjob' = [wjob EXCEPT ![w] = wjob[w]]
      BY <1>13, <2>2 DEF Returns, Conclude, Holds
    <3>2. Plain(dbq')
      BY <1>t, <1>c, <3>1, PlainAppend
    <3>3. \A j, who : Waits(dbq', j, who) <=> Waits(dbq, j, who) \/ (j = wjob[w] /\ who = w)
      BY <1>t, <3>1, WaitsAppend
    <3>4. wpc'[w] \notin Busy /\ \A v \in Workers : v # w => wpc'[v] = wpc[v] /\ wjob'[v] = wjob[v]
      BY <1>t, <3>1 DEF Busy
    <3>5. HeldBy(wjob[w], Busy)
      BY <2>1 DEF HeldBy
    <3>6. \A j \in Jobs : status'[j] = status[j] \/ (status'[j] = "completed" /\ HeldBy(j, Busy))
      BY <1>t, <3>1, <3>5
    <3>7. \A j : Waits(dbq', j, "submit") => Waits(dbq, j, "submit")
      BY <1>t, <3>3
    <3> QED BY <1>t, <1>c, <2>1, <3>2, <3>4, <3>6, <3>7, SoleLets
  <2>3. CASE ~CanGo(status[wjob[w]], "completed")
    BY <1>13, <1>t, <1>c, <2>1, <2>3, SoleRaised DEF Returns
  <2> QED BY <2>2, <2>3
<1>14. ASSUME NEW w \in Workers, Raises(w) PROVE SoleNow'
  BY <1>14, <1>t, <1>c, SoleRaised DEF Raises, AtWork, Busy
<1>15. ASSUME NEW w \in Workers, FinishPersisted(w) PROVE SoleNow'
  <2>1. /\ Plain(dbq') /\ queue' = queue
        /\ \A j : Waits(dbq', j, "submit") => Waits(dbq, j, "submit")
        /\ \A j \in Jobs : db'[j] # "waiting_approval" /\ status'[j] \in {status[j], "none"}
        /\ wpc' = [wpc EXCEPT ![w] = "idle"] /\ wjob' = [wjob EXCEPT ![w] = NoJob]
    BY <1>15, <1>t, SoleStored DEF FinishPersisted, Woken, Holds
  <2>2. wpc'[w] \notin Busy /\ \A v \in Workers : v # w => wpc'[v] = wpc[v] /\ wjob'[v] = wjob[v]
    BY <1>t, <2>1 DEF Busy
  <2> QED BY <1>t, <2>1, <2>2, SoleLets
<1>16. ASSUME NEW w \in Workers, Interrupt(w) PROVE SoleNow'
  <2>1. PICK rest \in Orphaned(w) :
          IF wjob[w] # NoJob /\ status[wjob[w]] = "running"
          THEN /\ Conclude(wjob[w], "failed")
               /\ dbq' = Append(rest, Write(wjob[w], "failed", w))
               /\ Holds(w, "interrupted", wjob[w])
          ELSE /\ dbq' = rest
               /\ Holds(w, "stopped", NoJob)
               /\ UNCHANGED <<status, completed, clock>>
    BY <1>16 DEF Interrupt
  <2>2. /\ rest \in Seq(Entry) /\ Plain(rest) /\ queue' = queue /\ db' = db
        /\ \A j : Waits(rest, j, "submit") => Waits(dbq, j, "submit")
    BY <1>16, <1>t, <1>c, PlainOrphaned, OrphanedType DEF Interrupt
  <2>3. CASE wjob[w] # NoJob /\ status[wjob[w]] = "running"
    <3>0. wjob[w] \in Jobs
      BY <1>t, <2>3
    <3>1. /\ status' = [status EXCEPT ![wjob[w]] = "failed"]
          /\ dbq' = Append(rest, Write(wjob[w], "failed", w))
          /\ wpc' = [wpc EXCEPT ![w] = "interrupted"] /\ wjob' = [wjob EXCEPT ![w] = wjob[w]]
      BY <2>1, <2>3 DEF Conclude, Holds
    <3>2. Plain(dbq')
      BY <1>t, <2>2, <3>1, PlainAppend
    <3>3. \A j, who : Waits(dbq', j, who) <=> Waits(rest, j, who) \/ (j = wjob[w] /\ who = w)
      BY <2>2, <3>1, WaitsAppend
    <3>4. wpc'[w] \notin Busy /\ \A v \in Workers : v # w => wpc'[v] = wpc[v] /\ wjob'[v] = wjob[v]
      BY <1>t, <3>1 DEF Busy
    <3>5. \A j \in Jobs : status'[j] = status[j] \/ (status'[j] = "failed" /\ status[j] = "running")
      BY <1>t, <2>3, <3>1
    <3>6. \A j : Waits(dbq', j, "submit") => Waits(dbq, j, "submit")
      BY <1>t, <2>2, <3>3
    <3> QED BY <1>t, <1>c, <2>2, <3>2, <3>4, <3>5, <3>6, SoleLets
  <2>4. CASE ~(wjob[w] # NoJob /\ status[wjob[w]] = "running")
    <3>1. /\ status' = status /\ dbq' = rest
          /\ wpc' = [wpc EXCEPT ![w] = "stopped"] /\ wjob' = [wjob EXCEPT ![w] = NoJob]
      BY <2>1, <2>4 DEF Holds
    <3>2. wpc'[w] \notin Busy /\ \A v \in Workers : v # w => wpc'[v] = wpc[v] /\ wjob'[v] = wjob[v]
      BY <1>t, <3>1 DEF Busy
    <3> QED BY <1>t, <1>c, <2>2, <3>1, <3>2, SoleLets
  <2> QED BY <2>3, <2>4
<1>17. ASSUME NEW w \in Workers, InterruptPersisted(w) PROVE SoleNow'
  <2>1. /\ Plain(dbq') /\ queue' = queue /\ status' = status
        /\ \A j : Waits(dbq', j, "submit") => Waits(dbq, j, "submit")
        /\ \A j \in Jobs : db'[j] # "waiting_approval"
        /\ wpc' = [wpc EXCEPT ![w] = "stopped"] /\ wjob' = [wjob EXCEPT ![w] = NoJob]
    BY <1>17, <1>t, SoleStored DEF InterruptPersisted, Woken, Holds
  <2>2. wpc'[w] \notin Busy /\ \A v \in Workers : v # w => wpc'[v] = wpc[v] /\ wjob'[v] = wjob[v]
    BY <1>t, <2>1 DEF Busy
  <2> QED BY <1>t, <2>1, <2>2, SoleLets
<1>18. CASE Start
  <2>0. PICK F \in SUBSET Loaded, lost \in SUBSET Loaded : FromRows(F, lost)
    BY <1>18, StartReads
  <2> DEFINE S == {k \in F : Recovered(db[k]) = "queued"}
  <2>1. S \in SUBSET Jobs
    BY DEF Loaded, Rows
  <2>2. PICK q \in NewestFirst(S) : queue' = q
    BY <2>0 DEF FromRows
  <2>3. Once(queue') /\ \A j : Lined(queue', j) => j \in S
    <3> HIDE DEF S
    <3> QED BY <1>t, <2>1, <2>2, QueueHoldsAll DEF Once, Lined
  <2>4. dbq = <<>> /\ dbq' = <<>> /\ \A w \in Workers : wpc'[w] = "idle"
    BY <1>18 DEF Start, IInv, OutcomesAgree
  <2>5. /\ \A j \in Jobs : status'[j] # "waiting_approval" /\ db'[j] # "waiting_approval"
        /\ \A j \in S : status'[j] = "queued"
    BY <2>0, <1>c, <2>1 DEF FromRows, Recovered, Loaded, Rows
  <2>6. Plain(dbq') /\ \A j : ~Waits(dbq', j, "submit")
    BY <1>c, <2>4 DEF Waits, Plain
  <2>7. OneEach' /\ \A j : ~HeldBy(j, Busy)'
    BY <2>4 DEF OneEach, HeldBy, Busy
  <2>8. ASSUME NEW j \in Jobs PROVE Alone(j)'
    BY <2>3, <2>5, <2>6, <2>7 DEF Alone
  <2> QED BY <2>3, <2>6, <2>7, <2>8 DEF SoleNow
<1>19. CASE Stop \/ UNCHANGED vars
  <2>1. UNCHANGED <<status, db, queue, dbq, wpc, wjob>>
    BY <1>19 DEF Stop, vars, pool
  <2> QED BY <2>1 DEF SoleNow, Alone, OneEach, HeldBy
<1>20. CASE Exit \/ Crash
  <2>1. /\ queue' = <<>> /\ dbq' = <<>> /\ db' = db
        /\ \A j \in Jobs : status'[j] = "none"
        /\ \A w \in Workers : wpc'[w] = "none"
    BY <1>20 DEF Exit, Crash, Gone
  <2>2. Plain(dbq') /\ Once(queue') /\ \A j : ~Waits(dbq', j, "submit") /\ ~Lined(queue', j)
    BY <2>1 DEF Plain, Once, Waits, Lined
  <2>3. OneEach' /\ \A j : ~HeldBy(j, Busy)'
    BY <2>1 DEF OneEach, HeldBy, Busy
  <2>4. ASSUME NEW j \in Jobs PROVE Alone(j)'
    BY <1>c, <2>1, <2>2, <2>3 DEF Alone
  <2> QED BY <2>2, <2>3, <2>4 DEF SoleNow
<1> QED
  BY <1>1, <1>2, <1>3, <1>4, <1>5, <1>6, <1>7, <1>8, <1>9, <1>10, <1>11, <1>12, <1>13,
     <1>14, <1>15, <1>16, <1>17, <1>18, <1>19, <1>20
     DEF Next, Client, Caller, Worker, Process

\* Two workers are never on the same job, in every reachable state of a run in
\* which no job was paused.
THEOREM OneExecutor == Spec => []AtMostOneExecutor
<1> DEFINE Sole == pauses = 0 => SoleNow
<1>1. Init => Fresh /\ Sole
  BY JobsAssumption DEF Init, Fresh, SoleNow, Plain, Once, OneEach, Alone, Lined, Waits, HeldBy, Busy
<1>2. IInv /\ Fresh /\ Sole /\ [Next]_vars => Fresh' /\ Sole'
  <2>1. TypeOK /\ [Next]_vars /\ pauses' = 0 => pauses = 0
    BY DEF TypeOK, Next, Client, Caller, Worker, Process, Submit, Cancel, Pause, Resume, Deny,
           SubmitPersisted, ResumePersisted, RowPersisted, TakeNothing, TakeResumed,
           TakeQueued, TakeInvalid, DispatchPersisted, StartPersisted, Returns, Raises,
           FinishPersisted, Interrupt, InterruptPersisted, Start, Stop, Exit, Crash, Gone,
           vars, bounds
  <2> QED BY <2>1, FreshNext, SoleNext DEF IInv
<1>3. Sole => AtMostOneExecutor
  BY DEF SoleNow, OneEach, AtMostOneExecutor
<1> QED BY <1>1, <1>2, <1>3, Inductive, PTL DEF Spec

-----------------------------------------------------------------------------
(* Finished jobs. *)

\* A worker starts only what is open in the memory, so nothing that is closed on disk.
LEMMA ClosedStaysClosed ==
    ASSUME IInv, [Next]_vars, NEW w \in Workers, wpc[w] = "idle", wpc'[w] \in Busy
    PROVE  db[wjob'[w]] \notin Terminal
<1>t. /\ wpc \in [Workers -> WorkerState] /\ wjob \in [Workers -> Jobs \cup {NoJob}]
      /\ queue \in Seq(Jobs) /\ \A j \in Jobs : db[j] \in Terminal => status[j] \in {db[j], "none"}
  BY DEF IInv, TypeOK, OutcomesAgree, Agree
<1>1. CASE TakeResumed(w) \/ TakeQueued(w)
  <2>1. Head(queue) \in Jobs /\ wjob'[w] = Head(queue)
    BY <1>1, <1>t DEF TakeResumed, TakeQueued, NextId, Holds
  <2>2. status[Head(queue)] \in Open
    BY <1>1, OpenGoes DEF TakeResumed, TakeQueued, Open
  <2> QED BY <1>t, <2>1, <2>2 DEF Open, Terminal
<1>2. ASSUME NEW v \in Workers, Worker(v), ~(TakeResumed(w) \/ TakeQueued(w)) PROVE FALSE
  <2>1. CASE v = w
    BY <1>2, <1>t, <2>1 DEF Worker, TakeNothing, TakeInvalid, DispatchPersisted, StartPersisted,
       Returns, Raises, FinishPersisted, Interrupt, InterruptPersisted, Raised, Dies, Holds,
       pool, Busy
  <2>2. CASE v # w
    <3>1. wpc'[w] = wpc[w]
      BY <1>2, <1>t, <2>2 DEF Worker, TakeNothing, TakeResumed, TakeQueued, TakeInvalid,
         DispatchPersisted, StartPersisted, Returns, Raises, FinishPersisted, Interrupt,
         InterruptPersisted, Raised, Dies, Holds, pool
    <3> QED BY <3>1 DEF Busy
  <2> QED BY <2>1, <2>2
<1>3. CASE ~ \E v \in Workers : Worker(v)
  <2>1. wpc'[w] \in {wpc[w], "idle", "none"}
    BY <1>3, <1>t DEF Next, Client, Caller, Process, Submit, Cancel, Pause, Resume, Deny,
       SubmitPersisted, ResumePersisted, RowPersisted, Start, Stop, Exit, Crash, Gone, vars, pool
  <2> QED BY <2>1 DEF Busy
<1> QED BY <1>1, <1>2, <1>3

\* No two jobs were finished at the same stamp; what is finished has one.
Stamped ==
    /\ \A j \in Jobs : completed[j] <= clock
    /\ \A j \in Jobs : status[j] \in Terminal \/ db[j] \in Terminal => completed[j] # 0
    /\ \A i \in DOMAIN dbq : dbq[i].row \in Terminal => completed[dbq[i].job] # 0
    /\ \A j, k \in Jobs : completed[j] = completed[k] /\ completed[j] # 0 => j = k

\* The writes in flight of finished jobs, after a write was done, orphaned or added.
StampedWrites(q, c) == \A i \in DOMAIN q : q[i].row \in Terminal => c[q[i].job] # 0

LEMMA StampedTail ==
    ASSUME NEW q \in Seq(Entry), q # <<>>, NEW c, StampedWrites(q, c)
    PROVE  StampedWrites(Tail(q), c) /\ (Head(q).row \in Terminal => c[Head(q).job] # 0)
<1> DEFINE t == Tail(q)
           n == Len(q)
<1>1. /\ n \in Nat \ {0} /\ DOMAIN q = 1..n /\ DOMAIN t = 1..(n - 1)
      /\ \A i \in 1..(n - 1) : t[i] = q[i + 1] /\ i + 1 \in 1..n
      /\ Head(q) = q[1] /\ 1 \in 1..n
  OBVIOUS
<1> HIDE DEF t, n
<1>2. StampedWrites(t, c) /\ (q[1].row \in Terminal => c[q[1].job] # 0)
  BY <1>1 DEF StampedWrites
<1> QED BY <1>1, <1>2 DEF t

LEMMA StampedAppend ==
    ASSUME NEW q \in Seq(Entry), NEW c, StampedWrites(q, c), NEW k, NEW row, NEW by,
           row \in Terminal => c[k] # 0
    PROVE  StampedWrites(Append(q, Write(k, row, by)), c)
<1> DEFINE r == Append(q, Write(k, row, by))
           n == Len(q)
<1>1. /\ n \in Nat /\ DOMAIN q = 1..n /\ DOMAIN r = 1..(n + 1)
      /\ \A i \in 1..n : r[i] = q[i]
      /\ r[n + 1].job = k /\ r[n + 1].row = row
  BY DEF Write
<1> HIDE DEF r, n
<1>2. \A i \in 1..(n + 1) : i \in 1..n \/ i = n + 1
  BY <1>1
<1>3. StampedWrites(r, c)
  BY <1>1, <1>2 DEF StampedWrites
<1> QED BY <1>3 DEF r

LEMMA StampedOrphaned ==
    ASSUME dbq \in Seq(Entry), NEW c, StampedWrites(dbq, c), NEW w \in Workers, NEW rest \in Orphaned(w)
    PROVE  StampedWrites(rest, c)
<1> DEFINE n == Len(dbq)
<1>1. n \in Nat /\ DOMAIN dbq = 1..n
  OBVIOUS
<1>2. CASE rest = [i \in 1..n |-> IF dbq[i].by = w THEN Write(dbq[i].job, dbq[i].row, "other")
                                  ELSE dbq[i]]
  <2>1. DOMAIN rest = 1..n /\ \A i \in 1..n : rest[i].job = dbq[i].job /\ rest[i].row = dbq[i].row
    BY <1>2 DEF Write
  <2> HIDE DEF n
  <2> QED BY <1>1, <2>1 DEF StampedWrites
<1>3. ASSUME NEW k \in 1..n,
             rest = [i \in 1..(n - 1) |-> IF i < k THEN dbq[i] ELSE dbq[i + 1]]
      PROVE  StampedWrites(rest, c)
  <2> HIDE DEF n
  <2>1. /\ DOMAIN rest = 1..(n - 1)
        /\ \A i \in 1..(n - 1) : \E m \in 1..n : rest[i] = dbq[m]
    BY <1>1, <1>3
  <2> QED BY <1>1, <2>1 DEF StampedWrites
<1> QED BY <1>2, <1>3 DEF Orphaned

\* A step that finishes no job.
LEMMA StampedKeeps ==
    ASSUME TypeOK, Stamped, completed' = completed, clock' \in {clock, clock + 1},
           StampedWrites(dbq', completed),
           \A j \in Jobs : db'[j] \in Terminal => completed[j] # 0,
           \A j \in Jobs : status'[j] \in Terminal => status[j] \in Terminal \/ db[j] \in Terminal
    PROVE  Stamped'
<1>1. \A j \in Jobs : completed[j] \in Nat
  BY DEF TypeOK
<1> QED BY <1>1 DEF Stamped, StampedWrites, TypeOK

\* A step that finishes the job k and writes its row.
LEMMA StampedConcludes ==
    ASSUME TypeOK, Stamped, NEW k \in Jobs, NEW o \in Terminal, NEW by, Conclude(k, o),
           NEW q \in Seq(Entry), StampedWrites(q, completed), dbq' = Append(q, Write(k, o, by)),
           \A j \in Jobs : db'[j] \in Terminal => completed[j] # 0
    PROVE  Stamped'
<1>t. /\ status \in [Jobs -> Known] /\ completed \in [Jobs -> Nat] /\ clock \in Nat
  BY DEF TypeOK
<1>1. /\ \A j \in Jobs : completed'[j] = IF j = k THEN clock + 1 ELSE completed[j]
      /\ \A j \in Jobs : status'[j] = IF j = k THEN o ELSE status[j]
      /\ clock' = clock + 1
  BY <1>t DEF Conclude
<1>2. \A j \in Jobs : completed[j] # 0 => completed'[j] # 0
  BY <1>t, <1>1
<1>3. StampedWrites(q, completed')
  BY <1>2, WritesInFlight DEF StampedWrites
<1>4. StampedWrites(dbq', completed')
  BY <1>t, <1>1, <1>3, StampedAppend
<1>5. \A j, m \in Jobs : completed'[j] = completed'[m] /\ completed'[j] # 0 => j = m
  BY <1>t, <1>1 DEF Stamped
<1>6. \A j \in Jobs : completed'[j] <= clock'
  BY <1>t, <1>1 DEF Stamped
<1>7. \A j \in Jobs : status'[j] \in Terminal \/ db'[j] \in Terminal => completed'[j] # 0
  BY <1>t, <1>1, <1>2 DEF Stamped
<1> QED BY <1>4, <1>5, <1>6, <1>7 DEF Stamped, StampedWrites

LEMMA StampedRaised ==
    ASSUME TypeOK, Stamped, NEW w \in Workers, wjob[w] \in Jobs,
           NEW q \in Seq(Entry), StampedWrites(q, completed), Raised(w, q),
           \A j \in Jobs : db'[j] \in Terminal => completed[j] # 0
    PROVE  Stamped'
<1>1. CASE CanGo(status[wjob[w]], "failed")
  <2>1. Conclude(wjob[w], "failed") /\ dbq' = Append(q, Write(wjob[w], "failed", w))
    BY <1>1 DEF Raised
  <2> QED BY <2>1, StampedConcludes DEF Terminal
<1>2. CASE ~CanGo(status[wjob[w]], "failed")
  <2>1. dbq' = q /\ UNCHANGED <<status, completed, clock>>
    BY <1>2 DEF Raised
  <2> QED BY <2>1, StampedKeeps
<1> QED BY <1>1, <1>2

LEMMA StampedStored ==
    ASSUME TypeOK, Stamped, dbq # <<>>, HeadStored
    PROVE  /\ Tail(dbq) \in Seq(Entry) /\ StampedWrites(Tail(dbq), completed)
           /\ \A j \in Jobs : db'[j] \in Terminal => completed[j] # 0
<1>1. dbq \in Seq(Entry) /\ db \in [Jobs -> Known] /\ StampedWrites(dbq, completed)
  BY DEF TypeOK, Entry, Stamped, StampedWrites
<1>2. Tail(dbq) \in Seq(Entry)
  BY <1>1, WritesType
<1>3. StampedWrites(Tail(dbq), completed) /\ (Head(dbq).row \in Terminal => completed[Head(dbq).job] # 0)
  BY <1>1, StampedTail
<1>4. db' = [db EXCEPT ![Head(dbq).job] = Head(dbq).row] \/ db' = db
  BY DEF HeadStored
<1>5. \A j \in Jobs : db'[j] = db[j] \/ (j = Head(dbq).job /\ db'[j] = Head(dbq).row)
  BY <1>1, <1>4
<1> QED BY <1>2, <1>3, <1>5 DEF Stamped

LEMMA StampedNext == IInv /\ Stamped /\ [Next]_vars => Stamped'
<1> SUFFICES ASSUME IInv, Stamped, [Next]_vars PROVE Stamped'
  OBVIOUS
<1>t. /\ TypeOK /\ status \in [Jobs -> Known] /\ queue \in Seq(Jobs)
      /\ dbq \in Seq(Entry) /\ db \in [Jobs -> Known] /\ StampedWrites(dbq, completed)
      /\ \A w \in Workers : wpc[w] \in AtWork => wjob[w] \in Jobs
  BY DEF IInv, TypeOK, Entry, Stamped, StampedWrites
<1>d. \A j \in Jobs : db[j] \in Terminal => completed[j] # 0
  BY DEF Stamped
<1>1. ASSUME NEW k \in Jobs, Submit(k) PROVE Stamped'
  <2>1. StampedWrites(dbq', completed) /\ UNCHANGED <<completed, db>> /\ clock' = clock + 1
    BY <1>1, <1>t, StampedAppend DEF Submit, Terminal
  <2>2. \A j \in Jobs : status'[j] \in {status[j], "pending"}
    BY <1>1, <1>t DEF Submit
  <2> QED BY <1>t, <1>d, <2>1, <2>2, StampedKeeps DEF Terminal
<1>2. ASSUME NEW k \in Jobs, Cancel(k) \/ Deny(k) PROVE Stamped'
  <2>1. Conclude(k, "cancelled") /\ dbq' = Append(dbq, Write(k, "cancelled", "other")) /\ db' = db
    BY <1>2 DEF Cancel, Deny
  <2> QED BY <1>t, <1>d, <2>1, StampedConcludes DEF Terminal
<1>3. ASSUME NEW k \in Jobs, NEW s \in {"waiting_approval", "running"}, NEW by,
             status' = [status EXCEPT ![k] = s], dbq' = Append(dbq, Write(k, s, by)),
             UNCHANGED <<completed, clock, db>>
      PROVE  Stamped'
  <2>1. StampedWrites(dbq', completed)
    BY <1>3, <1>t, StampedAppend DEF Terminal
  <2>2. \A j \in Jobs : status'[j] \in {status[j], s}
    BY <1>3, <1>t
  <2> QED BY <1>3, <1>t, <1>d, <2>1, <2>2, StampedKeeps DEF Terminal
<1>4. ASSUME NEW k \in Jobs, Pause(k) \/ Resume(k) PROVE Stamped'
  <2>1. CASE Pause(k)
    BY <1>3, <2>1 DEF Pause
  <2>2. CASE Resume(k)
    BY <1>3, <2>2 DEF Resume
  <2> QED BY <1>4, <2>1, <2>2
<1>5. CASE Caller
  <2>1. /\ dbq # <<>> /\ HeadStored /\ dbq' = Tail(dbq) /\ UNCHANGED <<completed, clock>>
    BY <1>5 DEF Caller, SubmitPersisted, ResumePersisted, RowPersisted, Woken
  <2>2. \A j \in Jobs : status'[j] \in {status[j], "queued"}
    BY <1>5, <1>t DEF Caller, SubmitPersisted, ResumePersisted, RowPersisted
  <2> QED BY <1>t, <2>1, <2>2, StampedStored, StampedKeeps DEF Terminal
<1>6. ASSUME NEW w \in Workers, TakeNothing(w) \/ TakeResumed(w) \/ TakeInvalid(w) PROVE Stamped'
  <2>1. UNCHANGED <<status, completed, clock, dbq, db>>
    BY <1>6 DEF TakeNothing, TakeResumed, TakeInvalid
  <2> QED BY <1>t, <1>d, <2>1, StampedKeeps
<1>7. ASSUME NEW w \in Workers, TakeQueued(w) PROVE Stamped'
  <2>1. /\ status' = [status EXCEPT ![Head(queue)] = "dispatched"]
        /\ dbq' = Append(dbq, Write(Head(queue), "dispatched", w))
        /\ UNCHANGED <<completed, clock, db>>
    BY <1>7 DEF TakeQueued
  <2>2. StampedWrites(dbq', completed)
    BY <1>t, <2>1, StampedAppend DEF Terminal
  <2>3. \A j \in Jobs : status'[j] \in {status[j], "dispatched"}
    BY <1>t, <2>1
  <2> QED BY <1>t, <1>d, <2>1, <2>2, <2>3, StampedKeeps DEF Terminal
<1>8. ASSUME NEW w \in Workers, DispatchPersisted(w) PROVE Stamped'
  <2>1. dbq # <<>> /\ HeadStored /\ wjob[w] \in Jobs
    BY <1>8, <1>t DEF DispatchPersisted, Woken, AtWork
  <2>2. /\ Tail(dbq) \in Seq(Entry) /\ StampedWrites(Tail(dbq), completed)
        /\ \A j \in Jobs : db'[j] \in Terminal => completed[j] # 0
    BY <1>t, <2>1, StampedStored
  <2>3. CASE CanGo(status[wjob[w]], "running")
    <3>1. /\ status' = [status EXCEPT ![wjob[w]] = "running"]
          /\ dbq' = Append(Tail(dbq), Write(wjob[w], "running", w))
          /\ UNCHANGED <<completed, clock>>
      BY <1>8, <2>3 DEF DispatchPersisted
    <3>2. StampedWrites(dbq', completed)
      BY <2>2, <3>1, StampedAppend DEF Terminal
    <3>3. \A j \in Jobs : status'[j] \in {status[j], "running"}
      BY <1>t, <3>1
    <3> QED BY <1>t, <2>2, <3>1, <3>2, <3>3, StampedKeeps DEF Terminal
  <2>4. CASE ~CanGo(status[wjob[w]], "running")
    BY <1>8, <1>t, <2>1, <2>2, <2>4, StampedRaised DEF DispatchPersisted
  <2> QED BY <2>3, <2>4
<1>9. ASSUME NEW w \in Workers, StartPersisted(w) \/ FinishPersisted(w) \/ InterruptPersisted(w)
      PROVE  Stamped'
  <2>1. /\ dbq # <<>> /\ HeadStored /\ dbq' = Tail(dbq) /\ UNCHANGED <<completed, clock>>
        /\ \A j \in Jobs : status'[j] \in {status[j], "none"}
    BY <1>9 DEF StartPersisted, FinishPersisted, InterruptPersisted, Woken
  <2> QED BY <1>t, <2>1, StampedStored, StampedKeeps DEF Terminal
<1>10. ASSUME NEW w \in Workers, Returns(w) PROVE Stamped'
  <2>1. CASE CanGo(status[wjob[w]], "completed")
    <3>1. /\ Conclude(wjob[w], "completed") /\ wjob[w] \in Jobs /\ db' = db
          /\ dbq' = Append(dbq, Write(wjob[w], "completed", w))
      BY <1>10, <1>t, <2>1 DEF Returns, AtWork
    <3> QED BY <1>t, <1>d, <3>1, StampedConcludes DEF Terminal
  <2>2. CASE ~CanGo(status[wjob[w]], "completed")
    BY <1>10, <1>t, <1>d, <2>2, StampedRaised DEF Returns, AtWork
  <2> QED BY <2>1, <2>2
<1>11. ASSUME NEW w \in Workers, Raises(w) PROVE Stamped'
  BY <1>11, <1>t, <1>d, StampedRaised DEF Raises, AtWork
<1>12. ASSUME NEW w \in Workers, Interrupt(w) PROVE Stamped'
  <2>1. PICK rest \in Orphaned(w) :
          IF wjob[w] # NoJob /\ status[wjob[w]] = "running"
          THEN /\ Conclude(wjob[w], "failed")
               /\ dbq' = Append(rest, Write(wjob[w], "failed", w))
          ELSE /\ dbq' = rest
               /\ UNCHANGED <<status, completed, clock>>
    BY <1>12 DEF Interrupt
  <2>2. rest \in Seq(Entry) /\ StampedWrites(rest, completed) /\ db' = db
    BY <1>12, <1>t, StampedOrphaned, OrphanedType DEF Interrupt
  <2>3. CASE wjob[w] # NoJob /\ status[wjob[w]] = "running"
    <3>1. wjob[w] \in Jobs
      BY <2>3 DEF IInv, TypeOK
    <3> QED BY <1>t, <1>d, <2>1, <2>2, <2>3, <3>1, StampedConcludes DEF Terminal
  <2>4. CASE ~(wjob[w] # NoJob /\ status[wjob[w]] = "running")
    BY <1>t, <1>d, <2>1, <2>2, <2>4, StampedKeeps
  <2> QED BY <2>3, <2>4
<1>13. CASE Start
  <2>0. PICK F \in SUBSET Loaded, lost \in SUBSET Loaded : FromRows(F, lost)
    BY <1>13, StartReads
  <2>1. /\ dbq' = dbq /\ UNCHANGED <<completed, clock>>
        /\ \A j \in Jobs : /\ db'[j] \in Terminal => db[j] \in Terminal
                           /\ status'[j] \in Terminal => db[j] \in Terminal
    BY <1>13, <1>t, <2>0 DEF Start, FromRows, Recovered, Terminal
  <2> QED BY <1>t, <1>d, <2>1, StampedKeeps
<1>14. CASE Stop \/ UNCHANGED vars
  <2>1. UNCHANGED <<status, completed, clock, dbq, db>>
    BY <1>14 DEF Stop, vars
  <2> QED BY <1>t, <1>d, <2>1, StampedKeeps
<1>15. CASE Exit \/ Crash
  <2>1. /\ dbq' = <<>> /\ UNCHANGED <<completed, clock, db>> /\ \A j \in Jobs : status'[j] = "none"
    BY <1>15 DEF Exit, Crash, Gone
  <2>2. StampedWrites(dbq', completed)
    BY <2>1 DEF StampedWrites
  <2> QED BY <1>t, <1>d, <2>1, <2>2, StampedKeeps DEF Terminal
<1> QED
  BY <1>1, <1>2, <1>4, <1>5, <1>6, <1>7, <1>8, <1>9, <1>10, <1>11, <1>12, <1>13, <1>14, <1>15
     DEF Next, Client, Worker, Process

\* Eviction: how many finished jobs are older than j.
Older(j) == {k \in Finished : completed[k] < completed[j]}

LEMMA OlderCount ==
    ASSUME TypeOK
    PROVE  /\ \A j \in Jobs : IsFiniteSet(Older(j)) /\ Cardinality(Older(j)) \in Nat
           /\ \A j, k \in Finished : completed[j] < completed[k] =>
                 Cardinality(Older(j)) < Cardinality(Older(k))
<1>1. \A j \in Jobs : IsFiniteSet(Older(j)) /\ Cardinality(Older(j)) \in Nat
  BY JobsAssumption, FS_Subset, FS_CardinalityType DEF Older, Finished
<1>2. ASSUME NEW j \in Finished, NEW k \in Finished, completed[j] < completed[k]
      PROVE  Cardinality(Older(j)) < Cardinality(Older(k))
  <2>1. j \in Jobs /\ k \in Jobs /\ \A i \in Jobs : completed[i] \in Nat
    BY DEF Finished, TypeOK
  <2>2. Older(j) \in SUBSET Older(k) /\ j \in Older(k) /\ j \notin Older(j)
    BY <1>2, <2>1 DEF Older, Finished
  <2>3. /\ Cardinality(Older(j)) <= Cardinality(Older(k))
        /\ Cardinality(Older(k)) = Cardinality(Older(j)) => Older(k) = Older(j)
    BY <1>1, <2>1, <2>2, FS_Subset
  <2>4. Cardinality(Older(j)) # Cardinality(Older(k))
    BY <2>2, <2>3
  <2>5. Cardinality(Older(j)) \in Nat /\ Cardinality(Older(k)) \in Nat
    BY <1>1, <2>1
  <2> QED BY <2>3, <2>4, <2>5
<1> QED BY <1>1, <1>2

\* No more jobs are evicted than there are too many, and the oldest are.
LEMMA EvictedAreOldest ==
    ASSUME TypeOK, Stamped
    PROVE  /\ Cardinality(InMemory \ Evicted) >= MaxInMemory \/ Evicted = {}
           /\ Evicted \subseteq Finished
           /\ \A j \in Evicted, k \in Finished \ Evicted : completed[j] < completed[k]
<1> DEFINE x == Cardinality(InMemory) - MaxInMemory
           rank(j) == Cardinality(Older(j))
<1>1. IsFiniteSet(InMemory) /\ Cardinality(InMemory) \in Nat /\ MaxInMemory \in Nat
  BY JobsAssumption, BoundsAssumption, FS_Subset, FS_CardinalityType DEF InMemory
<1>2. Evicted = {j \in Finished : rank(j) < x}
  BY DEF Evicted, Older
<1>3. /\ \A j \in Finished : rank(j) \in Nat
      /\ \A j, k \in Finished : completed[j] < completed[k] => rank(j) < rank(k)
      /\ Finished \subseteq Jobs /\ Finished \subseteq InMemory
      /\ \A j \in Finished : completed[j] \in Nat
  BY OlderCount DEF Finished, InMemory, Terminal, TypeOK
<1>4. \A j, k \in Finished : completed[j] = completed[k] => j = k
  BY <1>3 DEF Stamped, Finished
<1>x. x \in Int
  BY <1>1
<1> HIDE DEF rank, x
<1>5. ASSUME NEW j \in Evicted, NEW k \in Finished \ Evicted PROVE completed[j] < completed[k]
  <2>1. j \in Finished /\ rank(j) < x /\ ~(rank(k) < x)
    BY <1>2
  <2>2. rank(j) # rank(k) /\ ~(rank(k) < rank(j))
    BY <1>3, <1>x, <2>1
  <2>3. completed[j] # completed[k]
    BY <1>4, <2>1, <2>2
  <2> QED BY <1>3, <2>1, <2>2, <2>3
<1>6. CASE Evicted # {}
  <2> DEFINE f == [j \in Evicted |-> rank(j)]
  <2>1. x \in Nat \ {0}
    BY <1>2, <1>3, <1>x, <1>6
  <2>2. f \in Injection(Evicted, 0..(x - 1))
    <3>1. f \in [Evicted -> 0..(x - 1)]
      BY <1>2, <1>3, <2>1
    <3>2. ASSUME NEW j \in Evicted, NEW k \in Evicted, f[j] = f[k] PROVE j = k
      <4>1. j \in Finished /\ k \in Finished /\ rank(j) = rank(k)
        BY <1>2, <3>2
      <4>2. completed[j] = completed[k]
        BY <1>3, <4>1
      <4> QED BY <1>4, <4>1, <4>2
    <3> HIDE DEF f
    <3> QED BY <3>1, <3>2 DEF Injection, IsInjective
  <2>3. IsFiniteSet(0..(x - 1)) /\ Cardinality(0..(x - 1)) = x
    BY <2>1, FS_Interval
  <2>4. IsFiniteSet(Evicted) /\ Cardinality(Evicted) <= x
    <3> HIDE DEF f
    <3> QED BY <2>2, <2>3, FS_Injection
  <2>5. Evicted \subseteq InMemory
    BY <1>2, <1>3
  <2>6. InMemory \cap Evicted = Evicted
    BY <2>5
  <2>7. Cardinality(InMemory \ Evicted) = Cardinality(InMemory) - Cardinality(Evicted)
    BY <1>1, <2>6, FS_Difference
  <2>8. Cardinality(Evicted) \in Nat
    BY <2>4, FS_CardinalityType
  <2>9. Cardinality(InMemory \ Evicted) >= MaxInMemory
    BY <1>1, <2>4, <2>7, <2>8 DEF x
  <2> QED BY <1>2, <1>5, <2>9
<1>7. CASE Evicted = {}
  BY <1>7
<1> QED BY <1>6, <1>7

\* Only FinishPersisted lets a job out of the memory of a panel that is up.
LEMMA OnlyEvicted ==
    ASSUME IInv, Stamped, [Next]_vars, NEW j \in Jobs, NEW k \in Jobs,
           mode = "up", mode' = "up", status[j] # "none", status'[j] = "none"
    PROVE  /\ status[j] \in Terminal
           /\ Cardinality(InMemory') >= MaxInMemory
           /\ status'[k] \in Terminal => completed[j] < completed[k]
<1>t. TypeOK /\ status \in [Jobs -> Known] /\ queue \in Seq(Jobs)
      /\ \A w \in Workers : wpc[w] \in AtWork => wjob[w] \in Jobs
  BY DEF IInv, TypeOK
<1>1. CASE \E w \in Workers : FinishPersisted(w)
  <2>1. \A i \in Jobs : status'[i] = IF i \in Evicted THEN "none" ELSE status[i]
    BY <1>1 DEF FinishPersisted
  <2>2. j \in Evicted
    BY <2>1
  <2>3. InMemory' = InMemory \ Evicted
    BY <2>1 DEF InMemory
  <2>4. status'[k] \in Terminal => k \in Finished \ Evicted
    BY <2>1 DEF Finished, Terminal
  <2>5. j \in Finished
    BY <1>t, <2>2, EvictedAreOldest
  <2> QED BY <1>t, <2>2, <2>3, <2>4, <2>5, EvictedAreOldest DEF Finished
<1>2. CASE ~ \E w \in Workers : FinishPersisted(w)
  <2>1. \/ status' = status
        \/ \E i \in Jobs \cup {NoJob, Head(queue), Head(dbq).job}, s \in Status :
             status' = [status EXCEPT ![i] = s]
    <3>1. CASE Client
      BY <3>1 DEF Client, Submit, Cancel, Pause, Resume, Deny, Conclude, Status, Open, Terminal
    <3>2. CASE Caller
      BY <3>2 DEF Caller, SubmitPersisted, ResumePersisted, RowPersisted, Status, Open
    <3>3. ASSUME NEW w \in Workers, Worker(w)
          PROVE  \/ status' = status
                 \/ \E i \in Jobs \cup {NoJob, Head(queue), Head(dbq).job}, s \in Status :
                      status' = [status EXCEPT ![i] = s]
      <4>1. wjob[w] \in Jobs \cup {NoJob}
        BY DEF IInv, TypeOK
      <4>2. CASE Raised(w, dbq) \/ Raised(w, Tail(dbq))
        BY <4>1, <4>2 DEF Raised, Conclude, Status, Terminal
      <4>3. CASE TakeNothing(w) \/ TakeResumed(w) \/ TakeInvalid(w) \/ TakeQueued(w)
        BY <4>3 DEF TakeNothing, TakeResumed, TakeInvalid, TakeQueued, Status, Open
      <4>4. CASE DispatchPersisted(w) \/ StartPersisted(w)
        BY <4>1, <4>2, <4>4 DEF DispatchPersisted, StartPersisted, Status, Open
      <4>5. CASE Returns(w) \/ Raises(w)
        BY <4>1, <4>2, <4>5 DEF Returns, Raises, Conclude, Status, Terminal
      <4>6. CASE Interrupt(w) \/ InterruptPersisted(w)
        BY <4>6 DEF Interrupt, InterruptPersisted
      <4> QED BY <1>2, <3>3, <4>3, <4>4, <4>5, <4>6 DEF Worker
    <3>4. CASE Process \/ UNCHANGED vars
      BY <3>4 DEF Process, Start, Stop, Exit, Crash, Gone, vars
    <3> QED BY <3>1, <3>2, <3>3, <3>4 DEF Next
  <2>2. status'[j] \in {status[j]} \cup Status
    BY <1>t, <2>1
  <2> QED BY <2>2 DEF Status, Open, Terminal
<1> QED BY <1>1, <1>2

\* A worker starts no job that is closed on disk, and a job leaves the memory only
\* when there are too many and no younger one leaves before it.
THEOREM FinishedStayFinished == Spec => FinishedJobsKept
<1>1. Init => Stamped
  BY DEF Init, Stamped, Terminal
<1>2. Spec => []Stamped
  BY <1>1, StampedNext, Inductive, PTL DEF Spec
<1>3. IInv /\ [Next]_vars =>
        [\A w \in Workers : wpc[w] = "idle" /\ wpc'[w] \in Busy => db[wjob'[w]] \notin Terminal]_vars
  BY ClosedStaysClosed
<1>4. Spec => NoClosedJobStarted
  BY <1>3, Inductive, PTL DEF Spec, NoClosedJobStarted
<1>5. IInv /\ Stamped /\ [Next]_vars =>
        [\A j, k \in Jobs :
           /\ mode = "up" /\ mode' = "up"
           /\ status[j] # "none" /\ status'[j] = "none"
           => /\ status[j] \in Terminal
              /\ Cardinality(InMemory') >= MaxInMemory
              /\ (status'[k] \in Terminal => completed[j] < completed[k])]_vars
  BY OnlyEvicted
<1>6. Spec => EvictionKeepsRecent
  BY <1>2, <1>5, Inductive, PTL DEF Spec, EvictionKeepsRecent
<1> QED BY <1>4, <1>6 DEF FinishedJobsKept

-----------------------------------------------------------------------------
(* A worker awaits at most one write, of the job it holds. *)

Writing == {"dispatching", "starting", "finishing", "interrupted"}

\* No write in q is awaited by w.
HandsOff(q, w) == \A i \in DOMAIN q : q[i].by # w

\* The one write in q that w may await is of the job j it holds at pc.
OwnOf(q, w, j, pc) ==
    \A i \in DOMAIN q : q[i].by = w =>
       q[i].job = j /\ pc \in Writing /\ \A k \in DOMAIN q : q[k].by = w => k = i

Own == \A w \in Workers : OwnOf(dbq, w, wjob[w], wpc[w])

LEMMA OwnFree ==
    ASSUME NEW q, NEW w, HandsOff(q, w)
    PROVE  \A j, pc : OwnOf(q, w, j, pc)
BY DEF OwnOf, HandsOff

LEMMA OwnIdle ==
    ASSUME NEW q, NEW w, NEW j, NEW pc, OwnOf(q, w, j, pc), pc \notin Writing
    PROVE  HandsOff(q, w)
BY DEF OwnOf, HandsOff

LEMMA OwnAppend ==
    ASSUME NEW q \in Seq(Entry), NEW w, NEW j, NEW pc, OwnOf(q, w, j, pc),
           NEW k, NEW row, NEW by,
           by # w \/ (HandsOff(q, w) /\ k = j /\ pc \in Writing)
    PROVE  OwnOf(Append(q, Write(k, row, by)), w, j, pc)
<1> DEFINE r == Append(q, Write(k, row, by))
           n == Len(q)
<1>1. /\ n \in Nat /\ DOMAIN q = 1..n /\ DOMAIN r = 1..(n + 1)
      /\ \A i \in 1..n : r[i] = q[i]
      /\ r[n + 1].job = k /\ r[n + 1].by = by
  BY DEF Write
<1> HIDE DEF r, n
<1>2. \A i \in 1..(n + 1) : i \in 1..n \/ i = n + 1
  BY <1>1
<1>3. OwnOf(r, w, j, pc)
  BY <1>1, <1>2 DEF OwnOf, HandsOff
<1> QED BY <1>3 DEF r

LEMMA OwnTail ==
    ASSUME NEW q \in Seq(Entry), q # <<>>, NEW w, NEW j, NEW pc, OwnOf(q, w, j, pc)
    PROVE  /\ OwnOf(Tail(q), w, j, pc)
           /\ Head(q).by = w => HandsOff(Tail(q), w) /\ Head(q).job = j
<1> DEFINE t == Tail(q)
           n == Len(q)
<1>1. /\ n \in Nat \ {0} /\ DOMAIN q = 1..n /\ DOMAIN t = 1..(n - 1)
      /\ \A i \in 1..(n - 1) : t[i] = q[i + 1]
      /\ Head(q) = q[1]
  OBVIOUS
<1> HIDE DEF t, n
<1>2. /\ 1 \in 1..n
      /\ \A i \in 1..(n - 1) : i + 1 \in 1..n /\ i + 1 # 1
      /\ \A i, k \in 1..(n - 1) : i + 1 = k + 1 => i = k
  BY <1>1
<1>3. OwnOf(t, w, j, pc)
  <2>1. ASSUME NEW i \in 1..(n - 1), t[i].by = w
        PROVE  t[i].job = j /\ pc \in Writing /\ \A k \in 1..(n - 1) : t[k].by = w => k = i
    <3>1. i + 1 \in DOMAIN q /\ q[i + 1].by = w /\ t[i] = q[i + 1]
      BY <1>1, <1>2, <2>1
    <3>2. \A k \in 1..(n - 1) : t[k].by = w => k + 1 = i + 1
      BY <1>1, <1>2, <3>1 DEF OwnOf
    <3> QED BY <1>2, <3>1, <3>2 DEF OwnOf
  <2> QED BY <1>1, <2>1 DEF OwnOf
<1>4. ASSUME q[1].by = w PROVE HandsOff(t, w) /\ q[1].job = j
  <2>1. \A i \in 1..(n - 1) : q[i + 1].by # w
    BY <1>1, <1>2, <1>4 DEF OwnOf
  <2> QED BY <1>1, <1>2, <1>4, <2>1 DEF OwnOf, HandsOff
<1> QED BY <1>1, <1>3, <1>4 DEF t

\* A cancelled worker awaits nothing any more; the others are not disturbed.
LEMMA OwnOrphaned ==
    ASSUME dbq \in Seq(Entry), NEW w \in Workers, NEW rest \in Orphaned(w),
           OwnOf(dbq, w, wjob[w], wpc[w])
    PROVE  /\ HandsOff(rest, w)
           /\ \A v \in Workers : \A j, pc : OwnOf(dbq, v, j, pc) => OwnOf(rest, v, j, pc)
<1> DEFINE n == Len(dbq)
<1>1. n \in Nat /\ DOMAIN dbq = 1..n /\ "other" \notin Workers
  BY WorkersAssumption
<1>2. CASE rest = [i \in 1..n |-> IF dbq[i].by = w THEN Write(dbq[i].job, dbq[i].row, "other")
                                  ELSE dbq[i]]
  <2>1. /\ DOMAIN rest = 1..n
        /\ \A i \in 1..n : /\ rest[i].job = dbq[i].job
                           /\ rest[i].by = IF dbq[i].by = w THEN "other" ELSE dbq[i].by
    BY <1>2 DEF Write
  <2> HIDE DEF n
  <2> QED BY <1>1, <2>1 DEF OwnOf, HandsOff
<1>3. ASSUME NEW k \in 1..n, dbq[k].by = w,
             rest = [i \in 1..(n - 1) |-> IF i < k THEN dbq[i] ELSE dbq[i + 1]]
      PROVE  /\ HandsOff(rest, w)
             /\ \A v \in Workers : \A j, pc : OwnOf(dbq, v, j, pc) => OwnOf(rest, v, j, pc)
  <2> DEFINE at(i) == IF i < k THEN i ELSE i + 1
  <2> HIDE DEF n
  <2>1. /\ DOMAIN rest = 1..(n - 1)
        /\ \A i \in 1..(n - 1) : at(i) \in 1..n /\ at(i) # k /\ rest[i] = dbq[at(i)]
        /\ \A i, m \in 1..(n - 1) : at(i) = at(m) => i = m
    BY <1>1, <1>3
  <2> HIDE DEF at
  <2>2. HandsOff(rest, w)
    BY <1>1, <1>3, <2>1 DEF OwnOf, HandsOff
  <2>3. ASSUME NEW v \in Workers, NEW j, NEW pc, OwnOf(dbq, v, j, pc) PROVE OwnOf(rest, v, j, pc)
    BY <1>1, <2>1, <2>3 DEF OwnOf
  <2> QED BY <2>2, <2>3
<1> QED BY <1>1, <1>2, <1>3 DEF Orphaned

\* A write that is done: its awaiter, if it is a worker, has no other.
LEMMA OwnStored ==
    ASSUME TypeOK, Own, dbq # <<>>
    PROVE  /\ Tail(dbq) \in Seq(Entry)
           /\ \A w \in Workers : OwnOf(Tail(dbq), w, wjob[w], wpc[w])
           /\ \A w \in Workers : Woken(w) => HandsOff(Tail(dbq), w) /\ Head(dbq).job = wjob[w]
<1>1. dbq \in Seq(Entry)
  BY DEF TypeOK, Entry
<1>2. Tail(dbq) \in Seq(Entry)
  BY <1>1, WritesType
<1>3. \A w \in Workers : OwnOf(dbq, w, wjob[w], wpc[w])
  BY DEF Own
<1>4. \A w \in Workers : OwnOf(Tail(dbq), w, wjob[w], wpc[w])
  BY <1>1, <1>3, OwnTail
<1>5. \A w \in Workers : Head(dbq).by = w => HandsOff(Tail(dbq), w) /\ Head(dbq).job = wjob[w]
  BY <1>1, <1>3, OwnTail
<1> QED BY <1>2, <1>4, <1>5 DEF Woken

\* Worker w moves to pc with job j while q is in flight, none of it awaited by w:
\* it may add a write of its job.
LEMMA OwnMoves ==
    ASSUME TypeOK, NEW q \in Seq(Entry), NEW w \in Workers, HandsOff(q, w),
           \A v \in Workers : OwnOf(q, v, wjob[v], wpc[v]),
           NEW pc, NEW j, Holds(w, pc, j),
           dbq' = q \/ (pc \in Writing /\ \E row : dbq' = Append(q, Write(j, row, w)))
    PROVE  Own'
<1>1. /\ wpc' = [wpc EXCEPT ![w] = pc] /\ wjob' = [wjob EXCEPT ![w] = j]
      /\ wpc \in [Workers -> WorkerState] /\ wjob \in [Workers -> Jobs \cup {NoJob}]
  BY DEF Holds, TypeOK
<1> SUFFICES ASSUME NEW v \in Workers PROVE OwnOf(dbq', v, wjob'[v], wpc'[v])
  BY DEF Own
<1>2. OwnOf(q, v, wjob'[v], wpc'[v])
  <2>1. CASE v = w
    BY <2>1, OwnFree
  <2>2. CASE v # w
    BY <1>1, <2>2
  <2> QED BY <2>1, <2>2
<1>3. CASE dbq' = q
  BY <1>2, <1>3
<1>4. ASSUME NEW row, pc \in Writing, dbq' = Append(q, Write(j, row, w))
      PROVE  OwnOf(dbq', v, wjob'[v], wpc'[v])
  <2>1. v = w => wjob'[v] = j /\ wpc'[v] = pc
    BY <1>1
  <2> QED BY <1>2, <1>4, <2>1, OwnAppend
<1> QED BY <1>3, <1>4

LEMMA OwnRaised ==
    ASSUME TypeOK, NEW q \in Seq(Entry), NEW w \in Workers, HandsOff(q, w),
           \A v \in Workers : OwnOf(q, v, wjob[v], wpc[v]), Raised(w, q)
    PROVE  Own'
<1>1. CASE CanGo(status[wjob[w]], "failed")
  <2>1. /\ dbq' = Append(q, Write(wjob[w], "failed", w)) /\ Holds(w, "finishing", wjob[w])
    BY <1>1 DEF Raised
  <2> QED BY <2>1, OwnMoves DEF Writing
<1>2. CASE ~CanGo(status[wjob[w]], "failed")
  <2>1. dbq' = q /\ Holds(w, "dead", NoJob)
    BY <1>2 DEF Raised, Dies
  <2> QED BY <2>1, OwnMoves
<1> QED BY <1>1, <1>2

LEMMA OwnNext == IInv /\ Own /\ [Next]_vars => Own'
<1> SUFFICES ASSUME IInv, Own, [Next]_vars PROVE Own'
  OBVIOUS
<1>t. /\ TypeOK /\ dbq \in Seq(Entry) /\ {"submit", "resume", "other"} \cap Workers = {}
      /\ \A v \in Workers : OwnOf(dbq, v, wjob[v], wpc[v])
  BY WorkersAssumption DEF IInv, TypeOK, Entry, Own
<1>f. \A w \in Workers : wpc[w] \notin Writing => HandsOff(dbq, w)
  BY <1>t, OwnIdle
<1>1. CASE Client
  <2>1. PICK k \in Jobs : Submit(k) \/ Cancel(k) \/ Pause(k) \/ Resume(k) \/ Deny(k)
    BY <1>1 DEF Client
  <2>a. wjob' = wjob /\ wpc' = wpc
    BY <2>1 DEF Submit, Cancel, Pause, Resume, Deny, pool
  <2>b. \/ dbq' = Append(dbq, Write(k, "pending", "submit"))
        \/ dbq' = Append(dbq, Write(k, "cancelled", "other"))
        \/ dbq' = Append(dbq, Write(k, "waiting_approval", "other"))
        \/ dbq' = Append(dbq, Write(k, "running", "resume"))
    BY <2>1 DEF Submit, Cancel, Pause, Resume, Deny
  <2>2. \A v \in Workers : OwnOf(dbq', v, wjob[v], wpc[v])
    <3> TAKE v \in Workers
    <3>1. OwnOf(dbq, v, wjob[v], wpc[v]) /\ v # "submit" /\ v # "resume" /\ v # "other"
      BY <1>t
    <3> QED BY <1>t, <2>b, <3>1, OwnAppend
  <2> QED BY <2>a, <2>2 DEF Own
<1>2. CASE Caller
  <2>1. wjob' = wjob /\ wpc' = wpc /\ dbq # <<>> /\ dbq' = Tail(dbq)
    BY <1>2 DEF Caller, SubmitPersisted, ResumePersisted, RowPersisted, pool, Woken
  <2> QED BY <1>t, <2>1, OwnStored DEF Own
<1>3. ASSUME NEW w \in Workers, TakeNothing(w) PROVE Own'
  BY <1>3 DEF TakeNothing, pool, Own
<1>4. ASSUME NEW w \in Workers, TakeResumed(w) \/ TakeInvalid(w) PROVE Own'
  <2>1. HandsOff(dbq, w)
    BY <1>4, <1>f DEF TakeResumed, TakeInvalid, NextId, Writing
  <2>2. dbq' = dbq /\ \E pc, j : Holds(w, pc, j)
    BY <1>4 DEF TakeResumed, TakeInvalid, Dies
  <2> QED BY <1>t, <2>1, <2>2, OwnMoves
<1>5. ASSUME NEW w \in Workers, TakeQueued(w) PROVE Own'
  <2>1. HandsOff(dbq, w)
    BY <1>5, <1>f DEF TakeQueued, NextId, Writing
  <2>2. /\ dbq' = Append(dbq, Write(Head(queue), "dispatched", w))
        /\ Holds(w, "dispatching", Head(queue))
    BY <1>5 DEF TakeQueued
  <2> QED BY <1>t, <2>1, <2>2, OwnMoves DEF Writing
<1>6. ASSUME NEW w \in Workers, DispatchPersisted(w) PROVE Own'
  <2>1. /\ Tail(dbq) \in Seq(Entry) /\ HandsOff(Tail(dbq), w)
        /\ \A v \in Workers : OwnOf(Tail(dbq), v, wjob[v], wpc[v])
    BY <1>6, <1>t, OwnStored DEF DispatchPersisted, Woken
  <2>2. CASE CanGo(status[wjob[w]], "running")
    <3>1. /\ dbq' = Append(Tail(dbq), Write(wjob[w], "running", w))
          /\ Holds(w, "starting", wjob[w])
      BY <1>6, <2>2 DEF DispatchPersisted
    <3> QED BY <1>t, <2>1, <3>1, OwnMoves DEF Writing
  <2>3. CASE ~CanGo(status[wjob[w]], "running")
    BY <1>6, <1>t, <2>1, <2>3, OwnRaised DEF DispatchPersisted
  <2> QED BY <2>2, <2>3
<1>7. ASSUME NEW w \in Workers, StartPersisted(w) \/ FinishPersisted(w) \/ InterruptPersisted(w)
      PROVE  Own'
  <2>1. dbq # <<>> /\ Woken(w) /\ dbq' = Tail(dbq) /\ \E pc, j : Holds(w, pc, j)
    BY <1>7 DEF StartPersisted, FinishPersisted, InterruptPersisted, Woken
  <2> QED BY <1>t, <2>1, OwnStored, OwnMoves
<1>8. ASSUME NEW w \in Workers, Returns(w) \/ Raises(w) PROVE Own'
  <2>1. HandsOff(dbq, w)
    BY <1>8, <1>f DEF Returns, Raises, Writing
  <2>2. CASE /\ dbq' = Append(dbq, Write(wjob[w], "completed", w))
             /\ Holds(w, "finishing", wjob[w])
    BY <1>t, <2>1, <2>2, OwnMoves DEF Writing
  <2>3. CASE Raised(w, dbq)
    BY <1>t, <2>1, <2>3, OwnRaised
  <2> QED BY <1>8, <2>2, <2>3 DEF Returns, Raises
<1>9. ASSUME NEW w \in Workers, Interrupt(w) PROVE Own'
  <2>1. PICK rest \in Orphaned(w) :
          \/ /\ dbq' = Append(rest, Write(wjob[w], "failed", w))
             /\ Holds(w, "interrupted", wjob[w])
          \/ dbq' = rest /\ Holds(w, "stopped", NoJob)
    BY <1>9 DEF Interrupt
  <2>2. /\ rest \in Seq(Entry) /\ HandsOff(rest, w)
        /\ \A v \in Workers : OwnOf(rest, v, wjob[v], wpc[v])
    BY <1>t, OrphanedType, OwnOrphaned
  <2> QED BY <1>t, <2>1, <2>2, OwnMoves DEF Writing
<1>10. CASE Start \/ Exit \/ Crash
  <2>1. dbq' = <<>>
    BY <1>10 DEF Start, Exit, Crash, Gone, IInv, OutcomesAgree
  <2> QED BY <2>1 DEF Own, OwnOf
<1>11. CASE Stop \/ UNCHANGED vars
  BY <1>11 DEF Stop, vars, pool, Own
<1> QED BY <1>1, <1>2, <1>3, <1>4, <1>5, <1>6, <1>7, <1>8, <1>9, <1>10, <1>11
        DEF Next, Worker, Process

-----------------------------------------------------------------------------
(* A job whose first row is not on disk is still with its submit(), or closed. *)

OnDisk(j) ==
    db[j] = "none" =>
      /\ status[j] \in {"none", "pending"} \cup Terminal
      /\ ~Lined(queue, j) /\ ~Waits(dbq, j, "resume")
      /\ \A w \in Workers : wjob[w] # j

Rowed == losses = 0 => \A j \in Jobs : OnDisk(j)

\* The panel is down: nothing is in memory.
Down == mode = "down" => \A j \in Jobs : status[j] = "none"

LEMMA DownNext == Down /\ [Next]_vars => Down'
BY DEF Down, Next, Client, Caller, Worker, Process, Submit, Cancel, Pause, Resume, Deny,
       SubmitPersisted, ResumePersisted, RowPersisted, TakeNothing, TakeResumed, TakeQueued,
       TakeInvalid, NextId, DispatchPersisted, StartPersisted, Returns, Raises, FinishPersisted,
       Interrupt, InterruptPersisted, Start, Stop, Exit, Crash, Gone, vars

\* An orphaned write is not one a resume_job() waits for.
LEMMA OrphanNotResumed ==
    ASSUME dbq \in Seq(Entry), NEW w \in Workers, NEW rest \in Orphaned(w)
    PROVE  \A j : Waits(rest, j, "resume") => Waits(dbq, j, "resume")
<1> DEFINE n == Len(dbq)
<1>1. n \in Nat /\ DOMAIN dbq = 1..n
  OBVIOUS
<1>2. CASE rest = [i \in 1..n |-> IF dbq[i].by = w THEN Write(dbq[i].job, dbq[i].row, "other")
                                  ELSE dbq[i]]
  <2>1. /\ DOMAIN rest = 1..n
        /\ \A i \in 1..n : rest[i].job = dbq[i].job /\ rest[i].by \in {dbq[i].by, "other"}
    BY <1>2 DEF Write
  <2> HIDE DEF n
  <2> QED BY <1>1, <2>1 DEF Waits
<1>3. ASSUME NEW k \in 1..n,
             rest = [i \in 1..(n - 1) |-> IF i < k THEN dbq[i] ELSE dbq[i + 1]]
      PROVE  \A j : Waits(rest, j, "resume") => Waits(dbq, j, "resume")
  <2> DEFINE at(i) == IF i < k THEN i ELSE i + 1
  <2> HIDE DEF n
  <2>1. /\ DOMAIN rest = 1..(n - 1)
        /\ \A i \in 1..(n - 1) : at(i) \in 1..n /\ rest[i] = dbq[at(i)]
    BY <1>1, <1>3
  <2> HIDE DEF at
  <2> QED BY <1>1, <2>1 DEF Waits
<1> QED BY <1>2, <1>3 DEF Orphaned

\* What a write that is done leaves: a row that stays a row, and no new awaiter.
LEMMA RowedStored ==
    ASSUME TypeOK, dbq # <<>>, HeadStored, losses' = 0
    PROVE  /\ losses = 0 /\ Head(dbq).job \in Jobs
           /\ \A j \in Jobs : db'[j] = "none" => db[j] = "none" /\ j # Head(dbq).job
           /\ \A j, by : Waits(Tail(dbq), j, by) => Waits(dbq, j, by)
<1>1. dbq \in Seq(Entry) /\ db \in [Jobs -> Known] /\ losses \in Nat
  BY DEF TypeOK, Entry
<1>2. losses = 0 /\ db' = [db EXCEPT ![Head(dbq).job] = Head(dbq).row]
  BY <1>1 DEF HeadStored
<1>3. Head(dbq).job \in Jobs /\ Head(dbq).row # "none"
  <2>1. Head(dbq) \in Entry
    BY <1>1, WritesType
  <2> QED BY <2>1 DEF Entry, Status, Open, Terminal
<1>4. ASSUME NEW j, NEW by, Waits(Tail(dbq), j, by) PROVE Waits(dbq, j, by)
  <2>1. \A i \in DOMAIN Tail(dbq) : i + 1 \in DOMAIN dbq /\ Tail(dbq)[i] = dbq[i + 1]
    BY <1>1
  <2> QED BY <1>4, <2>1 DEF Waits
<1> QED BY <1>1, <1>2, <1>3, <1>4

LEMMA NotResumed ==
    ASSUME NEW q \in Seq(Entry), NEW j, ~Waits(q, j, "resume"), NEW k, NEW row, NEW by,
           by # "resume" \/ k # j
    PROVE  ~Waits(Append(q, Write(k, row, by)), j, "resume")
<1>1. Waits(Append(q, Write(k, row, by)), j, "resume")
        <=> Waits(q, j, "resume") \/ (j = k /\ "resume" = by)
  BY WaitsAppend
<1> QED BY <1>1

LEMMA RowedNext == IInv /\ Rowed /\ [Next]_vars => Rowed'
<1> SUFFICES ASSUME IInv, Rowed, [Next]_vars, losses' = 0, NEW j \in Jobs, db'[j] = "none"
             PROVE  /\ status'[j] \in {"none", "pending"} \cup Terminal
                    /\ ~Lined(queue', j) /\ ~Waits(dbq', j, "resume")
                    /\ \A w \in Workers : wjob'[w] # j
  BY DEF Rowed, OnDisk
<1>t. /\ TypeOK /\ status \in [Jobs -> Known] /\ queue \in Seq(Jobs) /\ losses \in Nat
      /\ dbq \in Seq(Entry) /\ db \in [Jobs -> Known] /\ wpc \in [Workers -> WorkerState]
      /\ wjob \in [Workers -> Jobs \cup {NoJob}]
      /\ \A w \in Workers : wpc[w] \in AtWork => wjob[w] \in Jobs
      /\ NoJob \notin Jobs /\ \A w \in Workers : w # "resume"
  BY JobsAssumption, WorkersAssumption DEF IInv, TypeOK, Entry
<1>o. losses = 0 /\ db[j] = "none" =>
        /\ status[j] \in {"none", "pending"} \cup Terminal
        /\ ~Lined(queue, j) /\ ~Waits(dbq, j, "resume")
        /\ \A w \in Workers : wjob[w] # j
  BY DEF Rowed, OnDisk
<1>q. queue # <<>> => Lined(queue, Head(queue)) /\ \A i : Lined(Tail(queue), i) => Lined(queue, i)
  BY <1>t, LinedTail
\* The step of a worker that writes nothing but its job's new status.
<1>r. ASSUME NEW w \in Workers, NEW q \in Seq(Entry), wjob[w] \in Jobs, Raised(w, q),
             status[j] \in {"none", "pending"} \cup Terminal,
             ~Waits(q, j, "resume"), \A v \in Workers : wjob[v] # j
      PROVE  /\ status'[j] \in {"none", "pending"} \cup Terminal
             /\ ~Waits(dbq', j, "resume") /\ \A v \in Workers : wjob'[v] # j
  <2>1. CASE CanGo(status[wjob[w]], "failed")
    <3>1. /\ status' = [status EXCEPT ![wjob[w]] = "failed"]
          /\ dbq' = Append(q, Write(wjob[w], "failed", w))
          /\ wjob' = [wjob EXCEPT ![w] = wjob[w]]
      BY <1>r, <2>1 DEF Raised, Conclude, Holds
    <3> QED BY <1>r, <1>t, <3>1, NotResumed
  <2>2. CASE ~CanGo(status[wjob[w]], "failed")
    <3>1. status' = status /\ dbq' = q /\ wjob' = [wjob EXCEPT ![w] = NoJob]
      BY <1>r, <2>2 DEF Raised, Dies, Holds
    <3> QED BY <1>r, <1>t, <3>1
  <2> QED BY <2>1, <2>2
<1>1. ASSUME NEW k \in Jobs, Submit(k) \/ Cancel(k) \/ Deny(k)
      PROVE  /\ status'[j] \in {"none", "pending"} \cup Terminal
             /\ ~Lined(queue', j) /\ ~Waits(dbq', j, "resume")
             /\ \A w \in Workers : wjob'[w] # j
  <2>1. losses = 0 /\ db[j] = "none" /\ queue' = queue /\ wjob' = wjob
    BY <1>1 DEF Submit, Cancel, Deny, bounds, pool
  <2>2. \E s \in {"pending", "cancelled"} : status' = [status EXCEPT ![k] = s]
    BY <1>1 DEF Submit, Cancel, Deny, Conclude
  <2>3. \/ dbq' = Append(dbq, Write(k, "pending", "submit"))
        \/ dbq' = Append(dbq, Write(k, "cancelled", "other"))
    BY <1>1 DEF Submit, Cancel, Deny
  <2>4. ~Waits(dbq', j, "resume")
    <3>1. CASE dbq' = Append(dbq, Write(k, "pending", "submit"))
      BY <1>t, <1>o, <2>1, <3>1, NotResumed
    <3>2. CASE dbq' = Append(dbq, Write(k, "cancelled", "other"))
      BY <1>t, <1>o, <2>1, <3>2, NotResumed
    <3> QED BY <2>3, <3>1, <3>2
  <2> QED BY <1>t, <1>o, <2>1, <2>2, <2>4 DEF Terminal
<1>2. ASSUME NEW k \in Jobs, Pause(k) \/ Resume(k)
      PROVE  /\ status'[j] \in {"none", "pending"} \cup Terminal
             /\ ~Lined(queue', j) /\ ~Waits(dbq', j, "resume")
             /\ \A w \in Workers : wjob'[w] # j
  <2>1. losses = 0 /\ db[j] = "none" /\ queue' = queue /\ wjob' = wjob
    BY <1>2 DEF Pause, Resume, bounds, pool
  <2>2. status[k] \in {"running", "waiting_approval"}
    BY <1>2 DEF Pause, Resume, CanGo, ValidTransitions, Status, Open, Terminal
  <2>3. k # j
    BY <1>o, <2>1, <2>2 DEF Terminal
  <2>4. status'[j] = status[j]
    BY <1>2, <1>t, <2>3 DEF Pause, Resume
  <2>5. \/ dbq' = Append(dbq, Write(k, "waiting_approval", "other"))
        \/ dbq' = Append(dbq, Write(k, "running", "resume"))
    BY <1>2 DEF Pause, Resume
  <2>6. ~Waits(dbq', j, "resume")
    <3>1. CASE dbq' = Append(dbq, Write(k, "waiting_approval", "other"))
      BY <1>t, <1>o, <2>1, <3>1, NotResumed
    <3>2. CASE dbq' = Append(dbq, Write(k, "running", "resume"))
      BY <1>t, <1>o, <2>1, <2>3, <3>2, NotResumed
    <3> QED BY <2>5, <3>1, <3>2
  <2> QED BY <1>o, <2>1, <2>4, <2>6
<1>s. dbq # <<>> /\ HeadStored =>
        /\ losses = 0 /\ db[j] = "none" /\ Head(dbq).job \in Jobs /\ Head(dbq).job # j
        /\ Tail(dbq) \in Seq(Entry) /\ ~Waits(Tail(dbq), j, "resume")
  BY <1>t, <1>o, RowedStored, WritesType
<1>3. CASE Caller
  <2> DEFINE h == Head(dbq).job
  <2>1. /\ losses = 0 /\ db[j] = "none" /\ h \in Jobs /\ h # j /\ ~Waits(dbq', j, "resume")
        /\ wjob' = wjob
    BY <1>3, <1>s DEF Caller, SubmitPersisted, ResumePersisted, RowPersisted, Woken, pool
  <2>2. status' = status \/ status' = [status EXCEPT ![h] = "queued"]
    BY <1>3 DEF Caller, SubmitPersisted, ResumePersisted, RowPersisted
  <2>3. queue' = queue \/ queue' = Append(queue, h)
    BY <1>3 DEF Caller, SubmitPersisted, ResumePersisted, RowPersisted
  <2> HIDE DEF h
  <2>4. ~Lined(queue', j)
    BY <1>t, <1>o, <2>1, <2>3, LinedAppend
  <2> QED BY <1>t, <1>o, <2>1, <2>2, <2>4
<1>4. ASSUME NEW w \in Workers,
             TakeNothing(w) \/ TakeResumed(w) \/ TakeInvalid(w) \/ TakeQueued(w)
      PROVE  /\ status'[j] \in {"none", "pending"} \cup Terminal
             /\ ~Lined(queue', j) /\ ~Waits(dbq', j, "resume")
             /\ \A v \in Workers : wjob'[v] # j
  <2>1. queue # <<>> /\ queue' = Tail(queue) /\ losses = 0 /\ db[j] = "none"
    BY <1>4 DEF TakeNothing, TakeResumed, TakeInvalid, TakeQueued, NextId, bounds
  <2>2. Head(queue) # j
    BY <1>o, <1>q, <2>1
  <2>3. \/ wjob' = wjob
        \/ \E k \in {Head(queue), NoJob} : wjob' = [wjob EXCEPT ![w] = k]
    BY <1>4 DEF TakeNothing, TakeResumed, TakeInvalid, TakeQueued, Dies, Holds, pool
  <2>4. status' = status \/ status' = [status EXCEPT ![Head(queue)] = "dispatched"]
    BY <1>4 DEF TakeNothing, TakeResumed, TakeInvalid, TakeQueued
  <2>5. dbq' = dbq \/ dbq' = Append(dbq, Write(Head(queue), "dispatched", w))
    BY <1>4 DEF TakeNothing, TakeResumed, TakeInvalid, TakeQueued
  <2>6. ~Waits(dbq', j, "resume")
    <3>1. CASE dbq' = dbq
      BY <1>o, <2>1, <3>1
    <3>2. CASE dbq' = Append(dbq, Write(Head(queue), "dispatched", w))
      BY <1>t, <1>o, <2>1, <3>2, NotResumed
    <3> QED BY <2>5, <3>1, <3>2
  <2>7. \A v \in Workers : wjob'[v] # j
    BY <1>t, <1>o, <2>1, <2>2, <2>3
  <2>8. status'[j] = status[j]
    BY <1>t, <2>2, <2>4
  <2> QED BY <1>o, <1>q, <2>1, <2>6, <2>7, <2>8
<1>5. ASSUME NEW w \in Workers, DispatchPersisted(w)
      PROVE  /\ status'[j] \in {"none", "pending"} \cup Terminal
             /\ ~Lined(queue', j) /\ ~Waits(dbq', j, "resume")
             /\ \A v \in Workers : wjob'[v] # j
  <2>1. /\ losses = 0 /\ db[j] = "none" /\ Tail(dbq) \in Seq(Entry) /\ wjob[w] \in Jobs
        /\ ~Waits(Tail(dbq), j, "resume") /\ queue' = queue
    BY <1>5, <1>t, <1>s DEF DispatchPersisted, Woken, AtWork
  <2>2. CASE CanGo(status[wjob[w]], "running")
    <3>1. /\ status' = [status EXCEPT ![wjob[w]] = "running"]
          /\ dbq' = Append(Tail(dbq), Write(wjob[w], "running", w))
          /\ wjob' = [wjob EXCEPT ![w] = wjob[w]]
      BY <1>5, <2>2 DEF DispatchPersisted, Holds
    <3>2. ~Waits(dbq', j, "resume")
      BY <1>t, <2>1, <3>1, NotResumed
    <3> QED BY <1>t, <1>o, <2>1, <3>1, <3>2
  <2>3. CASE ~CanGo(status[wjob[w]], "running")
    BY <1>5, <1>o, <1>r, <2>1, <2>3 DEF DispatchPersisted
  <2> QED BY <2>2, <2>3
<1>6. ASSUME NEW w \in Workers, StartPersisted(w) \/ InterruptPersisted(w) \/ FinishPersisted(w)
      PROVE  /\ status'[j] \in {"none", "pending"} \cup Terminal
             /\ ~Lined(queue', j) /\ ~Waits(dbq', j, "resume")
             /\ \A v \in Workers : wjob'[v] # j
  <2>1. /\ losses = 0 /\ db[j] = "none" /\ ~Waits(dbq', j, "resume") /\ queue' = queue
    BY <1>6, <1>s DEF StartPersisted, InterruptPersisted, FinishPersisted, Woken
  <2>2. \E k \in {wjob[w], NoJob} : wjob' = [wjob EXCEPT ![w] = k]
    BY <1>6 DEF StartPersisted, InterruptPersisted, FinishPersisted, Holds
  <2>3. status'[j] \in {status[j], "none"}
    BY <1>6 DEF StartPersisted, InterruptPersisted, FinishPersisted
  <2> QED BY <1>t, <1>o, <2>1, <2>2, <2>3
<1>7. ASSUME NEW w \in Workers, Returns(w) \/ Raises(w)
      PROVE  /\ status'[j] \in {"none", "pending"} \cup Terminal
             /\ ~Lined(queue', j) /\ ~Waits(dbq', j, "resume")
             /\ \A v \in Workers : wjob'[v] # j
  <2>1. losses = 0 /\ db[j] = "none" /\ wjob[w] \in Jobs /\ queue' = queue
    BY <1>7, <1>t DEF Returns, Raises, AtWork, bounds
  <2>2. CASE Raised(w, dbq)
    BY <1>o, <1>t, <1>r, <2>1, <2>2
  <2>3. CASE Returns(w) /\ CanGo(status[wjob[w]], "completed")
    <3>1. /\ status' = [status EXCEPT ![wjob[w]] = "completed"]
          /\ dbq' = Append(dbq, Write(wjob[w], "completed", w))
          /\ wjob' = [wjob EXCEPT ![w] = wjob[w]]
      BY <2>3 DEF Returns, Conclude, Holds
    <3>2. ~Waits(dbq', j, "resume")
      BY <1>t, <1>o, <2>1, <3>1, NotResumed
    <3> QED BY <1>t, <1>o, <2>1, <3>1, <3>2
  <2> QED BY <1>7, <2>2, <2>3 DEF Returns, Raises
<1>8. ASSUME NEW w \in Workers, Interrupt(w)
      PROVE  /\ status'[j] \in {"none", "pending"} \cup Terminal
             /\ ~Lined(queue', j) /\ ~Waits(dbq', j, "resume")
             /\ \A v \in Workers : wjob'[v] # j
  <2>1. losses = 0 /\ db[j] = "none" /\ queue' = queue
    BY <1>8 DEF Interrupt, bounds
  <2>2. PICK rest \in Orphaned(w) :
          \/ /\ wjob[w] # NoJob
             /\ status' = [status EXCEPT ![wjob[w]] = "failed"]
             /\ dbq' = Append(rest, Write(wjob[w], "failed", w))
             /\ wjob' = [wjob EXCEPT ![w] = wjob[w]]
          \/ /\ dbq' = rest /\ status' = status /\ wjob' = [wjob EXCEPT ![w] = NoJob]
    BY <1>8 DEF Interrupt, Conclude, Holds
  <2>3. rest \in Seq(Entry) /\ ~Waits(rest, j, "resume")
    BY <1>t, <1>o, <2>1, OrphanedType, OrphanNotResumed
  <2>4. ~Waits(dbq', j, "resume")
    <3>1. CASE dbq' = rest
      BY <2>3, <3>1
    <3>2. CASE dbq' = Append(rest, Write(wjob[w], "failed", w))
      BY <1>t, <2>3, <3>2, NotResumed
    <3> QED BY <2>2, <3>1, <3>2
  <2> QED BY <1>t, <1>o, <2>1, <2>2, <2>4
<1>9. CASE Start
  <2>0. FromRows(Loaded, {}) /\ losses = 0
    <3>1. losses + 1 # 0
      BY <1>t
    <3> QED BY <1>9, <3>1 DEF Start
  <2> DEFINE S == {k \in Loaded : Recovered(db[k]) = "queued"}
  <2>1. j \notin Loaded /\ db[j] = "none" /\ losses = 0
    <3>1. Loaded \subseteq Rows
      BY DEF Loaded
    <3>2. db'[j] = IF j \in Loaded /\ db[j] \in {"running", "dispatched"} THEN "queued" ELSE db[j]
      BY <2>0 DEF FromRows
    <3> QED BY <2>0, <3>1, <3>2 DEF Rows
  <2>2. S \in SUBSET Jobs /\ j \notin S
    BY <2>1 DEF Loaded, Rows
  <2>3. PICK q \in NewestFirst(S) : queue' = q
    BY <2>0 DEF FromRows
  <2>4. \A i \in DOMAIN queue' : queue'[i] \in S
    <3> HIDE DEF S
    <3> QED BY <1>t, <2>2, <2>3, QueueHoldsAll
  <2>5. status'[j] = "none" /\ wjob' = wjob /\ dbq' = dbq
    BY <1>9, <2>0, <2>1 DEF Start, FromRows
  <2> HIDE DEF S
  <2> QED BY <1>o, <2>1, <2>2, <2>4, <2>5 DEF Lined
<1>10. CASE Exit \/ Crash
  <2>1. /\ status'[j] = "none" /\ queue' = <<>> /\ dbq' = <<>>
        /\ wjob' = [w \in Workers |-> NoJob]
    BY <1>10 DEF Exit, Crash, Gone
  <2> QED BY <1>t, <2>1 DEF Lined, Waits
<1>11. CASE Stop \/ UNCHANGED vars
  BY <1>11, <1>o DEF Stop, vars, pool
<1> QED BY <1>1, <1>2, <1>3, <1>4, <1>5, <1>6, <1>7, <1>8, <1>9, <1>10, <1>11
        DEF Next, Client, Worker, Process

-----------------------------------------------------------------------------
(* The ledger's view of a job, and the steps of the ledger. *)

Live(j) == Class(IF status[j] = "none" THEN HeadingOf(dbq, db, j) ELSE status[j])
Saved(j) == Class(db[j])

\* The ledger the panel stands for, before and after a step.
LEMMA LedgerNow == Ledger!ledger = <<[j \in Jobs |-> Live(j)], [j \in Jobs |-> Saved(j)]>>
BY HeadingMeans DEF Ledger!ledger, Live, Saved

LEMMA HeadingThen == \A j : Heading(j)' = HeadingOf(dbq', db', j)
BY DEF Heading, HeadingOf

LEMMA LedgerThen == Ledger!ledger' = <<[j \in Jobs |-> Live(j)'], [j \in Jobs |-> Saved(j)']>>
BY HeadingThen DEF Ledger!ledger, Live, Saved

LEMMA ClassIs ==
    /\ Class("none") = "absent"
    /\ \A s \in Open : Class(s) = "open"
    /\ \A s \in Terminal : Class(s) = s /\ s # "open" /\ s # "absent" /\ s \in Ledger!Outcome
    /\ \A s \in Known : Class(s) \in Ledger!Outcome => s \in Terminal
    /\ \A s \in Known : s = "none" \/ s \in Open \/ s \in Terminal
BY DEF Class, Open, Terminal, Known, Status, Ledger!Outcome

LEMMA LedgerStutter ==
    ASSUME \A j \in Jobs : Live(j)' = Live(j) /\ Saved(j)' = Saved(j)
    PROVE  [Ledger!Next]_(Ledger!ledger)
<1>1. UNCHANGED Ledger!ledger
  BY LedgerNow, LedgerThen
<1> QED BY <1>1

LEMMA LedgerAccept ==
    ASSUME NEW k \in Jobs, Live(k) = "absent", Saved(k) = "absent", Live(k)' = "open",
           \A j \in Jobs : (j # k => Live(j)' = Live(j)) /\ Saved(j)' = Saved(j)
    PROVE  [Ledger!Next]_(Ledger!ledger)
<1>1. Ledger!Accept(k)
  BY HeadingMeans, HeadingThen DEF Ledger!Accept, Live, Saved
<1> QED BY <1>1 DEF Ledger!Next

LEMMA LedgerClose ==
    ASSUME NEW k \in Jobs, Live(k) = "open", NEW o \in Terminal, Live(k)' = o,
           \A j \in Jobs : (j # k => Live(j)' = Live(j)) /\ Saved(j)' = Saved(j)
    PROVE  [Ledger!Next]_(Ledger!ledger)
<1>1. Ledger!Close(k)
  BY HeadingMeans, HeadingThen DEF Ledger!Close, Live, Saved, Terminal, Ledger!Outcome
<1> QED BY <1>1 DEF Ledger!Next

LEMMA LedgerSave ==
    ASSUME NEW k \in Jobs, Live(k) # "absent", Saved(k) \notin Ledger!Outcome,
           Saved(k)' \in {"open", Live(k)},
           \A j \in Jobs : Live(j)' = Live(j) /\ (j # k => Saved(j)' = Saved(j))
    PROVE  [Ledger!Next]_(Ledger!ledger)
<1>1. Ledger!Save(k)
  BY HeadingMeans, HeadingThen DEF Ledger!Save, Live, Saved
<1> QED BY <1>1 DEF Ledger!Next

LEMMA LedgerLose ==
    ASSUME \A j \in Jobs : Live(j)' \in {Live(j), Saved(j)} /\ Saved(j)' = Saved(j)
    PROVE  [Ledger!Next]_(Ledger!ledger)
<1> DEFINE S == {j \in Jobs : Live(j)' = Saved(j)}
<1>1. S \in SUBSET Jobs /\ \A j \in Jobs : Live(j)' = IF j \in S THEN Saved(j) ELSE Live(j)
  OBVIOUS
<1> HIDE DEF S
<1>2. Ledger!Lose
  BY <1>1, HeadingMeans, HeadingThen DEF Ledger!Lose, Live, Saved
<1> QED BY <1>2 DEF Ledger!Next

-----------------------------------------------------------------------------
(* The steps of the panel, reduced to what they do to the ledger. *)

\* The writes in flight, the disk and the memory say the same of a job that has
\* a final status on its way.
LEMMA RowIsLive ==
    ASSUME IInv, NEW i \in DOMAIN dbq, dbq[i].row \in Terminal
    PROVE  Live(dbq[i].job) = dbq[i].row
<1>t. dbq \in Seq(Entry) /\ status \in [Jobs -> Known] /\ Agree(status, dbq, db)
  BY DEF IInv, TypeOK, OutcomesAgree, Entry
<1> DEFINE j == dbq[i].job
<1>1. j \in Jobs
  BY <1>t, WritesInFlight
<1>2. status[j] \in {dbq[i].row, "none"}
  BY <1>t DEF Agree
<1>3. HeadingOf(dbq, db, j) = dbq[i].row
  <2>1. PICK k \in DOMAIN dbq : dbq[k].job = j /\ \A m \in DOMAIN dbq : dbq[m].job = j => m <= k
    BY <1>t, HeadingIs
  <2>2. HeadingOf(dbq, db, j) = dbq[k].row
    BY <1>t, <2>1, HeadingIs
  <2>3. i <= k /\ dbq[i].job = dbq[k].job
    BY <2>1
  <2>4. dbq[k].row = dbq[i].row
    BY <1>t, <2>3 DEF Agree
  <2> QED BY <2>2, <2>4
<1>4. Class(dbq[i].row) = dbq[i].row /\ dbq[i].row # "none"
  BY ClassIs DEF Terminal
<1> QED BY <1>2, <1>3, <1>4 DEF Live

\* A write that is done, in a step that changes nothing else a client is told.
LEMMA LedgerStored ==
    ASSUME IInv, dbq # <<>>, HeadStored, losses' = 0, \A j \in Jobs : Live(j)' = Live(j)
    PROVE  [Ledger!Next]_(Ledger!ledger)
<1>t. /\ TypeOK /\ dbq \in Seq(Entry) /\ status \in [Jobs -> Known] /\ db \in [Jobs -> Known]
      /\ losses \in Nat /\ Agree(status, dbq, db)
  BY DEF IInv, TypeOK, OutcomesAgree, Entry
<1>0. Head(dbq) = dbq[1] /\ 1 \in DOMAIN dbq /\ Head(dbq) \in Entry
  BY <1>t, WritesType
<1>1. PICK k \in Jobs, r \in Status : k = Head(dbq).job /\ r = Head(dbq).row
  BY <1>0 DEF Entry
<1>2. db' = [db EXCEPT ![k] = r]
  BY <1>t, <1>1 DEF HeadStored
<1>3. \A j \in Jobs : j # k => Saved(j)' = Saved(j)
  BY <1>t, <1>2 DEF Saved
<1>4. Saved(k)' = Class(r)
  BY <1>t, <1>2 DEF Saved
<1>5. CASE db[k] \in Terminal
  <2>1. r = db[k]
    BY <1>0, <1>1, <1>t, <1>5 DEF Agree
  <2>2. Saved(k)' = Saved(k)
    BY <1>4, <2>1 DEF Saved
  <2> QED BY <1>3, <2>2, LedgerStutter
<1>6. CASE db[k] \notin Terminal
  <2>1. Saved(k) \notin Ledger!Outcome
    BY <1>t, <1>6, ClassIs DEF Saved
  <2>2. Saved(k)' \in {"open", Live(k)}
    <3>1. CASE r \in Terminal
      <4>1. Live(k) = r
        BY <1>0, <1>1, <3>1, RowIsLive
      <4> QED BY <1>4, <3>1, <4>1, ClassIs
    <3>2. CASE r \in Open
      BY <1>4, <3>2, ClassIs
    <3> QED BY <3>1, <3>2 DEF Status
  <2>3. Live(k) # "absent"
    <3>1. \A s \in Status : Class(s) # "absent" /\ s # "none"
      BY DEF Class, Status, Open, Terminal
    <3>2. HeadingOf(dbq, db, k) \in Status
      <4>1. PICK m \in DOMAIN dbq : dbq[m].job = k
                                    /\ \A i \in DOMAIN dbq : dbq[i].job = k => i <= m
        BY <1>0, <1>1, <1>t, HeadingIs
      <4>2. HeadingOf(dbq, db, k) = dbq[m].row
        BY <1>t, <4>1, HeadingIs
      <4>3. \A i \in DOMAIN dbq : dbq[i].row \in Status
        BY <1>t, WritesInFlight
      <4> QED BY <4>1, <4>2, <4>3
    <3>3. status[k] = "none" \/ status[k] \in Status
      BY <1>t DEF Known
    <3> QED BY <3>1, <3>2, <3>3 DEF Live
  <2> QED BY <1>3, <2>1, <2>2, <2>3, LedgerSave
<1> QED BY <1>5, <1>6

\* An open job gets another open status and a write of it.
LEMMA OpenLives ==
    ASSUME TypeOK, NEW q, SameHeading(q, db'), NEW k \in Jobs, status[k] \in Open,
           NEW s \in Open, NEW by \in Awaiters,
           status' = [status EXCEPT ![k] = s], dbq' = Append(q, Write(k, s, by))
    PROVE  \A j \in Jobs : Live(j)' = Live(j)
<1>1. status \in [Jobs -> Known] /\ s # "none" /\ status[k] # "none" /\ s \in Status
  BY DEF TypeOK, Open, Status
<1>2. \A j : HeadingOf(dbq', db', j) = IF j = k THEN s ELSE HeadingOf(q, db', j)
  BY <1>1, HeadingAppend DEF SameHeading
<1>3. Class(s) = Class(status[k])
  BY ClassIs
<1> QED BY <1>1, <1>2, <1>3 DEF Live, SameHeading

\* No new write: a job keeps its status, stays open, or is evicted.
LEMMA QuietLives ==
    ASSUME TypeOK, SameHeading(dbq', db'),
           \A j \in Jobs : \/ status'[j] = status[j]
                           \/ status[j] \in Open /\ status'[j] \in Open
                           \/ status'[j] = "none" /\ HeadingOf(dbq, db, j) = status[j]
    PROVE  \A j \in Jobs : Live(j)' = Live(j)
<1>1. \A s \in Open : s # "none" /\ Class(s) = "open"
  BY ClassIs DEF Open
<1> QED BY <1>1 DEF Live, SameHeading

\* An open job gets a final status and a write of it, behind q; q and the disk
\* say of the other jobs what they said before.
LEMMA CloseStep ==
    ASSUME TypeOK, NEW q \in Seq(Entry), NEW k \in Jobs, status[k] \in Open,
           NEW o \in Terminal, NEW by \in Awaiters,
           status' = [status EXCEPT ![k] = o], dbq' = Append(q, Write(k, o, by)),
           \A j \in Jobs : j # k => HeadingOf(q, db', j) = HeadingOf(dbq, db, j),
           \A j \in Jobs : Saved(j)' = Saved(j)
    PROVE  [Ledger!Next]_(Ledger!ledger)
<1>1. /\ status \in [Jobs -> Known] /\ o # "none" /\ o \in Status
      /\ status[k] # "none" /\ Class(status[k]) = "open" /\ Class(o) = o
  BY ClassIs DEF TypeOK, Open, Terminal, Status
<1>2. \A j : HeadingOf(dbq', db', j) = IF j = k THEN o ELSE HeadingOf(q, db', j)
  BY <1>1, HeadingAppend
<1>3. Live(k) = "open" /\ Live(k)' = o
  BY <1>1 DEF Live
<1>4. \A j \in Jobs : j # k => Live(j)' = Live(j)
  BY <1>1, <1>2 DEF Live
<1> QED BY <1>3, <1>4, LedgerClose

\* An orphaned write changes what the memory and the writes say only of the job its
\* worker held, and only if it was dropped: then the ledger has what is on disk, if
\* that job has a row there.
LEMMA OrphanedLives ==
    ASSUME IInv, Own, NEW w \in Workers, NEW rest \in Orphaned(w)
    PROVE  /\ rest \in Seq(Entry)
           /\ \A j \in Jobs : j # wjob[w] => HeadingOf(rest, db, j) = HeadingOf(dbq, db, j)
           /\ \A j \in Jobs : \/ HeadingOf(rest, db, j) \in {HeadingOf(dbq, db, j), db[j]}
                              \/ /\ HeadingOf(rest, db, j) \in Open /\ db[j] \notin Terminal
                                 /\ j = wjob[w]
<1>t. /\ TypeOK /\ dbq \in Seq(Entry) /\ db \in [Jobs -> Known] /\ Agree(status, dbq, db)
      /\ OwnOf(dbq, w, wjob[w], wpc[w])
  BY DEF IInv, TypeOK, OutcomesAgree, Entry, Own
<1>r. rest \in Seq(Entry)
  BY <1>t, OrphanedType
<1> DEFINE n == Len(dbq)
<1>1. n \in Nat /\ DOMAIN dbq = 1..n
  BY <1>t
<1>w. \A i \in DOMAIN dbq : dbq[i].row \in Status
  BY <1>t, WritesInFlight
<1>2. ASSUME DOMAIN rest = 1..n,
             \A i \in 1..n : rest[i].job = dbq[i].job /\ rest[i].row = dbq[i].row
      PROVE  \A j \in Jobs : HeadingOf(rest, db, j) = HeadingOf(dbq, db, j)
  <2> HIDE DEF n
  <2> TAKE j \in Jobs
  <2>1. CASE \A i \in DOMAIN dbq : dbq[i].job # j
    <3>1. \A i \in DOMAIN rest : rest[i].job # j
      BY <1>1, <1>2, <2>1
    <3> QED BY <1>t, <1>r, <2>1, <3>1, HeadingIs
  <2>2. ASSUME NEW i \in DOMAIN dbq, dbq[i].job = j, \A k \in DOMAIN dbq : dbq[k].job = j => k <= i
        PROVE  HeadingOf(rest, db, j) = HeadingOf(dbq, db, j)
    <3>1. HeadingOf(dbq, db, j) = dbq[i].row
      BY <1>t, <2>2, HeadingIs
    <3>2. i \in DOMAIN rest /\ rest[i].job = j /\ \A k \in DOMAIN rest : rest[k].job = j => k <= i
      BY <1>1, <1>2, <2>2
    <3>3. HeadingOf(rest, db, j) = rest[i].row
      BY <1>r, <3>2, HeadingIs
    <3> QED BY <1>1, <1>2, <3>1, <3>3
  <2> QED BY <1>t, <2>1, <2>2, HeadingIs
<1>3. ASSUME NEW k \in 1..n, dbq[k].by = w,
             rest = [i \in 1..(n - 1) |-> IF i < k THEN dbq[i] ELSE dbq[i + 1]],
             NEW j \in Jobs
      PROVE  /\ j # wjob[w] => HeadingOf(rest, db, j) = HeadingOf(dbq, db, j)
             /\ \/ HeadingOf(rest, db, j) \in {HeadingOf(dbq, db, j), db[j]}
                \/ HeadingOf(rest, db, j) \in Open /\ db[j] \notin Terminal /\ j = wjob[w]
  <2> DEFINE at(i) == IF i < k THEN i ELSE i + 1
             to(i) == IF i < k THEN i ELSE i - 1
  <2> HIDE DEF n
  <2>1. /\ DOMAIN rest = 1..(n - 1)
        /\ \A i \in 1..(n - 1) : at(i) \in 1..n /\ rest[i] = dbq[at(i)]
        /\ \A i, m \in 1..(n - 1) : at(m) <= at(i) => m <= i
        /\ \A i \in 1..n : i # k => to(i) \in 1..(n - 1) /\ at(to(i)) = i
    BY <1>1, <1>3
  <2>2. \A i, m \in 1..(n - 1) : m <= i => at(m) <= at(i)
    BY <1>1, <1>3
  <2> HIDE DEF at, to
  <2>3. dbq[k].job = wjob[w]
    BY <1>1, <1>t, <1>3 DEF OwnOf
  <2>4. CASE \A i \in DOMAIN rest : rest[i].job # j
    <3>1. HeadingOf(rest, db, j) = db[j]
      BY <1>r, <2>4, HeadingIs
    <3>2. ASSUME j # wjob[w] PROVE HeadingOf(dbq, db, j) = db[j]
      <4>1. \A i \in 1..n : dbq[i].job # j
        BY <1>1, <2>1, <2>3, <2>4, <3>2
      <4> QED BY <1>t, <1>1, <4>1, HeadingIs
    <3> QED BY <3>1, <3>2
  <2>5. ASSUME NEW i \in DOMAIN rest, rest[i].job = j,
               \A m \in DOMAIN rest : rest[m].job = j => m <= i
        PROVE  /\ j # wjob[w] => HeadingOf(rest, db, j) = HeadingOf(dbq, db, j)
               /\ \/ HeadingOf(rest, db, j) \in {HeadingOf(dbq, db, j), db[j]}
                  \/ HeadingOf(rest, db, j) \in Open /\ db[j] \notin Terminal /\ j = wjob[w]
    <3>0. rest[i] = dbq[at(i)] /\ at(i) \in DOMAIN dbq
      BY <1>1, <2>1, <2>5
    <3>1. HeadingOf(rest, db, j) = dbq[at(i)].row /\ at(i) \in DOMAIN dbq /\ dbq[at(i)].job = j
      <4>1. HeadingOf(rest, db, j) = rest[i].row
        BY <1>r, <2>5, HeadingIs
      <4> QED BY <2>5, <3>0, <4>1
    <3>2. ASSUME j # wjob[w] PROVE HeadingOf(rest, db, j) = HeadingOf(dbq, db, j)
      <4>1. \A m \in DOMAIN dbq : dbq[m].job = j => m <= at(i)
        <5> SUFFICES ASSUME NEW m \in 1..n, dbq[m].job = j PROVE m <= at(i)
          BY <1>1
        <5>1. m # k /\ to(m) \in 1..(n - 1) /\ at(to(m)) = m /\ rest[to(m)].job = j
          BY <2>1, <2>3, <3>2
        <5>2. to(m) <= i
          BY <2>1, <2>5, <5>1
        <5>3. i \in 1..(n - 1)
          BY <2>1, <2>5
        <5> QED BY <2>2, <5>1, <5>2, <5>3
      <4> QED BY <1>t, <3>1, <4>1, HeadingIs
    <3>3. CASE dbq[at(i)].row \in Terminal
      <4>1. PICK l \in DOMAIN dbq : dbq[l].job = j /\ \A m \in DOMAIN dbq : dbq[m].job = j => m <= l
        BY <1>t, <3>1, HeadingIs
      <4>2. HeadingOf(dbq, db, j) = dbq[l].row /\ at(i) <= l
        BY <1>t, <3>1, <4>1, HeadingIs
      <4>3. dbq[l].row = dbq[at(i)].row
        BY <1>t, <3>1, <3>3, <4>1, <4>2 DEF Agree
      <4> QED BY <3>1, <3>2, <4>2, <4>3
    <3>4. CASE dbq[at(i)].row \in Open
      <4>1. db[j] \notin Terminal
        BY <1>t, <3>1, <3>4 DEF Agree, Open, Terminal
      <4> QED BY <3>1, <3>2, <3>4, <4>1
    <3> QED BY <1>w, <3>0, <3>3, <3>4 DEF Status
  <2>6. \/ \A i \in DOMAIN rest : rest[i].job # j
        \/ \E i \in DOMAIN rest : rest[i].job = j /\ \A m \in DOMAIN rest : rest[m].job = j => m <= i
    BY <1>r, HeadingIs
  <2> QED BY <2>4, <2>5, <2>6
<1>4. CASE rest = [i \in 1..n |-> IF dbq[i].by = w THEN Write(dbq[i].job, dbq[i].row, "other")
                                  ELSE dbq[i]]
  <2>1. DOMAIN rest = 1..n /\ \A i \in 1..n : rest[i].job = dbq[i].job /\ rest[i].row = dbq[i].row
    BY <1>4 DEF Write
  <2>2. \A j \in Jobs : HeadingOf(rest, db, j) = HeadingOf(dbq, db, j)
    BY <1>2, <2>1
  <2> QED BY <1>r, <2>2
<1>5. \/ \E k \in 1..n : /\ dbq[k].by = w
                         /\ rest = [i \in 1..(n - 1) |-> IF i < k THEN dbq[i] ELSE dbq[i + 1]]
      \/ rest = [i \in 1..n |-> IF dbq[i].by = w THEN Write(dbq[i].job, dbq[i].row, "other")
                                ELSE dbq[i]]
  BY DEF Orphaned
<1> HIDE DEF n
<1> QED BY <1>r, <1>3, <1>4, <1>5

\* The except branch of _execute_job closes the job or leaves it as it is.
LEMMA RaisedLives ==
    ASSUME TypeOK, NEW q, SameHeading(q, db'), NEW w \in Workers, wjob[w] \in Jobs, Raised(w, q),
           \A j \in Jobs : Saved(j)' = Saved(j)
    PROVE  [Ledger!Next]_(Ledger!ledger)
<1>1. CASE CanGo(status[wjob[w]], "failed")
  <2>1. PICK k \in Jobs : k = wjob[w]
    OBVIOUS
  <2>2. /\ status' = [status EXCEPT ![k] = "failed"]
        /\ dbq' = Append(q, Write(k, "failed", w))
    BY <1>1, <2>1 DEF Raised, Conclude
  <2>3. status[k] \in Open
    BY <1>1, <2>1, OpenGoes
  <2>4. w \in Awaiters /\ "failed" \in Terminal
    BY DEF Awaiters, Terminal
  <2> QED BY <2>2, <2>3, <2>4, CloseStep DEF SameHeading
<1>2. CASE ~CanGo(status[wjob[w]], "failed")
  <2>1. dbq' = q /\ status' = status
    BY <1>2 DEF Raised
  <2>2. \A j \in Jobs : Live(j)' = Live(j)
    BY <2>1, QuietLives
  <2> QED BY <2>2, LedgerStutter
<1> QED BY <1>1, <1>2

\* What the refinement rests on.
Refining == IInv /\ Tracked /\ Own /\ Rowed /\ Down

LEMMA LedgerStep ==
    Refining /\ losses = 0 /\ losses' = 0 /\ [Next]_vars => [Ledger!Next]_(Ledger!ledger)
<1> SUFFICES ASSUME Refining, losses = 0, losses' = 0, [Next]_vars
             PROVE  [Ledger!Next]_(Ledger!ledger)
  OBVIOUS
<1>t. /\ IInv /\ TypeOK /\ status \in [Jobs -> Known] /\ queue \in Seq(Jobs) /\ losses \in Nat
      /\ dbq \in Seq(Entry) /\ db \in [Jobs -> Known]
      /\ \A w \in Workers : wpc[w] \in AtWork => wjob[w] \in Jobs
  BY DEF Refining, IInv, TypeOK, Entry
<1>s. /\ Status \subseteq Known /\ Workers \subseteq Awaiters
      /\ {"submit", "resume", "other"} \subseteq Awaiters
      /\ {"pending", "queued", "dispatched", "running", "waiting_approval"} \subseteq Open
      /\ {"completed", "failed", "cancelled"} \subseteq Terminal
  BY DEF Status, Known, Awaiters, Open, Terminal
<1>n. db' = db => SameHeading(dbq, db') /\ \A j \in Jobs : Saved(j)' = Saved(j)
  BY <1>t DEF SameHeading, Saved
<1>d. dbq # <<>> /\ HeadStored => SameHeading(Tail(dbq), db')
  BY <1>t, StoredHeading
<1>h. \A j \in Jobs : mode = "up" /\ status[j] \in Terminal => HeadingOf(dbq, db, j) = status[j]
  BY DEF Refining, Tracked, OnTrack, Terminal
\* Opening, closing and carrying on from the outside.
<1>1. ASSUME NEW k \in Jobs, Submit(k) PROVE [Ledger!Next]_(Ledger!ledger)
  <2>1. /\ status[k] = "none" /\ db[k] = "none" /\ \A i \in DOMAIN dbq : dbq[i].job # k
        /\ status' = [status EXCEPT ![k] = "pending"] /\ db' = db
        /\ dbq' = Append(dbq, Write(k, "pending", "submit"))
    BY <1>1, <1>t DEF Submit, IInv, OutcomesAgree
  <2>2. HeadingOf(dbq, db, k) = "none"
    BY <1>t, <2>1, HeadingIs
  <2>3. \A j : HeadingOf(dbq', db', j) = IF j = k THEN "pending" ELSE HeadingOf(dbq, db', j)
    BY <1>t, <1>s, <2>1, HeadingAppend DEF Status
  <2>4. Live(k) = "absent" /\ Saved(k) = "absent" /\ Live(k)' = "open"
    BY <1>t, <1>s, <2>1, <2>2, ClassIs DEF Live, Saved
  <2>5. \A j \in Jobs : (j # k => Live(j)' = Live(j)) /\ Saved(j)' = Saved(j)
    BY <1>t, <2>1, <2>3 DEF Live, Saved
  <2> QED BY <2>4, <2>5, LedgerAccept
<1>2. ASSUME NEW k \in Jobs, Cancel(k) \/ Deny(k) PROVE [Ledger!Next]_(Ledger!ledger)
  <2>1. /\ status' = [status EXCEPT ![k] = "cancelled"] /\ db' = db
        /\ dbq' = Append(dbq, Write(k, "cancelled", "other"))
    BY <1>2 DEF Cancel, Deny, Conclude
  <2>2. status[k] \in Open
    BY <1>2, <1>s, OpenGoes DEF Cancel, Deny
  <2> QED BY <1>t, <1>s, <1>n, <2>1, <2>2, CloseStep DEF SameHeading
<1>3. ASSUME NEW k \in Jobs, Pause(k) \/ Resume(k) PROVE [Ledger!Next]_(Ledger!ledger)
  <2>1. status[k] \in Open
    BY <1>3, <1>s, OpenGoes DEF Pause, Resume
  <2>2. db' = db
    BY <1>3 DEF Pause, Resume
  <2>3. CASE Pause(k)
    <3>1. /\ status' = [status EXCEPT ![k] = "waiting_approval"]
          /\ dbq' = Append(dbq, Write(k, "waiting_approval", "other"))
      BY <2>3 DEF Pause
    <3>2. \A j \in Jobs : Live(j)' = Live(j)
      BY <1>t, <1>s, <1>n, <2>1, <2>2, <3>1, OpenLives
    <3> QED BY <1>n, <2>2, <3>2, LedgerStutter
  <2>4. CASE Resume(k)
    <3>1. /\ status' = [status EXCEPT ![k] = "running"]
          /\ dbq' = Append(dbq, Write(k, "running", "resume"))
      BY <2>4 DEF Resume
    <3>2. \A j \in Jobs : Live(j)' = Live(j)
      BY <1>t, <1>s, <1>n, <2>1, <2>2, <3>1, OpenLives
    <3> QED BY <1>n, <2>2, <3>2, LedgerStutter
  <2> QED BY <1>3, <2>3, <2>4
\* The rest of submit() and resume_job().
<1>4. CASE Caller
  <2>1. dbq # <<>> /\ HeadStored /\ dbq' = Tail(dbq)
    BY <1>4 DEF Caller, SubmitPersisted, ResumePersisted, RowPersisted, Woken
  <2>2. PICK k : k = Head(dbq).job
    OBVIOUS
  <2>3. \/ CanGo(status[k], "queued") /\ status' = [status EXCEPT ![k] = "queued"]
        \/ status' = status
    BY <1>4, <2>2 DEF Caller, SubmitPersisted, ResumePersisted, RowPersisted
  <2>4. CanGo(status[k], "queued") => status[k] \in Open
    BY OpenGoes
  <2>5. \A j \in Jobs : Live(j)' = Live(j)
    BY <1>t, <1>s, <1>d, <2>1, <2>3, <2>4, QuietLives
  <2> QED BY <1>t, <2>1, <2>5, LedgerStored
\* The workers.
<1>5. ASSUME NEW w \in Workers, TakeNothing(w) \/ TakeResumed(w) \/ TakeInvalid(w)
      PROVE  [Ledger!Next]_(Ledger!ledger)
  <2>1. status' = status /\ dbq' = dbq /\ db' = db
    BY <1>5 DEF TakeNothing, TakeResumed, TakeInvalid
  <2>2. \A j \in Jobs : Live(j)' = Live(j)
    BY <1>t, <1>n, <2>1, QuietLives
  <2> QED BY <1>n, <2>1, <2>2, LedgerStutter
<1>6. ASSUME NEW w \in Workers, TakeQueued(w) PROVE [Ledger!Next]_(Ledger!ledger)
  <2>1. PICK k \in Jobs : k = Head(queue)
    BY <1>6, <1>t DEF TakeQueued, NextId
  <2>2. /\ status' = [status EXCEPT ![k] = "dispatched"] /\ db' = db
        /\ dbq' = Append(dbq, Write(k, "dispatched", w)) /\ status[k] \in Open
    BY <1>6, <2>1, OpenGoes DEF TakeQueued
  <2>3. \A j \in Jobs : Live(j)' = Live(j)
    BY <1>t, <1>s, <1>n, <2>2, OpenLives
  <2> QED BY <1>n, <2>2, <2>3, LedgerStutter
<1>7. ASSUME NEW w \in Workers, DispatchPersisted(w) PROVE [Ledger!Next]_(Ledger!ledger)
  <2>1. PICK k \in Jobs : k = wjob[w]
    BY <1>7, <1>t DEF DispatchPersisted, AtWork
  <2>2. dbq # <<>> /\ Woken(w) /\ HeadStored /\ SameHeading(Tail(dbq), db')
    BY <1>7, <1>d DEF DispatchPersisted, Woken
  <2>3. CASE CanGo(status[k], "running")
    <3>1. /\ status' = [status EXCEPT ![k] = "running"]
          /\ dbq' = Append(Tail(dbq), Write(k, "running", w)) /\ status[k] \in Open
      BY <1>7, <2>1, <2>3, OpenGoes DEF DispatchPersisted
    <3>2. \A j \in Jobs : Live(j)' = Live(j)
      BY <1>t, <1>s, <2>2, <3>1, OpenLives
    <3> QED BY <1>t, <2>2, <3>2, LedgerStored
  <2>4. CASE ~CanGo(status[k], "running")
    <3>1. Raised(w, Tail(dbq))
      BY <1>7, <2>1, <2>4 DEF DispatchPersisted
    <3>2. CASE CanGo(status[k], "failed")
      \* The row just stored says that the job is open, as the disk did before.
      <4>1. status[k] \in Open
        BY <3>2, OpenGoes
      <4>2. Head(dbq).job = k
        BY <1>t, <2>1, <2>2, OwnStored DEF Refining
      <4>3. Head(dbq) = dbq[1] /\ 1 \in DOMAIN dbq /\ Head(dbq).row \in Status
        BY <1>t, <2>2, WritesInFlight
      <4>4. Head(dbq).row \in Open
        BY <1>t, <4>1, <4>2, <4>3, OpenUnsettled DEF Unsettled, IInv, OutcomesAgree, Status
      <4>5. db[k] \in Open
        <5>1. db[k] # "none"
          BY <2>1 DEF Refining, Rowed, OnDisk
        <5>2. db[k] \notin Terminal
          BY <1>t, <4>1, OpenUnsettled DEF Unsettled, IInv, OutcomesAgree
        <5> QED BY <1>t, <5>1, <5>2 DEF Known, Status
      <4>6. db' = [db EXCEPT ![k] = Head(dbq).row]
        BY <1>t, <2>2, <4>2 DEF HeadStored
      <4>7. \A j \in Jobs : Saved(j)' = Saved(j)
        BY <1>t, <4>4, <4>5, <4>6, ClassIs DEF Saved
      <4> QED BY <1>t, <2>1, <2>2, <3>1, <4>7, RaisedLives
    <3>3. CASE ~CanGo(status[k], "failed")
      <4>1. dbq' = Tail(dbq) /\ status' = status
        BY <2>1, <3>1, <3>3 DEF Raised
      <4>2. \A j \in Jobs : Live(j)' = Live(j)
        BY <1>t, <2>2, <4>1, QuietLives
      <4> QED BY <1>t, <2>2, <4>2, LedgerStored
    <3> QED BY <3>2, <3>3
  <2> QED BY <2>3, <2>4
<1>8. ASSUME NEW w \in Workers, StartPersisted(w) \/ InterruptPersisted(w) \/ FinishPersisted(w)
      PROVE  [Ledger!Next]_(Ledger!ledger)
  <2>1. dbq # <<>> /\ HeadStored /\ dbq' = Tail(dbq)
    BY <1>8 DEF StartPersisted, InterruptPersisted, FinishPersisted, Woken
  <2>2. \/ status' = status
        \/ mode = "up" /\ status' = [j \in Jobs |-> IF j \in Evicted THEN "none" ELSE status[j]]
    BY <1>8 DEF StartPersisted, InterruptPersisted, FinishPersisted
  <2>3. \A j \in Evicted : status[j] \in Terminal
    BY DEF Evicted, Finished
  <2>4. \A j \in Jobs : Live(j)' = Live(j)
    BY <1>t, <1>d, <1>h, <2>1, <2>2, <2>3, QuietLives
  <2> QED BY <1>t, <2>1, <2>4, LedgerStored
<1>9. ASSUME NEW w \in Workers, Returns(w) \/ Raises(w) PROVE [Ledger!Next]_(Ledger!ledger)
  <2>1. PICK k \in Jobs : k = wjob[w]
    BY <1>9, <1>t DEF Returns, Raises, AtWork
  <2>2. db' = db
    BY <1>9 DEF Returns, Raises
  <2>3. CASE Raised(w, dbq)
    BY <1>t, <1>n, <2>1, <2>2, <2>3, RaisedLives
  <2>4. CASE Returns(w) /\ CanGo(status[k], "completed")
    <3>1. /\ status' = [status EXCEPT ![k] = "completed"]
          /\ dbq' = Append(dbq, Write(k, "completed", w)) /\ status[k] \in Open
      BY <2>1, <2>4, OpenGoes DEF Returns, Conclude
    <3> QED BY <1>t, <1>s, <1>n, <2>2, <3>1, CloseStep DEF SameHeading
  <2> QED BY <1>9, <2>1, <2>3, <2>4 DEF Returns, Raises
\* Stopping and crashing.
<1>10. ASSUME NEW w \in Workers, Interrupt(w) PROVE [Ledger!Next]_(Ledger!ledger)
  <2>1. PICK rest \in Orphaned(w) :
          IF wjob[w] # NoJob /\ status[wjob[w]] = "running"
          THEN /\ status' = [status EXCEPT ![wjob[w]] = "failed"]
               /\ dbq' = Append(rest, Write(wjob[w], "failed", w))
          ELSE status' = status /\ dbq' = rest
    BY <1>10 DEF Interrupt, Conclude
  <2>2. /\ rest \in Seq(Entry)
        /\ \A j \in Jobs : j # wjob[w] => HeadingOf(rest, db, j) = HeadingOf(dbq, db, j)
        /\ \A j \in Jobs : \/ HeadingOf(rest, db, j) \in {HeadingOf(dbq, db, j), db[j]}
                           \/ /\ HeadingOf(rest, db, j) \in Open /\ db[j] \notin Terminal
                              /\ j = wjob[w]
    BY <1>t, OrphanedLives DEF Refining
  <2>3. db' = db /\ wjob[w] \in Jobs \cup {NoJob}
    BY <1>10 DEF Interrupt, Refining, IInv, TypeOK
  <2>4. CASE wjob[w] # NoJob /\ status[wjob[w]] = "running"
    <3>1. PICK k \in Jobs : k = wjob[w]
      BY <2>3, <2>4
    <3>2. /\ status' = [status EXCEPT ![k] = "failed"] /\ status[k] \in Open
          /\ dbq' = Append(rest, Write(k, "failed", w))
      BY <1>s, <2>1, <2>4, <3>1
    <3> QED BY <1>t, <1>s, <1>n, <2>2, <2>3, <3>1, <3>2, CloseStep
  <2>5. CASE ~(wjob[w] # NoJob /\ status[wjob[w]] = "running")
    <3>1. status' = status /\ dbq' = rest
      BY <2>1, <2>5
    <3>2. ASSUME NEW j \in Jobs PROVE Live(j)' \in {Live(j), Saved(j)}
      <4>1. CASE HeadingOf(rest, db, j) \in {HeadingOf(dbq, db, j), db[j]} \/ status[j] # "none"
        BY <2>3, <3>1, <4>1 DEF Live, Saved
      <4>2. CASE /\ HeadingOf(rest, db, j) \in Open /\ db[j] \notin Terminal /\ j = wjob[w]
                 /\ status[j] = "none"
        <5>1. db[j] # "none"
          BY <4>2 DEF Refining, Rowed, OnDisk
        <5>2. db[j] \in Open
          BY <1>t, <4>2, <5>1 DEF Known, Status
        <5>3. Live(j)' = "open" /\ Saved(j) = "open"
          BY <2>3, <3>1, <4>2, <5>2, ClassIs DEF Live, Saved
        <5> QED BY <5>3
      <4> QED BY <2>2, <4>1, <4>2
    <3> QED BY <1>n, <2>3, <3>2, LedgerLose
  <2> QED BY <2>4, <2>5
<1>11. CASE Exit \/ Crash
  <2>1. dbq' = <<>> /\ db' = db /\ status' = [j \in Jobs |-> "none"]
    BY <1>11 DEF Exit, Crash, Gone
  <2>2. \A j \in Jobs : Live(j)' = Saved(j)
    BY <2>1, HeadingEmpty DEF Live, Saved
  <2> QED BY <1>n, <2>1, <2>2, LedgerLose
<1>12. CASE Start
  <2>1. dbq = <<>> /\ dbq' = <<>> /\ \A j \in Jobs : status[j] = "none"
    BY <1>12, <1>t DEF Start, IInv, OutcomesAgree, Refining, Down
  <2>0. PICK F \in SUBSET Loaded, lost \in SUBSET Loaded : FromRows(F, lost)
    BY <1>12, StartReads
  <2>2. ASSUME NEW j \in Jobs PROVE Live(j)' = Live(j) /\ Saved(j)' = Saved(j)
    <3>1. /\ status'[j] = IF j \in F THEN Recovered(db[j]) ELSE "none"
          /\ db'[j] = IF j \in F \ lost /\ db[j] \in {"running", "dispatched"} THEN "queued" ELSE db[j]
      BY <2>0 DEF FromRows
    <3>2. Class(db'[j]) = Class(db[j]) /\ Class(Recovered(db[j])) = Class(db[j])
      BY <1>s, <3>1, ClassIs DEF Recovered
    <3>3. Live(j) = Class(db[j])
      BY <2>1, HeadingEmpty DEF Live
    <3>4. Live(j)' = Class(db[j])
      BY <2>1, <3>1, <3>2, HeadingEmpty DEF Live
    <3> QED BY <3>2, <3>3, <3>4 DEF Saved
  <2> QED BY <2>2, LedgerStutter
<1>13. CASE Stop \/ UNCHANGED vars
  <2>1. status' = status /\ dbq' = dbq /\ db' = db
    BY <1>13 DEF Stop, vars
  <2>2. \A j \in Jobs : Live(j)' = Live(j)
    BY <1>t, <1>n, <2>1, QuietLives
  <2> QED BY <1>n, <2>1, <2>2, LedgerStutter
<1> QED BY <1>1, <1>2, <1>3, <1>4, <1>5, <1>6, <1>7, <1>8, <1>9, <1>10, <1>11, <1>12, <1>13
        DEF Next, Client, Worker, Process

LEMMA AlwaysRefining == Spec => []Refining
<1>1. Init => Own /\ Rowed /\ Down
  <2> SUFFICES ASSUME Init PROVE Own /\ Rowed /\ Down
    OBVIOUS
  <2>1. /\ dbq = <<>> /\ queue = <<>> /\ \A j \in Jobs : status[j] = "none"
        /\ \A w \in Workers : wjob[w] = NoJob
    BY DEF Init
  <2>2. DOMAIN dbq = {} /\ DOMAIN queue = {}
    BY <2>1
  <2> QED BY <2>1, <2>2, JobsAssumption DEF Own, OwnOf, Rowed, OnDisk, Lined, Waits, Down
<1>2. IInv /\ Own /\ Rowed /\ Down /\ [Next]_vars => (Own /\ Rowed /\ Down)'
  BY OwnNext, RowedNext, DownNext
<1>3. Spec => [](Own /\ Rowed /\ Down)
  BY <1>1, <1>2, Inductive, PTL DEF Spec
<1> QED BY <1>3, AlwaysTracked, Inductive, PTL DEF Refining

\* The job panel keeps what JobLedger promises: in every behaviour in which no write
\* fails, a job is accepted once and closed once, what is on disk follows what the
\* panel said and is final once it is an outcome, and a crash, a stop or a write
\* dropped with its worker loses outcomes but never alters one.
THEOREM LedgerImplemented == Spec /\ [](losses = 0) => LedgerSpec
<1>1. Init => Ledger!Init
  <2> SUFFICES ASSUME Init PROVE Ledger!Init
    OBVIOUS
  <2>1. dbq = <<>> /\ \A j \in Jobs : status[j] = "none" /\ db[j] = "none"
    BY DEF Init
  <2>2. \A j \in Jobs : Live(j) = "absent" /\ Saved(j) = "absent"
    BY <2>1, HeadingEmpty, ClassIs DEF Live, Saved
  <2> QED BY <2>2, HeadingMeans DEF Ledger!Init, Live, Saved
<1>2. Refining /\ losses = 0 /\ (losses = 0)' /\ [Next]_vars => [Ledger!Next]_(Ledger!ledger)
  BY LedgerStep
<1>3. Spec /\ [](losses = 0) => Ledger!Init /\ [][Ledger!Next]_(Ledger!ledger)
  BY <1>1, <1>2, AlwaysRefining, PTL DEF Spec
<1> QED BY <1>3 DEF LedgerSpec, Ledger!Spec
=============================================================================
