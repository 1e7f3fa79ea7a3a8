----------------------------- MODULE JobManager -----------------------------
(***************************************************************************)
(* companest/jobs.py: the job control panel.  Clients submit, cancel,      *)
(* pause and resume jobs; a pool of asyncio workers takes job ids from one *)
(* FIFO queue and runs them through the orchestrator; every change is      *)
(* written to SQLite by aiosqlite, whose single thread serves the writes   *)
(* in the order they were asked for.                                       *)
(*                                                                         *)
(* All coroutines share one event loop, so a step of the model is what a   *)
(* coroutine does between two awaits.  The awaits that matter are the      *)
(* write of a row and the orchestrator's run.  dbq holds the writes in     *)
(* flight; an action named ...Persisted takes the oldest write, makes it   *)
(* durable and runs the coroutine that awaited it up to its next await.    *)
(* (aiosqlite wakes its callers in FIFO order, and nothing but the wake-up *)
(* depends on the instant the row reached the disk.)                       *)
(*                                                                         *)
(* The process may die at any moment (Crash) or be stopped (Stop ... Exit) *)
(* and is then started again on the same database.                         *)
(***************************************************************************)
EXTENDS Integers, Sequences, FiniteSets

CONSTANTS
    Jobs,         \* the job ids submit() may draw (uuids: never reused)
    Workers,      \* the worker tasks of the pool
    NoJob,        \* a worker that holds no job
    MaxInMemory,  \* JobManager.MAX_IN_MEMORY_JOBS (500 in the code)
    LoadLimit,    \* the LIMIT of _load_jobs (1000 in the code)
    CancelFrom,   \* environment: the statuses clients cancel jobs in
    MaxPauses,    \* bound: calls of pause_for_approval
    MaxRestarts,  \* bound: crashes and stops
    MaxLosses     \* bound: writes, and loads, that fail (the error is swallowed)

Terminal == {"completed", "failed", "cancelled"}
Open     == {"pending", "queued", "dispatched", "running", "waiting_approval"}
Status   == Open \cup Terminal
\* "none": the job is not in _jobs (in memory), or has no row (on disk).
Known    == Status \cup {"none"}

ASSUME JobsAssumption    == IsFiniteSet(Jobs) /\ NoJob \notin Jobs
ASSUME WorkersAssumption == Workers \cap {"submit", "resume", "other"} = {}
ASSUME BoundsAssumption  == /\ MaxInMemory \in Nat
                            /\ LoadLimit \in Nat
                            /\ MaxPauses \in Nat
                            /\ MaxRestarts \in Nat
                            /\ MaxLosses \in Nat
                            /\ CancelFrom \subseteq Open

(* A definition whose name starts with Bad is a mutant of the definition below *)
(* it: the same code with a plausible mistake, used to see that the properties *)
(* notice.  No action of Next uses one.                                        *)

VARIABLES
    mode,       \* "down", "up", or "stopping" (inside stop())
    status,     \* _jobs: the status of each job object in memory
    created,    \* created_at of each job as a stamp; 0 before it is submitted
    completed,  \* completed_at, likewise
    clock,      \* the last stamp given out
    queue,      \* _queue: the ids waiting for a worker
    wpc,        \* where each worker task is
    wjob,       \* the job each worker holds
    dbq,        \* the writes in flight, oldest first
    db,         \* the status column of the jobs table
    pauses, restarts, losses

pool == <<wpc, wjob>>
bounds == <<pauses, restarts, losses>>
vars == <<mode, status, created, completed, clock, queue, wpc, wjob, dbq, db,
          pauses, restarts, losses>>

-----------------------------------------------------------------------------
(* The transition table and the operators built on it. *)

ValidTransitions ==
    [ pending          |-> {"queued", "cancelled"},
      queued           |-> {"dispatched", "cancelled"},
      dispatched       |-> {"running", "failed", "cancelled"},
      running          |-> {"completed", "failed", "cancelled", "waiting_approval"},
      waiting_approval |-> {"running", "cancelled"},
      completed        |-> {},
      failed           |-> {},
      cancelled        |-> {} ]

\* _transition accepts the change; otherwise it raises JobError.
CanGo(old, new) == old \in Status /\ new \in ValidTransitions[old]

\* The coroutine that waits for a write: a worker, submit(), resume_job(), or
\* one that does nothing more once the write is done.
Awaiters == Workers \cup {"submit", "resume", "other"}
Write(j, row, who) == [job |-> j, row |-> row, by |-> who]

InMemory == {j \in Jobs : status[j] # "none"}
Rows     == {j \in Jobs : db[j] # "none"}

\* The rows _load_jobs fetches: the LoadLimit newest.
Loaded == {j \in Rows :
             Cardinality({k \in Rows : created[k] > created[j]}) < LoadLimit}

\* Forgets the jobs that were dispatched but not running yet.
BadRecoveredLeavesDispatched(row) == IF row \in {"pending", "running"} THEN "queued" ELSE row
\* Retries what failed.
BadRecoveredRetries(row) ==
    IF row \in {"pending", "running", "dispatched", "failed"} THEN "queued" ELSE row

\* What start() makes of a row: interrupted and unqueued jobs are queued again.
Recovered(row) ==
    IF row \in {"pending", "running", "dispatched"} THEN "queued" ELSE row

\* Recovers the statuses, queues nothing.
BadNewestFirst(S) == {<<>>}

\* The ids in S in the order start() puts them in the queue: newest first,
\* which is the order of the rows in _jobs.
NewestFirst(S) ==
    {q \in [1..Cardinality(S) -> S] :
        \A i, k \in 1..Cardinality(S) : i < k => created[q[i]] > created[q[k]]}

\* _evict_completed_jobs: the oldest finished jobs beyond the cap.
Finished == {j \in Jobs : status[j] \in Terminal}
Evicted  == {j \in Finished :
               Cardinality({k \in Finished : completed[k] < completed[j]})
                 < Cardinality(InMemory) - MaxInMemory}

\* _persist_job for the oldest write in flight: the row is stored, or the
\* database raises and the error is only logged.
HeadStored ==
    LET e == Head(dbq) IN
      \/ db' = [db EXCEPT ![e.job] = e.row] /\ UNCHANGED losses
      \/ losses < MaxLosses /\ losses' = losses + 1 /\ UNCHANGED db

\* The oldest write in flight is one who waits for.
Woken(who) == dbq # <<>> /\ Head(dbq).by = who

-----------------------------------------------------------------------------
Init == /\ mode = "down"
        /\ status = [j \in Jobs |-> "none"]
        /\ created = [j \in Jobs |-> 0]
        /\ completed = [j \in Jobs |-> 0]
        /\ clock = 0
        /\ queue = <<>>
        /\ wpc = [w \in Workers |-> "none"]
        /\ wjob = [w \in Workers |-> NoJob]
        /\ dbq = <<>>
        /\ db = [j \in Jobs |-> "none"]
        /\ pauses = 0 /\ restarts = 0 /\ losses = 0

\* The jobs in S come back from their rows; the recovered status of those in lost
\* does not reach theirs.
FromRows(S, lost) ==
    /\ status' = [j \in Jobs |-> IF j \in S THEN Recovered(db[j]) ELSE "none"]
    /\ db' = [j \in Jobs |-> IF j \in S \ lost /\ db[j] \in {"running", "dispatched"}
                             THEN "queued" ELSE db[j]]
    /\ \E q \in NewestFirst({j \in S : Recovered(db[j]) = "queued"}) : queue' = q

(* start(): load, recover, re-queue, launch the workers.  It is awaited     *)
(* before the API serves requests and the queue is filled without an await, *)
(* so no other coroutine sees it half done.  A query that fails loads       *)
(* nothing and a write that fails leaves its row, and both are only logged. *)
Start ==
    /\ mode = "down" /\ mode' = "up"
    /\ \/ FromRows(Loaded, {}) /\ UNCHANGED losses
       \/ /\ losses < MaxLosses /\ losses' = losses + 1
          /\ \/ FromRows({}, {})
             \/ \E j \in Loaded : db[j] \in {"running", "dispatched"} /\ FromRows(Loaded, {j})
    /\ wpc' = [w \in Workers |-> "idle"]
    /\ UNCHANGED <<created, completed, clock, wjob, dbq, pauses, restarts>>

-----------------------------------------------------------------------------
(* The clients' calls. *)

\* submit(), up to the await of the first write.
Submit(j) ==
    /\ mode = "up" /\ created[j] = 0
    /\ status' = [status EXCEPT ![j] = "pending"]
    /\ clock' = clock + 1
    /\ created' = [created EXCEPT ![j] = clock + 1]
    /\ dbq' = Append(dbq, Write(j, "pending", "submit"))
    /\ UNCHANGED <<mode, completed, queue, pool, db, bounds>>

\* The rest of submit(): queue the job, or raise to the client if the job was
\* cancelled while its first row was being written.
SubmitPersisted ==
    /\ mode # "down" /\ Woken("submit") /\ HeadStored
    /\ dbq' = Tail(dbq)
    /\ LET j == Head(dbq).job IN
         IF CanGo(status[j], "queued")
         THEN /\ status' = [status EXCEPT ![j] = "queued"]
              /\ queue' = Append(queue, j)
         ELSE UNCHANGED <<status, queue>>
    /\ UNCHANGED <<mode, created, completed, clock, pool, pauses, restarts>>

\* The job gets a final status and its completed_at stamp.
Conclude(j, outcome) ==
    /\ status' = [status EXCEPT ![j] = outcome]
    /\ clock' = clock + 1
    /\ completed' = [completed EXCEPT ![j] = clock + 1]

\* Does not write the row.
BadCancel(j) ==
    /\ mode = "up" /\ status[j] \in CancelFrom
    /\ CanGo(status[j], "cancelled")
    /\ Conclude(j, "cancelled")
    /\ UNCHANGED <<mode, created, queue, pool, dbq, db, bounds>>

\* cancel_job(): only the status and the row change; the worker that may be
\* running the job is not told.
Cancel(j) ==
    /\ mode = "up" /\ status[j] \in CancelFrom
    /\ CanGo(status[j], "cancelled")
    /\ Conclude(j, "cancelled")
    /\ dbq' = Append(dbq, Write(j, "cancelled", "other"))
    /\ UNCHANGED <<mode, created, queue, pool, db, bounds>>

\* pause_for_approval().
Pause(j) ==
    /\ mode = "up" /\ pauses < MaxPauses
    /\ CanGo(status[j], "waiting_approval")
    /\ status' = [status EXCEPT ![j] = "waiting_approval"]
    /\ pauses' = pauses + 1
    /\ dbq' = Append(dbq, Write(j, "waiting_approval", "other"))
    /\ UNCHANGED <<mode, created, completed, clock, queue, pool, db, restarts, losses>>

\* resume_job(approved=True), up to the await of the write.
Resume(j) ==
    /\ mode = "up" /\ status[j] = "waiting_approval"
    /\ status' = [status EXCEPT ![j] = "running"]
    /\ dbq' = Append(dbq, Write(j, "running", "resume"))
    /\ UNCHANGED <<mode, created, completed, clock, queue, pool, db, bounds>>

\* The rest of resume_job(): the id is queued again, whatever became of the job.
ResumePersisted ==
    /\ mode # "down" /\ Woken("resume") /\ HeadStored
    /\ dbq' = Tail(dbq)
    /\ queue' = Append(queue, Head(dbq).job)
    /\ UNCHANGED <<mode, status, created, completed, clock, pool, pauses, restarts>>

\* resume_job(approved=False).
Deny(j) ==
    /\ mode = "up" /\ status[j] = "waiting_approval"
    /\ Conclude(j, "cancelled")
    /\ dbq' = Append(dbq, Write(j, "cancelled", "other"))
    /\ UNCHANGED <<mode, created, queue, pool, db, bounds>>

\* A write after which its caller changes nothing more.
RowPersisted ==
    /\ mode # "down" /\ Woken("other") /\ HeadStored
    /\ dbq' = Tail(dbq)
    /\ UNCHANGED <<mode, status, created, completed, clock, queue, pool, pauses, restarts>>

-----------------------------------------------------------------------------
(* The workers: _worker and _execute_job. *)

\* Does not note the job.
BadHolds(w, pc, j) == wpc' = [wpc EXCEPT ![w] = pc] /\ wjob' = wjob

Holds(w, pc, j) == wpc' = [wpc EXCEPT ![w] = pc] /\ wjob' = [wjob EXCEPT ![w] = j]

\* An exception leaves _worker, which catches only CancelledError: the task ends.
Dies(w) == Holds(w, "dead", NoJob)

\* Reads the next id and leaves it in the queue.
BadNextId(w) == mode = "up" /\ wpc[w] = "idle" /\ queue # <<>> /\ queue' = queue

NextId(w) == mode = "up" /\ wpc[w] = "idle" /\ queue # <<>> /\ queue' = Tail(queue)

\* An id whose job was cancelled or evicted is skipped.
TakeNothing(w) ==
    /\ NextId(w) /\ status[Head(queue)] \in {"none", "cancelled"}
    /\ UNCHANGED <<mode, status, created, completed, clock, pool, dbq, db, bounds>>

\* A resumed job is already RUNNING and goes straight to the orchestrator.
TakeResumed(w) ==
    /\ NextId(w) /\ status[Head(queue)] = "running"
    /\ Holds(w, "running", Head(queue))
    /\ UNCHANGED <<mode, status, created, completed, clock, dbq, db, bounds>>

\* A queued job is dispatched; its row is written before it runs.
TakeQueued(w) ==
    LET j == Head(queue) IN
    /\ NextId(w) /\ CanGo(status[j], "dispatched")
    /\ status' = [status EXCEPT ![j] = "dispatched"]
    /\ dbq' = Append(dbq, Write(j, "dispatched", w))
    /\ Holds(w, "dispatching", j)
    /\ UNCHANGED <<mode, created, completed, clock, db, bounds>>

\* Any other status cannot be dispatched: _transition raises outside the try.
TakeInvalid(w) ==
    /\ NextId(w) /\ status[Head(queue)] \notin {"none", "cancelled", "running"}
    /\ ~CanGo(status[Head(queue)], "dispatched")
    /\ Dies(w)
    /\ UNCHANGED <<mode, status, created, completed, clock, dbq, db, bounds>>

\* The except branch of _execute_job: the job fails, unless that transition is
\* not allowed either.  rest is what is in flight besides the new write.
Raised(w, rest) ==
    IF CanGo(status[wjob[w]], "failed")
    THEN /\ Conclude(wjob[w], "failed")
         /\ dbq' = Append(rest, Write(wjob[w], "failed", w))
         /\ Holds(w, "finishing", wjob[w])
    ELSE /\ Dies(w) /\ dbq' = rest
         /\ UNCHANGED <<status, completed, clock>>

\* The DISPATCHED row is written: the job becomes RUNNING.
DispatchPersisted(w) ==
    /\ mode = "up" /\ wpc[w] = "dispatching" /\ Woken(w) /\ HeadStored
    /\ LET j == wjob[w] IN
         IF CanGo(status[j], "running")
         THEN /\ status' = [status EXCEPT ![j] = "running"]
              /\ dbq' = Append(Tail(dbq), Write(j, "running", w))
              /\ Holds(w, "starting", j)
              /\ UNCHANGED <<completed, clock>>
         ELSE Raised(w, Tail(dbq))
    /\ UNCHANGED <<mode, created, queue, pauses, restarts>>

\* The RUNNING row is written: the orchestrator is called, without another look
\* at the job's status.
StartPersisted(w) ==
    /\ mode = "up" /\ wpc[w] = "starting" /\ Woken(w) /\ HeadStored
    /\ dbq' = Tail(dbq)
    /\ Holds(w, "running", wjob[w])
    /\ UNCHANGED <<mode, status, created, completed, clock, queue, pauses, restarts>>

\* Assigns the status without asking the table.
BadReturns(w) ==
    /\ mode = "up" /\ wpc[w] = "running"
    /\ Conclude(wjob[w], "completed")
    /\ dbq' = Append(dbq, Write(wjob[w], "completed", w))
    /\ Holds(w, "finishing", wjob[w])
    /\ UNCHANGED <<mode, created, queue, db, bounds>>

\* The orchestrator returned a result.
Returns(w) ==
    /\ mode = "up" /\ wpc[w] = "running"
    /\ LET j == wjob[w] IN
         IF CanGo(status[j], "completed")
         THEN /\ Conclude(j, "completed")
              /\ dbq' = Append(dbq, Write(j, "completed", w))
              /\ Holds(w, "finishing", j)
         ELSE Raised(w, dbq)
    /\ UNCHANGED <<mode, created, queue, db, bounds>>

\* The orchestrator raised.
Raises(w) ==
    /\ mode = "up" /\ wpc[w] = "running"
    /\ Raised(w, dbq)
    /\ UNCHANGED <<mode, created, queue, db, bounds>>

\* The final row is written: the oldest finished jobs leave the memory and the
\* worker waits for the next id.
FinishPersisted(w) ==
    /\ mode = "up" /\ wpc[w] = "finishing" /\ Woken(w) /\ HeadStored
    /\ dbq' = Tail(dbq)
    /\ status' = [j \in Jobs |-> IF j \in Evicted THEN "none" ELSE status[j]]
    /\ Holds(w, "idle", NoJob)
    /\ UNCHANGED <<mode, created, completed, clock, queue, pauses, restarts>>

-----------------------------------------------------------------------------
(* Stopping and crashing. *)

\* stop() cancels every worker task and waits for them.
Stop ==
    /\ mode = "up" /\ restarts < MaxRestarts
    /\ mode' = "stopping"
    /\ restarts' = restarts + 1
    /\ UNCHANGED <<status, created, completed, clock, queue, pool, dbq, db, pauses, losses>>

\* The write w was waiting for when it was cancelled: its commit still comes,
\* from another writer (kept), or never does (dropped, the n-th write in flight).
Orphaned(w) ==
    {[i \in 1..Len(dbq) |-> IF dbq[i].by = w THEN Write(dbq[i].job, dbq[i].row, "other")
                            ELSE dbq[i]]}
    \cup {[i \in 1..(Len(dbq) - 1) |-> IF i < n THEN dbq[i] ELSE dbq[i + 1]] :
            n \in {i \in 1..Len(dbq) : dbq[i].by = w}}

\* Marks the job FAILED whatever its status is.
BadInterrupt(w) ==
    /\ mode = "stopping" /\ wpc[w] \in {"dispatching", "starting", "running", "finishing"}
    /\ Conclude(wjob[w], "failed")
    /\ dbq' = Append(dbq, Write(wjob[w], "failed", w))
    /\ Holds(w, "interrupted", wjob[w])
    /\ UNCHANGED <<mode, created, queue, db, bounds>>

\* CancelledError reaches a worker.  A job that is RUNNING is marked FAILED and
\* written; a worker in any other state just returns.
Interrupt(w) ==
    /\ mode = "stopping"
    /\ wpc[w] \in {"idle", "dispatching", "starting", "running", "finishing"}
    /\ \E rest \in Orphaned(w) :
         IF wjob[w] # NoJob /\ status[wjob[w]] = "running"
         THEN /\ Conclude(wjob[w], "failed")
              /\ dbq' = Append(rest, Write(wjob[w], "failed", w))
              /\ Holds(w, "interrupted", wjob[w])
         ELSE /\ dbq' = rest
              /\ Holds(w, "stopped", NoJob)
              /\ UNCHANGED <<status, completed, clock>>
    /\ UNCHANGED <<mode, created, queue, db, bounds>>

InterruptPersisted(w) ==
    /\ mode = "stopping" /\ wpc[w] = "interrupted" /\ Woken(w) /\ HeadStored
    /\ dbq' = Tail(dbq)
    /\ Holds(w, "stopped", NoJob)
    /\ UNCHANGED <<mode, status, created, completed, clock, queue, pauses, restarts>>

\* The process is gone and with it all that was in memory or in flight.
Gone ==
    /\ mode' = "down"
    /\ status' = [j \in Jobs |-> "none"]
    /\ queue' = <<>> /\ dbq' = <<>>
    /\ wpc' = [w \in Workers |-> "none"]
    /\ wjob' = [w \in Workers |-> NoJob]
    /\ UNCHANGED <<created, completed, clock, db, pauses, losses>>

\* stop() ends when every worker has, or with the exception of a dead one, and
\* the process exits.
Exit ==
    /\ mode = "stopping"
    /\ (\A w \in Workers : wpc[w] = "stopped") \/ (\E w \in Workers : wpc[w] = "dead")
    /\ Gone /\ UNCHANGED restarts

Crash ==
    /\ mode # "down" /\ restarts < MaxRestarts
    /\ Gone /\ restarts' = restarts + 1

-----------------------------------------------------------------------------
Client == \E j \in Jobs : Submit(j) \/ Cancel(j) \/ Pause(j) \/ Resume(j) \/ Deny(j)
Caller == SubmitPersisted \/ ResumePersisted \/ RowPersisted
Worker(w) == \/ TakeNothing(w) \/ TakeResumed(w) \/ TakeQueued(w) \/ TakeInvalid(w)
             \/ DispatchPersisted(w) \/ StartPersisted(w)
             \/ Returns(w) \/ Raises(w) \/ FinishPersisted(w)
             \/ Interrupt(w) \/ InterruptPersisted(w)
Process == Start \/ Stop \/ Exit \/ Crash

Next == Client \/ Caller \/ (\E w \in Workers : Worker(w)) \/ Process

Spec == Init /\ [][Next]_vars

\* The event loop runs every coroutine that can run and aiosqlite serves every
\* write; the orchestrator's call ends; a stopped or crashed panel is started
\* again.  Nothing is assumed of the clients.
Fairness == /\ WF_vars(Caller)
            /\ \A w \in Workers : WF_vars(Worker(w))
            /\ WF_vars(Start) /\ WF_vars(Exit)

FairSpec == Spec /\ Fairness
-----------------------------------------------------------------------------
(* Properties. *)

WorkerState == {"none", "idle", "dispatching", "starting", "running", "finishing",
                "interrupted", "stopped", "dead"}

AtWork == {"dispatching", "starting", "running", "finishing", "interrupted"}

\* Every variable has its type; a worker at work has a job.
TypeOK ==
    /\ mode \in {"down", "up", "stopping"}
    /\ status \in [Jobs -> Known]
    /\ created \in [Jobs -> Nat]
    /\ completed \in [Jobs -> Nat]
    /\ clock \in Nat
    /\ queue \in Seq(Jobs)
    /\ wpc \in [Workers -> WorkerState]
    /\ wjob \in [Workers -> Jobs \cup {NoJob}]
    /\ dbq \in Seq([job : Jobs, row : Status, by : Awaiters])
    /\ db \in [Jobs -> Known]
    /\ pauses \in Nat /\ restarts \in Nat /\ losses \in Nat
    /\ \A w \in Workers : wpc[w] \in AtWork => wjob[w] # NoJob

Busy == {"dispatching", "starting", "running"}

\* No job is stranded: while the panel is up, whatever in memory is not finished
\* or paused has somebody who will carry it on - the submit() or resume_job() that
\* waits for its row, the queue, or a worker that is on it.  Nothing else ever
\* looks at a job again before the next restart.
NoStrandedJob ==
    mode = "up" => \A j \in Jobs :
      LET waits(who) == \E i \in DOMAIN dbq : dbq[i].job = j /\ dbq[i].by = who
          held(pcs)  == \E w \in Workers : wjob[w] = j /\ wpc[w] \in pcs
          queued     == \E i \in DOMAIN queue : queue[i] = j
      IN /\ status[j] = "pending"    => waits("submit")
         /\ status[j] = "queued"     => queued
         /\ status[j] = "dispatched" => held({"dispatching"})
         /\ status[j] = "running"    => held({"starting", "running"}) \/ queued \/ waits("resume")

\* A worker starts only a job whose final status is not on disk yet: no outcome a
\* client may have read is run again, in this life of the process or the next,
\* though a paused job is queued again while its worker still runs it.
NoClosedJobStarted ==
    [][\A w \in Workers :
         wpc[w] = "idle" /\ wpc'[w] \in Busy => db[wjob'[w]] \notin Terminal]_vars

\* A final status on disk is never rewritten: not by a slower write, not by a
\* recovery, not by a worker that outlives the cancellation of its job.
DurableOutcomeFinal ==
    [][\A j \in Jobs : db[j] \in Terminal => db'[j] = db[j]]_vars

\* Memory st, writes q in flight and disk d agree on every final status: once one
\* of them says how a job ended, whatever comes after says the same.
Agree(st, q, d) ==
    /\ \A i, k \in DOMAIN q :
          i <= k /\ q[i].job = q[k].job /\ q[i].row \in Terminal => q[k].row = q[i].row
    /\ \A i \in DOMAIN q : q[i].row \in Terminal => st[q[i].job] \in {q[i].row, "none"}
    /\ \A i \in DOMAIN q : d[q[i].job] \in Terminal => q[i].row = d[q[i].job]
    /\ \A j \in Jobs : d[j] \in Terminal => st[j] \in {d[j], "none"}

\* Why a final status on disk is final: memory, writes in flight and disk agree,
\* a job not submitted yet is nowhere, and nothing is in flight while the panel is
\* down.
OutcomesAgree ==
    /\ Agree(status, dbq, db)
    /\ \A j \in Jobs : created[j] = 0 =>
          status[j] = "none" /\ db[j] = "none" /\ \A i \in DOMAIN dbq : dbq[i].job # j
    /\ mode = "down" => dbq = <<>>

\* Once no write of a job is in flight, the disk says what the memory says, but
\* for the status "queued", which only start() writes (until a write fails).
DiskFollowsMemory ==
    mode = "up" /\ losses = 0 => \A j \in InMemory :
      (\A i \in DOMAIN dbq : dbq[i].job # j) =>
        db[j] = status[j] \/ (db[j] = "pending" /\ status[j] = "queued")

\* Two workers are never on the same job, across restarts and recoveries, as long
\* as no job was paused.
AtMostOneExecutor ==
  pauses = 0 =>
    \A v, w \in Workers : wpc[v] \in Busy /\ wpc[w] \in Busy /\ wjob[v] = wjob[w] => v = w

\* Eviction takes the oldest finished jobs, and no more of them than the cap asks.
EvictionKeepsRecent ==
    [][\A j, k \in Jobs :
         /\ mode = "up" /\ mode' = "up"
         /\ status[j] # "none" /\ status'[j] = "none"
         => /\ status[j] \in Terminal
            /\ Cardinality(InMemory') >= MaxInMemory
            /\ (status'[k] \in Terminal => completed[j] < completed[k])]_vars

\* A finished job is not run again, and is forgotten only in its turn.
FinishedJobsKept == NoClosedJobStarted /\ EvictionKeepsRecent

\* No worker task ever dies: whatever the clients do, the transitions the workers
\* ask for are in the table.
NoWorkerDies == \A w \in Workers : wpc[w] # "dead"

\* Every job whose row reached the disk gets a final status there.
EveryJobSettles == \A j \in Jobs : db[j] \in Open ~> db[j] \in Terminal
-----------------------------------------------------------------------------
(* The promise: JobLedger, with each status reduced to what a client is told. *)

Class(s) == CASE s = "none" -> "absent" [] s \in Open -> "open" [] OTHER -> s

\* The row the disk will have for j when the writes in flight are done.
Heading(j) ==
    LET mine == {i \in DOMAIN dbq : dbq[i].job = j}
    IN IF mine = {} THEN db[j]
       ELSE dbq[CHOOSE i \in mine : \A k \in mine : k <= i].row

\* An evicted job is only forgotten by the memory: the ledger still has it.
Ledger == INSTANCE JobLedger WITH
    live  <- [j \in Jobs |-> Class(IF status[j] = "none" THEN Heading(j) ELSE status[j])],
    saved <- [j \in Jobs |-> Class(db[j])]

\* Every step of the panel is a step of the ledger or invisible to it (no write fails).
LedgerSpec == Ledger!Spec
=============================================================================
