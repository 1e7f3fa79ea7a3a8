# Companest in TLA+

Companest (`companest/`, Python, one asyncio process) runs *companies* made of *teams* of LLM
agents (*Pis*).  Jobs arrive over HTTP, from schedules, or from a remote gateway; a router picks a
team; a cost gate decides whether the team may spend; the team's Pis run in some mode (default,
cascade, council, loop, collaborative, conditional); what happened is written to SQLite, to the
teams' memory files and to an event stream the web console follows.

This directory holds TLA+ models of the parts of that process whose correctness depends on
*interleavings*: several coroutines that share state across `await`s, processes that crash and
start again on what was on disk, and clients that see only some of the messages.  TLC checks the
models on small instances; TLAPS proves the most important results for every value of the constants.

All components run in one event loop.  A step of a model is therefore what one coroutine does
between two awaits that can let another coroutine change something the model keeps; a comment on the
action names the method and the await.  Everything between those awaits (guards, early returns,
updates, in the order of the code) is one action.

How to run it, from this directory:

    tlc -workers 2 -config JobManagerSafety.cfg JobManagerMC
    tlapm JobManagerProofs.tla

`PROJECT.json` lists the runs, the source lines behind every definition (`map`), the mistakes planted
in the code's model to see each property fail (`mutants`; the definitions named `Bad...` next to the
ones they replace), the hazards, the findings and the theorems.

## Inventory

Each entry: the state the component keeps; its operations; with whom it interacts; what is hard;
what makes it correct.

### Execution

**Job manager** (`jobs.py`).  Keeps `_jobs` (id to job object), `_queue`, worker tasks, the SQLite
table `jobs`.  Operations: start, stop, submit, cancel, pause, resume/deny, the worker loop, eviction.
Called by the HTTP server; calls `orchestrator.run_auto/run_team`.  Hard: every row is written with an
`await`, so cancellations, stops and crashes fall between a change in memory and its row; resumed jobs
are queued a second time; a worker that raises is gone.  Correct when an outcome is final, no accepted
job is forgotten, no job runs twice, every durable job settles.

**Cost gate** (`cost_gate.py`).  Keeps the spending log (a JSON file, the only thing that survives a
restart), one asyncio lock, the circuit breaker's samples and trip time, and the pending approvals with their
futures.  Operations: `evaluate` (under the lock: company cap, breaker, team budget and overflow pool, rolling limit
or three tiers; an escalation asks a human and waits up to 300 s *with the lock held*), `resolve_approval`,
`record_spending`, the breaker's trip and reset.  Called by `orchestrator.run_team` before a run (evaluate)
and after it (record), and by the HTTP endpoints.  Hard: evaluate-then-record is not atomic, the answer races the
timeout and the cancellation of the call, a restart forgets who was asked.  Correct when what was put to the
user runs only with consent, approved spending respects the budgets (how far it can exceed them is known),
every call is decided, and no approval stays open for a call that is gone.

**Orchestrator** (`orchestrator.py`) and **team registry** (`team.py`).  Registry: configurations,
cached instances, active counts, last-used times, meta-team set.  Operations: register, unregister (company),
get_or_create, acquire/release, evict_idle, reload.  Orchestrator: `run_team` (get_or_create, cost gate,
acquire, run, record, release), `apply_company`, teardown.  Hard: the instance is fetched before the cost
gate's await and marked active after it.  Correct when a team in use is not evicted or unregistered.

**Router** (`router.py`), **cascade** (`cascade.py`), **modes** (`modes/*`), **multi-team runs**
(`multi_team.py`), **Pi** (`pi.py`), **LiteLLM/output/model routing** (`litellm_client.py`,
`output.py`, `model_routing.py`).  Router: bindings, explicit tag, LLM answer, keyword fallback, and a
prompt cache.  Cascade: model order per Pi and a metrics file.  Pi: the SDK back-off and the user context
of the current run.  Hard: a shared Pi object used by concurrent runs, files loaded and saved across
awaits, allowed teams computed before the LLM is asked.

### Time

**System scheduler** (`scheduler.py`), **user scheduler** (`user_scheduler.py`), **background
manager** (`background.py`), **CEO engine** (`ceo_engine.py`).  System scheduler: named periodic tasks,
one loop each, overlap guard.  User scheduler: jobs in SQLite and in APScheduler.  Hard: tasks added
or replaced while running, a row written before its timer exists, restart with due jobs.

**Company registry** (`company.py`).  Keeps configurations, file times and bindings.  Changed by the HTTP
handlers (POST, PATCH, DELETE, bind), by the admin page, and on disk by editors and the command line; a 30 s
watcher in the orchestrator compares file times, tears every company down and sets the enabled ones up
again.  A setup creates eight things (private teams, bindings, MCP servers, schedules, CEO, CEO task, memory paths, sinks) in four
other components.  Hard: what needs a teardown is guessed from what exists; some writers save without
applying; schedulers that already run.  Correct when what runs is what the registry says and the
registry ends up with what is on disk.

**Canary** (`canary.py`) and **evolution** (`evolution.py`).  A deployment state machine, kept in one file that is
written at each stage: start with a snapshot, health checks, promote, roll back.  Hard: stages that are left
by a crash, rollbacks that look at no stage.  Correct when what was there before can be had back until it is promoted.

### Memory

**Memory manager** (`memory/manager.py`), **backends** (`memory/backend.py`, `qdrant_backend.py`,
`viking_backend.py`), **search** (`search.py`), **S3 sync** (`s3_sync.py`), **dreamer**
(`memory/dreamer.py`), **archiver** (`archiver.py`), **workspace and git** (`workspace.py`,
`git_tools.py`).  Files per team, an index file, an archive, a prompt cache, an evidence cache.  The
dreamer rescoring, compacting and collecting entries awaits an LLM between reading the index and
writing it.  Hard: two-file writes, snapshot and restore over concurrent writers.

**Public knowledge** (`public_knowledge/*`) and **digests** (`digests/*`).  Documents and an index in
S3; idempotent ingest.  Hard: read-modify-write of one index object, partial failure, idempotency kept in
memory only.

### Edges

**HTTP server and event stream** (`server.py`, `event_store.py`, `events.py`,
`console/src/lib/realtime.tsx`).  Sequence numbers, history, one bounded queue per WebSocket, a client
that reconnects and asks for what it missed.  Hard: overflow, reconnection, fetches that overtake each
other, restart of the server.

**Master connection** (`master.py`) and **gateway client** (`client.py`).  Requests from a remote
gateway, deduplication window, concurrency and rate limits, reconnection.

**Configuration watcher** (`watcher.py`).  Polls or is notified of file changes, validates, swaps.

**Feeds** (`feeds.py`), **tools** (`tools.py`).  A per-source minimum interval and a TTL cache; the tools
of the agents.

**Application and configuration** (`app.py`, `admin.py`, `cli.py`, `config.py`, `parser.py`,
`templates.py`, `utils.py`, `component.py`, `exceptions.py`), the console's pages, `scripts/`, `infra/`,
`deploy/`: start-up, formatting, parsing and presentation.

## Modules

| Module | Code | Composes / refines | Question |
|--------|------|--------------------|----------|
| `JobManager` | jobs.py | implements `JobLedger` | are outcomes final, is no job lost, run twice or stranded? |
| `CostGate` | cost_gate.py, run_team | - | do approvals, timeouts and budgets hold under concurrent evaluations? |
| `TeamRegistry` | team.py, run_team | - | is a team in use ever evicted or unregistered? |
| `CompanyRuntime` | company.py, orchestrator.py, scheduler's table | extends `TeamRegistry` and implements its specification | does what runs follow what is registered and what is on disk? |
| `MemoryStore` | memory/manager.py | operators from store to store | what does one operation do to the files? |
| `TeamMemory` | manager.py, dreamer.py | extends `MemoryStore` | is a written entry ever lost, is a prompt ever old? |
| `MemorySearch` | memory/search.py | extends `MemoryStore`, pure operators | what does a search find, what fits a prompt? |
| `MemoryBackends` | qdrant_backend.py, s3_sync.py, archiver.py | extends `MemorySearch` | do the copies follow the files? |
| `Canary`, `Evolution` | canary.py, evolution.py | `Canary` uses `MemoryStore` | is a promise to promote or roll back kept, is an observation lost? |
| `PublicKnowledge`, `Digests`, `Feeds` | public_knowledge/, digests/, feeds.py | - | are documents found, deliveries stored, answers one's own? |
| `PiRun` | pi.py, cascade.py | - | what do runs that share a Pi do to each other? |
| `ExecutionModes` | modes/, multi_team.py | - | what becomes of the parts when some of them fail? |
| `TaskRouting` | router.py, run_auto, run_team | - | may the chosen teams be used, is what happened told? |
| `TaskLoops`, `UserSchedules` | scheduler.py, user_scheduler.py | - | does what is scheduled run, once, and stop when told? |
| `GatewayClient` | client.py | - | does a client know its connection and its callers? |
| `MasterConnection` | master.py, scripts/master_gateway.py | extends `GatewayClient` | are limits kept, does every request end? |
| `EventStream` | events.py, event_store.py, server.py | - | do events keep their numbers and order? |
| `ConfigWatcher` | watcher.py | - | is a change of the configuration loaded? |

Modules whose components share no state are explored in one run that picks one of them for each behaviour (`focus` in
`ServicesMC`, `ExecutionMC`, `GatewayMC`): the states are the sum of theirs and not the product, and no
interleaving that exists in the code is lost.  A run is one question of one instance; a property of such a run speaks of
the module that moves.  A few properties are conjunctions of facts that belong together, and their parts are named
definitions of their own.

Proofs are in modules of their own: `JobManagerProofs`, `CostGateProofs`, `CompanyRuntimeProofs` (with the team
registry), `MemoryStoreProofs` (what the operations on one team's memory do to its store), `TeamMemoryProofs`
and `ServicesProofs` (which both rest on it), `ExecutionProofs` (loops, users' schedules, cascades, executions
and their progress file, routing, events) and `GatewayProofs` (client and master). Every safety invariant and
every action property of the passing runs is stated by a theorem there.

What is left to do, in this order: the routing bindings, MCP servers and memory paths of a company in `CompanyRuntime`; the server
without a history in `EventStream`; the channels of `scripts/channel.py`.

## Job manager: `JobManager`, `JobLedger`

### Correspondence

| Model | Code (`companest/jobs.py`) |
|---|---|
| `status`, `created`, `completed` | the `Job` objects in `_jobs`; `"none"` = not in `_jobs`.  Time stamps are drawn from `clock`, so they are distinct and ordered |
| `queue` | `_queue`, an `asyncio.Queue` of ids |
| `wpc`, `wjob` | each `_worker` task: `idle` (at `queue.get`), `dispatching` and `starting` (awaiting the DISPATCHED / RUNNING row), `running` (awaiting the orchestrator), `finishing` (awaiting the final row), `interrupted` (its cancellation handler awaits a row), `stopped`, `dead` |
| `dbq` | the calls of `_persist_job` that have not returned: job, row, and the coroutine that awaits it |
| `db` | the `status` column of table `jobs` |
| `mode` | down, up, or inside `stop()` |

`_transition` becomes `CanGo` over `ValidTransitions`, the table copied from the code.  A row is a
snapshot taken when `_persist_job` is called.  aiosqlite serves calls in order on one thread, so writes take effect
in the order in which they were asked for; `HeadStored` makes the oldest one durable, or loses it when the
database raises (`_persist_job` logs and swallows the error).  `...Persisted` actions are that write plus the code
that runs after it up to the next await.  Cancelling a worker during `stop()` abandons its await: the row may
still be committed by another writer or never (`Orphaned`).

Clients: `Submit`/`SubmitPersisted`, `Cancel`, `Pause`, `Resume`/`ResumePersisted`, `Deny`.  Worker:
`TakeNothing`, `TakeResumed`, `TakeQueued`, `TakeInvalid`, `DispatchPersisted`, `StartPersisted`, `Returns`,
`Raises`, `FinishPersisted` (with the eviction of old finished jobs that is part of it), `Interrupt`,
`InterruptPersisted`.  Process: `Start` (load, recover and queue again), `Stop`, `Exit`, `Crash`.

A start whose query fails loads nothing and serves, and one whose write of a recovered status fails leaves the
old row; both are only logged (jobs.py:667, 631). `FromRows` has the two, one per start, and they count as
losses like any failing write.

Not modelled: results and error texts, the statistics and list queries, a manager built without an orchestrator
(used by tests only).

### Runs

| Run | Bounds | Shows |
|---|---|---|
| `jobs_safety` | 2 jobs, 2 workers, cancellation in every status, a pause, 2 crashes or stops, 1 failing write or load, one job kept in memory | no job is stranded or executed twice, memory, the writes in flight and the disk agree on outcomes and stay in step, no closed job is started again, a final status on disk is final, eviction takes the oldest finished job |
| `jobs_liveness` | 2 jobs, 2 workers, cancellation before dispatch only, 2 crashes or stops, fair | each durable job settles, and `JobLedger` is implemented |
| `jobs_cancel_running` | 1 job, 2 workers | **violated**: cancelling a running job kills its worker |

Why the bounds are enough.  Jobs interact only through the queue, the workers and the cap: two jobs and two
workers already give a job that waits while another is executed, two workers on one job (after a resumption) and
two rows of different jobs in flight, and, with one job kept in memory, a choice of which finished one to evict.  Two restarts
give a crash during recovery's aftermath.  `LoadLimit` is 1000 in the code and the number of jobs here:
with less, an old unfinished job is not recovered (`_load_jobs` reads the newest rows, finished ones included).  Nor is
the memory bounded by the cap at every moment: only a worker that finishes a job evicts, so jobs that are
cancelled or loaded by a restart stay until one does.

A paused job goes on running: `pause_for_approval` changes a status and nothing else, although its docstring
says that it pauses the job.  The model has it so (`Pause` leaves the workers alone), and the invariants hold with it.

Fairness (`FairSpec`). The event loop runs any coroutine that can run (weak fairness of each worker and of the
callers awaiting a row), the orchestrator's call ends (it has a timeout), and somebody starts the process again
(`Start`) and lets `stop()` finish. Nothing is assumed of clients. No write and no load fails in that run
(`MaxLosses = 0`): a job that a failing load left on disk waits for the next start, which nobody owes it.
`jobs_liveness` leaves out cancelling running jobs and pausing, because the first kills workers (finding) and
the second waits for a human.

### Proofs

`JobManagerProofs` proves `TypeCorrect` (`Spec => []TypeOK`), `OutcomesAlwaysAgree` and `OutcomeIsFinal`
(`Spec => DurableOutcomeFinal`), and then the rest of the safety part of `jobs_safety`
(`NothingIsStranded`, `DiskAlwaysFollows`, `OneExecutor`, `FinishedStayFinished`) and the refinement of `JobLedger`
(`LedgerImplemented`).

Finality on disk is not inductive alone: a row asked for earlier may reach the disk after a final one. The
invariant `OutcomesAgree` says why that is harmless: once memory, *any* write in flight or the disk carries a
final status of a job, everything behind it says the same. Three lemmas say what each kind of change does to it:
storing or losing the oldest write (`StoreAgrees`), a new row behind the others, and a change in memory that is
not written; every action is a combination of these. The assumptions used are the named `ASSUME`s of
`JobManager`: ids are finite and no worker is called like a caller. Nothing is assumed about bounds, the number
of failing writes or `CancelFrom`.

Four of the others have their own strengthening on top of types and `OutcomesAgree`.

- `NoStrandedJob` is inductive with the types alone, because it names for each status the hands a job can be in (`Carried`:
  a write its `submit` or `resume_job` awaits, the queue, a worker at the step of that status); every action passes a job from
  one of these hands to another, and recovery puts all it loads into the queue (`QueueHoldsAll`).
- `DiskFollowsMemory`: `Tracked`, that the last row in flight of a job, or the disk if there is none, is its memory's status
  (`HeadingOf`); only `queued` is never written.
- `AtMostOneExecutor`: while nothing was paused, no id stands twice in the queue (`Once`), no two workers hold one job
  (`OneEach`), and a job is in exactly one place with a status that fits the place (`Alone`).  A pause breaks the
  last: that is the case the property leaves out.
- `FinishedJobsKept`: completion stamps are distinct and every finished job and every final row in flight has
  one (`Stamped`), so that `Older` counts what eviction takes; and a worker starts only what is open on disk,
  *also* after a pause.
- `LedgerImplemented`: `Spec /\ [](losses = 0) => LedgerSpec`, where `losses` counts the writes and loads that
  failed. The mapping takes the status in memory (or, for a job the memory does not have, the row it is heading
  for) for what was promised and the disk for what is stored. Beyond `Tracked` it needs that each worker awaits
  at most one write (`Own`), that a job without a row on disk is still with its `submit`, or closed (`Rowed`)
  and that nothing is in memory while the process is down (`Down`). The hypothesis is not a convenience:
  `_persist_job` swallows a database error and goes on, and from then on a crash may bring back what the panel
  said was over.

Only liveness (`EveryJobSettles`) is model-checked only.

## Cost gate: `CostGate`

### Correspondence

| Model | Code (`companest/cost_gate.py`, and `run_team` in `orchestrator.py`) |
|---|---|
| `pc` | where a call of `run_team` is: `queued` at `async with _budget_lock`, `asking` in `request_approval`, `waiting` in `wait_for(future)`, `running` in the team's run, `ran` between the run and `record_spending` (the TASK_COMPLETED event is awaited there) |
| `line` | the waiters of `_budget_lock`; `Holders` is who has it: only an escalation keeps the lock over an await |
| `reason` | the branch of `_evaluate_locked` that decided |
| `open`, `answer` | the keys of `_pending` and the futures' results |
| `paid` | `spending-log.json`: the time stamp of each request's entry |
| `fed`, `tripped` | the breaker's `_samples` since its reset, `_tripped_at` |
| `now`, `restarts` | the clocks and the number of times the process was started again |

`Evaluate` is the whole of `_evaluate_locked`, in the order of its checks, up to the decision or to the await of
`request_approval`.  Prices are natural numbers and a sum of prices is the number of units in a set of priced requests
(`Spend`), so sums need no recursion and can be proved about.  The multiplier of a priority (3, 1, 1/2) is
doubled on both sides.  `Beyond` and `OverflowUsed` are `_get_overflow_usage`.

`Expire` may happen at any time while the call waits, also after the answer: in Python 3.12, which the project
requires, `wait_for` raises `TimeoutError` when its timer and the answer are handled in the same pass of the event loop.
`Cancel` stands for the gateway's own `wait_for` around `run_team` (`master.py:392`) and for stopped
schedulers and workers; `CancelIn` says where a run lets it happen.  A cancelled waiter leaves the lock's line
(asyncio does that, so `Leaves` is marked external).

Not modelled: a gate without a notifier (it rejects at once; the orchestrator never builds one), failures to write the
log (they are logged and swallowed; the effect is that of a request that was never recorded), the reports, which
only read, and the reading of `budget.json`.

### Runs

| Run | Bounds | Shows |
|---|---|---|
| `cost_safety` | approval mode, 1 company with a cap, 1 team with a budget, every priority, prices on both sides of the thresholds, 3 requests, 2 callers, 3 ticks, cancellation at every await, 1 restart | `ConsentKept`, `SpendingBounded`, `WaitersInHand` |
| `cost_post_hoc` | post-hoc mode, 3 requests, breaker with threshold 1, a window of 1 tick and a cooldown of 2, reset, cancellation of whatever is queued, asked or running, 1 restart, fair | what passes the breaker unseen in a window is bounded; each call is decided, its run recorded |

`ConsentKept` is two facts: what was put to the user runs only with consent, and what is dear runs only if it was put to
the user.  `SpendingBounded` is what the gate *does* guarantee of a company's cap and of the rolling limit.  The cap
itself does not hold: `evaluate` reads a log that a run writes only when it has ended, so requests that overlap do not see
each other, and a request alone may cross the cap too (it is checked against the price of an estimate).  The
excess is at most one dearest request for each *other* caller.  The number of callers is the job workers plus the
gateway's slots; it is the constant that makes the bound finite.  `WaitersInHand` says that the lock's line is exactly who
waits and that each open approval has a call that waits for it, or one that was cancelled while its question was being sent
(`orphaned`): `request_approval` is awaited before the `try` whose `finally` withdraws the approval, so that one stays
pending until the process restarts.  The exception is the call, not a history: an approval left by a timeout, an answer
or any other cancellation violates the property.

Why the bounds are enough.  A check reads the log once; what can go wrong is another request between its own check and
its record, so two callers show every such order and the third request shows that the excess does
not accumulate (a later check sees the earlier records).  Time runs one tick past the longest window, so entries age
out while others are in progress.  The proofs remove the bounds from the safety part.

Four places where the code differs from what one would expect are in the model and no property is about them: a *critical*
request queues for the lock behind the question about another one (`EveryRequestSettles` bounds the wait);
a call cancelled while its approval request is being sent leaves the approval open (`orphaned`, which
`OpenApprovalsAwaited` has to except); `OverTeamBudget` counts a team's own past overspending twice, so part of the
overflow pool cannot be used; and the user may consent to a cheaper model, which `run_team` never reads
(orchestrator.py:960), so that the team runs on its own model and is charged for it.

Fairness.  Weak fairness of the event loop for whoever can get the lock, for the sending of the request (the notifier's
HTTP call has a timeout), for "answered or timed out" together (`wait_for` has a timer), and for the run and its
record.  Nothing is assumed of the user or of cancellations.

### Proofs

`CostGateProofs` proves `LineIsRight`, `NothingRunsUnasked`, `OverspendIsBounded`, `LimitIsBounded`,
`SpendingIsBounded`, `ConsentIsKept` and `WaitersAreInHand` from the named assumptions of `CostGate` (finite
requests, natural amounts, at least one caller, cancellation only of calls in progress).

The inductive invariant `IInv` adds two facts nobody states in the code: at most `Callers` calls are in progress
(`CallersBounded`), and only a recorded call is paid (`PaidIsRecorded`).  The overspending bounds are stated over what is
*committed*: paid in the window or admitted and not recorded yet.  That is what makes them inductive:
`CommittedKept` shows that no action but `Evaluate` adds to it (a record moves a request from
admitted to paid), `EvaluateCommits` that an evaluation adds the one request it evaluates while at most the other
callers' are in progress, and `AdmissionBound` does the arithmetic: what was in the log plus the price fits the
cap, because the check passed; the rest is at most `Callers - 1` requests at the dearest price.  The
lemmas on `Spend` (monotonic, subadditive, bounded by the count) rest on the library's cardinality theorems.

`SpendingIsBounded` joins the two bounds.  `ConsentIsKept` adds `ReasonsHold`, that a call in progress has a
reason and one below the threshold a price below it; it assumes `AutoThreshold <= EscalateThreshold`, without which the
tiers overlap and a dear request may be let through with a notice.  `WaitersAreInHand` assumes
nothing about where calls are cancelled.

`VelocityIsBounded` proves `VelocityBounded` for a positive threshold and a window shorter than the cooldown (5
and 15 minutes by default, cost_gate.py:91). Its invariant `BreakerHolds` looks at two sets: what passed unasked
and is within the window or admitted (`Fast`, the property's), and what of it was paid after the breaker tripped
or is still admitted (`Late`). From a trip until the breaker closes the latter are at most the callers but one,
because whoever tripped it keeps a place. When the cooldown is over all that was paid before the trip is out of
the window, and the probe starts from `Late`. With a window as long as the cooldown or longer what was paid
before the trip would still count. Liveness is model-checked only.

## Companies and teams: `TeamRegistry`, `CompanyRuntime`

`TeamRegistry` is the registry alone with the calls of `run_team`; `CompanyRuntime` EXTENDS it, adds the rest of
what a company is at run time, and drives it: its handlers call the registry's methods as the code does.

### Correspondence

| Model | Code |
|---|---|
| `configs`, `cached`, `meta`, `active`, `age` | `TeamRegistry._configs`, `_instances`, `_meta_teams`, `_active_count`, `_last_used` (`team.py`); an instance is the *edition* of the team.md it was built from |
| `pc`, `want` | a call of `run_team`: between `get_or_create` and `acquire` (`gate`), between `acquire` and `release` (`running`), and its team |
| `disk` | `companies/<id>/`: what company.yaml says (valid, enabled, a CEO, schedules) and whether there are private teams, with an edition that stands for the modification time |
| `known`, `seen` | `CompanyRegistry._configs`, `_mtimes` (`company.py`) |
| `behind`, `unseen` | history only: companies saved and not applied; companies an editor changed between a handler's reading or writing the file and its look at the file's time |
| `ceo` | `orchestrator._ceo_pis` |
| `started`, `task`, `loop` | `Scheduler._started`, `_tasks`, `_running_tasks`; the edition of the description the task's lambda holds |
| `Save`, `Delete`, `Bind` | POST and PATCH, DELETE, and POST bind of `/api/companies` (`server.py`) |
| `AdminCreate` | the admin page (`admin.py`) |
| `Edit` | an editor, or the command line, which runs in another process |
| `Watch`, `Evict` | `_check_company_changes` (every 30 s), `evict_idle_teams` (every 5 min) |
| `Boot`, `Start`, `Stop` | `init_teams`, `Scheduler.start`, `Scheduler.stop` |

None of the handlers awaits anything that suspends between its first and its last change (`apply_company` and
`teardown_company` are coroutines that never suspend), so each is one action, and so is the watcher's look. An
editor is another process, though: `Scan` and `Saved` parse or write the file and *then* take its time
(company.py:234 and 236, 331 and 334), and an editor may write or remove the file in between. The registry then
has one text with the time of another and the watcher sees no difference. One such change per action is the
bound. If the directory is gone at that moment, a save fails with the company filed in memory (`SaveFails`), and
a scan keeps what it parsed. What interleaves is the calls of `run_team`, which wait at the cost gate *after*
they fetched the instance, with handlers, watcher, eviction and editors. `Reregister` is `unregister_company`
for some companies and then `scan_company_teams` for some: a handler passes it one company, the watcher all of
them.

Abstractions.  A company has one private team and one schedule (they are handled by loops without early exits), and all
its directory has one edition: a change of a team.md alone, which the watcher does not look at, is not
distinguished from a change of company.yaml.  Components registered by the program, routing bindings, company MCP
servers, memory paths and seeds, output sinks and global bindings are left out; they are set up and torn down in the same
two methods.  A schedule's run is one of the calls of the registry's model; the inside of a loop is `TaskLoops`.
The server serves while the scheduler runs (`lifespan` in `server.py` starts and stops both).

### Runs

| Run | Bounds | Shows |
|---|---|---|
| `company_safety` | 1 company with four kinds of description (everything; disabled; unreadable; the admin page's, without a CEO), present at start or not, an always-on base team, 2 calls, 3 editions, 1 reload, every tick past the idle timeout, fair | all properties below |

- `InstancesCounted` (`CountsAreRuns`, `CachedIsEvictable`): the window between fetch and count, evictions, teardowns and
  reloads in between never leave a count behind, and eviction sees every instance.
- `InstancesHeld` (`BusyInstanceKept`, `IdleInstanceDropped`): no step takes an instance from a run, and the old instance of
  a private team goes at once if nobody uses it.
- `RuntimeCurrent` (`RuntimeFollowsRegistry`, `NoStaleCeoLoop`, `OnlyRacesHide`): CEO, CEO task and private team are those of the
  registry's current description, for every order of handlers, edits and looks, and no loop of an old CEO survives.  The
  exceptions are named: `behind` (saved by the admin page or bind, which do not apply; their save records the file's
  time, so the watcher does not notice either), and configurations after a `reload()`, which forgets private teams.
  `OnlyRacesHide`: whatever differs between the registry and the disk, the next look of the watcher can tell, but for
  `unseen`, what came between a file and its time.
- `ChangesReach` (`DiskIsLoaded`, `UnusedIsEvicted`; liveness): the registry ends up with what is on disk (but
  for `unseen`, which waits for the file's next change), also after the editor broke and repaired a file, and
  what is used no more is evicted in the end (releases and fetches keep refreshing the time of use).

Five ways the code has of not following are part of the model, and no property holds that denies them.  A task
registered while the scheduler runs gets no loop (`Scheduler.add` only files it, scheduler.py:73), although
docs/release-notes-platform-readiness.md:62 says that companies can define background jobs and have them
run.  A company with schedules, without CEO and without private teams is never torn down (orchestrator.py:691).  An
old instance that was busy when its team was updated is fetched by every later call, and each use keeps it from
eviction (team.py:352).  A company.yaml that does not load never gets a time in `_mtimes`, so every look
of the watcher takes all companies down and up again (company.py:385).  And what an editor changes between a file and its time is
never seen (company.py:236, 334).

Why the bounds are enough.  The registry and the handlers treat companies independently of each other; only the watcher
touches several, and it does the same to each, so one company shows the orders.  Two calls are the least that
have one instance in use while another call fetches it.  Three editions are one that is served, one that
replaces it during a run and one that replaces that.  With `IdleLimit = 0` one tick is the idle timeout; a
longer one only adds ticks.  The proofs remove all of these bounds from the safety part.

Fairness.  The clock goes on, start-up ends, and the loops of the watcher and of eviction, which nothing
removes from the scheduler, come round.  Nothing is assumed of calls, handlers or editors: `UnusedIsEvicted` speaks
of teams no call uses any more, `DiskIsLoaded` of what is on disk from some time on.

### Proofs

`CompanyRuntimeProofs` proves, of the registry under *any* teardown and scan (`TeamSpec`), that counts are runs,
that every cached instance is evictable and that a busy instance is kept. `RuntimeDrivesTeams` shows that every
step of the runtime is a step of `TeamSpec` or leaves the registry alone, so these hold in the runtime too
(`RuntimeKeepsTeams`, `InstancesAreCounted`, `InstancesAreHeld`).

`RuntimeAlwaysFollows` (and with `CeoLoopsAreCurrent`, `RuntimeIsCurrent`) needs a stronger invariant,
`RuntimeInv`: `Matches` is the property for one company; `CeoHasItsTask` says that a CEO and its task go
together *also* for the companies that are behind, because a later handler tears them down by what exists and
not by what the registry says; `NoStaleCeoLoop` is part of it, since a task that is filed anew must not meet a
loop; `Blank` says that nothing is set up before `init_teams`. `OnlyRacesStayHidden` rests on `ToldInv`, that
what the registry has is valid and that a company nobody came in between is known as it is on disk or has
another time there (`Tellable`): an edition is written once, so every later change has a time of its own.
`SetUpMatches` is the core: what `_is_company_initialized` calls initialised covers everything a CEO company
has, so nothing old is left when the company is set up again. That it does *not* cover schedules is why a
company with schedules only is never torn down. Liveness (`ChangesReach`) is model-checked only.

## The teams' memory: `MemoryStore`, `TeamMemory`

### Correspondence

| Model | Code (`companest/memory/manager.py`, `companest/memory/dreamer.py`) |
|---|---|
| a *store* (`file`, `indexed`, `index`, `arch`, `archIndex`) | one team's directory: the entries' files, `.index.json` and what it says of each entry, `archive/` and its index |
| `file[k]`, `arch[k]` | the content of an entry as the set of facts written to it: a write puts one, an append adds one, a merged entry holds those of the entries it merges |
| `index[k]` | what decides an entry's fate: tier, importance (unscored, below, above `min_importance_to_keep`), count of accesses, whether `updated_at` is before the dreamer's cutoff |
| `dream` | each dream: the stage it awaits a model in, its copy of the index, the contents it has read and not dealt with, the latest name it made |
| `prompt` | `_prompt_cache`: a Pi's prompt, what of the memory it shows, and whose context was put in it |
| `latest`, `torn` | history only: what was last written under each key; whether an index write was lost or an old index put back |

Operations of `MemoryStore` are operators from store to store, so that a caller that performs several without an await
(the dreamer's `archive` loop, the restoration of a snapshot) is one step.  Only the dreamer awaits between
reading the memory and changing it: `StartNight`, `Score`, `Merge`, `Overview` and `StartDeep` are its steps from
one answer of the model to the next, each with everything that follows the answer (metadata, merged entry,
archive, collection, the next reading).  `DreamFails` is the `except` that puts the copied index back.
`CrashInWrite` and `CrashInMerge` end the process between the files of one operation.  The keys of merged entries have the
second as their only variable part, so the names a night may draw are few and may be drawn twice.

### Run `team_memory`

Two keys of callers, two names of nightly merges and one of a deep merge; two writes, one night, one fault (a
failed index write, a failed dream or a crash); batches of one entry, two long entries for a deep merge.  All of the
files' operations are done by every step that may do them, so these are enough for a rewrite, an append or a deletion while
either dream awaits, for both dreams at once, and for a crash between any two files.

- `NothingForgotten`: what was last written and not deleted is in the memory or the archive.  It is the promise of
  "archive, never delete"; it takes the order "archive's index, move, index" of `archive_team_memory`.
- `IndexListsFiles`: the index and the files agree, but for `torn`.
- `CachedPromptIsCurrent`: a prompt from the cache shows the memory as it is, although the dreamer and the framework write
  past whoever cached it.
- `memory_context`, **violated**: `NoForeignContext`.  The key of the cache leaves out the company's context
  that line 547 says it includes.

What the model shows besides, and no property denies.  An entry rewritten while the dreamer awaits the merge is archived
without being in the merged entry: it is kept where its readers do not look.  A failed dream puts back an index
with the old times, so the next night may collect what was used since.  An archived entry of the same key is
overwritten.  The framework's own files (progress, metrics, logs) are entries like others, and the dreamer merges and
collects them.

### Proofs

`TeamMemoryProofs`, with the lemmas about the store in `MemoryStoreProofs`, proves all three invariants of the
run, for any keys, facts, bounds and numbers of faults: `NothingIsForgotten`, `IndexIsRight`,
`CachedPromptsAreCurrent`, and the types they need (`MemoryIsTyped`).

The invariant `MemoryInv` puts them together: `Held` says of a store that what is in its directory is what was
last written and that what was last written and is not there is archived (so `arch` may hold an older entry of
the same key, but never instead of the file); `Lists` is the index. The proof follows the layers of the code.
For each helper of `MemoryStore` a lemma says that it `Keeps` a store (no file is lost, a right index stays
right) or `Takes` new entries; the dreams are compositions of helpers, so `Keeps` is shown to be transitive and
each stage is a chain of these lemmas. The dreamer's copy of the index needs no fact at all: whatever it puts
back, only `torn` and the index change. The two crashes are the cases that use the order of the writes.

## The services: `MemorySearch`, `MemoryBackends`, `Canary`, `Evolution`, `PublicKnowledge`, `Digests`, `Feeds`

They share no state, so `ServicesMC` explores them one at a time.

| Module | State and code | Actions |
|---|---|---|
| `MemorySearch` | none: pure operators over a store and the vectors (`memory/search.py`) | `Search`, `Candidates`, `Rank`, `Rankings`, `Chosen`, `Retrievals` (the snippets that fit a prompt, for each order of equal ranks) |
| `MemoryBackends` | the vectors of a collection and whether this process has used it (`qdrant_backend.py`), the last snapshot in S3 (`s3_sync.py`), the archiver's hashes and uploads (`archiver.py`) | writes through and past the backend, `Reindex`, `Recall`, snapshots and their restoration, `BackupIncremental`, restart |
| `Canary` | the list of deployments in memory and on disk, the memory of the company's CEO team (`canary.py`) | `StartCanary`, `CheckHealth`, `Promote`, `Rollback`, `CanaryRestart`, the CEO's cycles |
| `Evolution` | the cycle that runs, the proposals file (`evolution.py`) | `CycleBegins`, `SourceAnswers`, `CycleEnds`, `Decide`, a crash |
| `PublicKnowledge` | the documents' objects, the list's object, what each publisher is about (`public_knowledge/`) | `BeginPublish`, `BeginUnpublish`, `LoadIndex`, `SaveIndex`, and `SearchIndex` |
| `Digests` | the keys seen in this process, the object under each key; the key `latest` names the object of the latest (`digests/`) | `Ingest`, `DigestRestart` |
| `Feeds` | the cache, the last request of each source, each caller's step (`feeds.py`) | every fetcher, `Sends`, `Answered`, `Fails`, `FetchMultiSource` |

### Run `services`

- `CopiesFollow`: a vector is there exactly if the index lists its entry, and the backups hold what the hashes say, but for
  causes named by `strayed` (a failed call of Qdrant, a write past the backend, a removal by a process that had not
  used the collection yet) and `unsaved` (an upload that failed *after* the hashes were saved: it is not tried again).
- `RecallFits`: for every task, and in whatever order candidates of equal rank come, the snippets fit the budget
  of the prompt, name no entry twice and are no more than the limit. Words, similarities and lengths are chosen
  so that exact and semantic hits meet and a first snippet is truncated.
- `CanaryKeepsWord`: what was announced as promoted is promoted after any failure or restart (or was rolled back on purpose),
  and what counts as rolled back had all of its snapshot put back.  `rollback` looks at no stage and canaries of
  one company may overlap, so that a rollback restores what another one changed: the model has both.
- `ProposalsComplete`: every observation of a finished cycle is in exactly one proposal of its group, and what people
  decided while a cycle awaited its sources stays decided.
- `StoredAsPromised`: a document that nobody is working on is found, when it is searched for alone, exactly if
  it is stored, but for the causes the comment names: an index that could not be read, or a line of it that does
  not parse, counts as none and is written back so; other publishers; failed requests; the cap. Dates with and
  without a time zone cannot be compared: a search with both among its hits raises, and so does the save of a
  full index (`naive`, `Mixed`). An accepted digest can be read under its key and is stored once per process;
  the latest was delivered and can be read under its own key too. It need not have been accepted: a delivery
  whose second write took effect and was not acknowledged is answered with an error and is the latest. A digest
  may have the key `latest` (digests/models.py:26), whose object is the latest's own: the next delivery
  overwrites it. That the latest never goes back does not hold: after a restart a repeated delivery makes an old
  digest the latest.
- `AnswersAreOwn`: whoever asks is answered with what that source said to that query, not older than the cache
  may keep it. Hacker News is asked for its front page whatever a gathering call is about (feeds.py:787):
  `FrontPage` is the query it stands for. The base_url and token of `fetch_openbb`, which are not in its key,
  are left out: no caller in the source passes one.

Two keys, two documents more than the index may hold, one of them with a date without a zone or none, two
digests and one with the key `latest`, two canaries, two callers and two queries are the least with which a
second one comes between the two steps of a first; one or two faults, because after a fault the named exceptions
apply.

### Proofs

`ServicesProofs` proves the properties of the run for every value of the constants, each for the specification
of its own service (`BackendsSpec`, `CanarySpec`, `EvolutionSpec`, `PKSpec`, `DigestSpec`, `FeedsSpec`).
`PromisesAreKept`, `StoredStaysAsPromised` and `CanariesKeepTheirWordThere` carry them to the behaviours of
`ServicesMC`: a step of one service leaves the variables of the others alone (`StepOfOne`), so the conjunction
of the inductive invariants is one too.

- `CopiesKeepFollowing`. `CopiesFollow` is inductive with the types. It is proved in the form "all keys but
  those of a set are in step" (`InStep`), and a lemma for each operation of the store (from `MemoryStoreProofs`)
  says which keys are listed after it.
- `RecallStaysInBudget`.  Retrieval is a loop over the ranked candidates (`Chosen`).  That the recursive function which models it
  exists at all is shown by induction (`LoopExists`); `Fits` is the loop's invariant (what was
  chosen adds up to what was used, is below the limit until the loop is done, and comes from the candidates so far).
- `CanariesKeepTheirWord`, an action property. `AnnouncedStaysPromoted` needs that the saved list may lag behind
  the one in memory but has no other rollbacks (`SavedLags`): a restart then forgets steps but invents none.
  That a rollback puts its whole snapshot back is a lemma about the store (`RestoredIs`).
- `ProposalsStayComplete`. `CyclesApart` (what the running cycle was told has its number, what was reported has
  a lower one, so the new proposals share nothing with the old) and `Sorted`: the groups of one cycle part its
  observations (`GroupedIs`), and each becomes one proposal behind those there are (`SetToSeqIs`).
- `IndexStaysInSync`, `AcceptedStaysStored`: what each publisher is about, as long as it is alone with its
  document (`AloneTells`), says what holds of a document nobody is about (`DocTells`); and a digest that is not
  remembered was not stored by this process. That the latest can be read under its own key is part of the same
  invariant (`DigestHolds`): its object is written first.
- `AnswersStayOwn`: the cache's entries were said by the source in their key to the query in their key (`EntryTells`).

The assumptions are the named `ASSUME`s of the modules: keys are finite (they are names of files), lengths and limits are natural
numbers, each document has a date, no document is the word for none, and the facts are numbered by writes.  Nothing is assumed
about the numbers of publishers, callers, trials, cycles or faults.

## What a process does at the same time: `PiRun`, `ExecutionModes`, `TaskRouting`, `TaskLoops`, `UserSchedules`, `GatewayClient`, `EventStream`

`ExecutionMC` explores them one at a time.  In each the interleaving is of coroutines of one kind: runs of
one Pi, parts of one execution, tasks on their way, loops, users' calls, calls of the client, emitters and consoles.

### Correspondence

| Module | State and code | What interleaves |
|---|---|---|
| `PiRun` | `_user_context` and the SDK's back-off of one Pi (`pi.py`); the team's cascade statistics, what each run loaded of them, its chain and its place in it (`cascade.py`) | two runs of different users at every await; the agent SDK fails after its tools were used and the direct call asks again |
| `ExecutionModes` | the parts an execution asks for and how each stands, the judge's choice, `progress-<hash>.json`, the pipelines' log (`modes/`, `multi_team.py`) | parts asked for at once; two loops of one task in one team; failing and empty parts, and exceptions that no mode expects |
| `TaskRouting` | the registry's teams, what companies share, the bindings, and each task: where it is, the teams it may use, its plan, its runs and what was told of them (`router.py`, `run_auto`, `run_team`, `refresh_info_for_task`) | teams and bindings come and go while the routing model, the refresh or the cost gate is awaited; cancellation anywhere |
| `TaskLoops` | `_tasks`, `_running_tasks`, the loops, each object's `enabled` and `_executing` (`scheduler.py`) | loops, `run_now`, and operators that add, replace, enable, disable and remove while a task executes; stop |
| `UserSchedules` | the rows, APScheduler's timers, the callbacks that have not read the row and those that run (`user_scheduler.py`) | users' calls at every statement of the database, firings, the end of the process |
| `GatewayClient` | `_state`, `_ws`, the receive loop, the reconnect loop, `_pending`, `_event_queue` (`client.py`) | connect, reconnect, disconnect and calls at every await; connections cut or closed cleanly; timeouts and cancellation |
| `EventStream` | the lock and its line, the rows and how many are committed, `_event_sequence`, the subscribers' queues, the consoles' last numbers (`server.py`, `event_store.py`, `events.py`) | emitters that are cancelled or fail at either await of the store, consoles that come and go, crashes |

Pure parts are operators: `Chains`, `EffectiveChains`, `Downgrade`, `StartTier` and `ShouldSkip` of the cascade
(costs are integers, a language's penalty is counted in quarters; models of one price come in any order, so a
chain is one of a set), `BindingTeams`, `KeywordTeams` and `Decided` of the router, `FilterPerspectives` of the
council (of equal scores the first are kept). The judge is asked for scores from 1 to 10, and
`ExecutionModesAssumption` takes no score to be below zero. `ChainsClimb` compares the chain with what it is
for: the target last, nothing dearer, nothing twice, and every model the cost gate may lower the target to.

### Run `execution`

- `EscalatesBeforeSettling`, `AttemptsCounted`: an inadequate answer is given only when every model of the chain was asked,
  and the statistics count each attempt unless two cascades overlapped (then the later save loses the other's:
  `lossy`).  An *empty* answer takes the place of an earlier poor one, so a run may fail that had an answer.
- `DoneWorkSurvives`, `ProgressTells`: what was done is not lost with what failed, in each mode for its own
  reasons. Where it is lost the property names the way: a pipeline's parts build on each other, a failed
  synthesis takes a loop's or a council's parts with it (loop.py:125, council.py:170), a conditional's decision
  may raise, and a judge whose scores are not objects raises out of the council (`JudgeBreaks`; council.py:259,
  295), although tests/test_council.py:539 has a failing judge skipped. Besides, nothing is left running behind
  an answer; the progress file tells of the parts, although loops of the same task share it and the first to end
  well deletes it.
- `DecisionsHold`, `RunsAreTold`: a decision names teams that were open to the task when its routing started, and is
  told once; of a run a start and its end are told, and it is charged once if it was done and told.  Exceptions the
  code makes are part of the statement: a denied tag is not audited, an unknown mode and a cancellation leave a
  start without an end, and a record that fails leaves a warning (`unrecorded`) and perhaps no charge.
- `SchedulesInHand`: a task is never executed twice at once, its flag is set exactly while it executes, and
  every loop that was not told to end is listed; a user's timer has an active row (but for `ghost`, jobs
  cancelled between row and timer), and an active row a timer (but for `missed`, dates that passed before they
  could fire, and `untimed`, an `add_job` that ended behind the commit of the row: its trigger is malformed,
  which nothing checks before, or its caller was cancelled); a date fires at most once.
- `ClientInHand`: a client that was told to disconnect stays so, one that says it is connected reads its connection, one that
  says it reconnects is trying to, and who waits is listed.  Three exceptions: a clean close ends the receive
  loop and leaves the client connected and deaf (`clean`), and so does any end of the connection when the configuration turns
  `reconnect` off (config.py:88, client.py:555), and a disconnect during connect is overtaken (`raced`).
- `EventsKeepTheirNumbers`: a number names the same event in the stream and in the store for good; what a
  connection is sent has rising numbers and leaves out no event but what its full queue did not take; no console knows a
  number the server does not.
- `pi_context`, **violated**: `ToolsAreOwn`.  A Pi is said to be stateless and keeps the context of its run.

### Proofs

`ExecutionProofs` proves the invariants of components whose actors have no bound in the code: any number of
tasks, loops, callers, jobs, runs, models, executions, parts, teams, emitters and consoles. Each module has its
own specification (`LoopsSpec`, `UserSpec`, `PiSpec`, `ExSpec`, `RoutingSpec`, `StreamSpec`), and `RunIsInHand`
shows that the behaviours of the run satisfy them.

- `SchedulesStayInHand`.  Of the loops (`LoopsHold`): an object has at most one executor, the flag is up exactly while it has (so
  `OneExecutes` and `FlagsTell` hold only together), and a loop that goes on is the one listed under its name (`ListsTell`).  Of a
  user's job (`JobTells`): a timer has an active row, an active row has a timer or a call or a run that is between the two
  (`RowsTell`), a date that fired has no timer left (`OnceTells`), and where each call is says what there can be (`CallsTell`).
- `NoAttemptIsLost`.  `CascadesTell`: unless something was lost, at most one cascade goes, and its own copy of the
  statistics has every attempt while the team's has those of the others.
- `CascadesEscalate`.  `ChainIs` says what a chain is: the cheaper models, each once, and the target behind them; from it
  `ChainsClimb` follows for any models, costs and penalties.  `AllSettle`, what an ended run settled for, is inductive alone.
- `DoneWorkIsKept`. `ExHolds` says for each stage of each mode what the parts can be (`StageTells`: parts asked
  for in turn wait one at a time behind those that came back, a synthesis has nothing outstanding, a judged
  council has two that were done), from which follows what holds of an answer or an error (`Survives`). That the
  judge keeps the best (`KeepsTheBest`) is arithmetic: if fewer than two reach seven tenths of the mean, which
  two come first; else whoever is left out is below the mean.
- `ProgressStaysTold`. `LogHolds`: what is written of a loop is a tail of its ended parts in their order, all of
  them unless another loop of the task is done (`EntriesTell`); a loop that is done or has not started has none.
  Its lemmas say what an appended entry, and clearing, do to the entries of each loop (`WrittenGrows`).
- `DecisionsStand`, `RunsStayTold`.  `RoutingHolds` is a conjunction over tasks, so that a step of one task leaves the others
  alone (`OneTaskKept`); of a run it says which words were told and how often it was charged for each place it can be at
  (`RunSays`), of a decision that it was made of what was open when its routing started (`DecisionTells`), which does
  not mention the registry any more: that is why no change of companies disturbs it.
- `NumbersAreKept`, `OneEmitterInTheStore`. `StreamInv`: the lock's line holds every emitter under way once and
  all but its first wait (`LineHolds`); the rows are events without repetition and what was announced is
  committed under its number (`RowsHold`); what a connection was sent and will be sent is the server's numbers
  from ready's on, without those its queue refused (`ConsolesHold`).

`ClientInHand` is proved with the gateway, below.

Bounds. Three models of two providers and two languages give chains of every length; two runs that share a Pi;
ten executions, of each mode one or two, with three parts; five tasks, each with another way to its teams; two
editions of a task and three loops, so that a cancelled one still executes when its successor starts; a date and
an interval, either with a malformed trigger or none, two firings and two ends of the process; two calls, two
reconnection attempts, three connections; three events, a queue of one, two connections of a console, two
faults. The pictures repeat beyond these: everything is compared by who came between two steps of one.

## The gateway and the configuration: `MasterConnection`, `ConfigWatcher`

`MasterConnection` EXTENDS `GatewayClient`: the master (`master.py`) uses a client, and at the other end is the gateway
(`scripts/master_gateway.py`), which keeps the connection it accepted last and the messages it waits for.

| Model | Code |
|---|---|
| `starter`, `stopper`, `snapshot` | the calls of `start` and `stop`, and the tasks `stop` listed |
| `req`, `active`, `permits` | `_handle_inbound_request` of each request, `_active_tasks`, the semaphore |
| `when`, `counted`, `recent` | `_user_requests` and `_recent_requests`, with their pruning |
| `user`, `controller`, frames on their way | the gateway's pending messages, its controller, the network |
| `file`, `current`, `noted`, `reload`, `orch`, `boot` | the configuration file, the watcher's copy of it with its time and hash, where its reload is, what the orchestrator was made of, and the constructor of `HotReloadOrchestrator` (`watcher.py`) |

Requests are admitted by the rate of their user and the repetition check, wait for a permit, run, are answered
over whatever connection there is by then; `stop` cancels those it listed, awaits each, forgets all and
disconnects the client. The watcher parses, validates, and only then takes the file's time and hash; editors
write between any two of these, also in the constructor's first load, which does not validate. An editor writes
in place or renames a file over the old one: a polling watcher looks at the file, but watchdog's handler takes
modifications only (watcher.py:195) and the observer starts after the first load. The callback may raise, which
is logged when the new text counts as loaded already. The client reconnects or not, as its configuration says;
in the behaviours about the limits and the watcher it may, and in those the other parts rest (`WatcherRests`).

### Run `gateway`

- `InboundInHand`: no user has more than `Rpm` requests admitted in a window, nor the same task twice in the shorter one,
  however the tables are pruned; permits are free or held by a task that runs; once `stop` has ended nothing is handled but what
  arrived while it was cancelling (`late`); and `ClientInHand` holds of the client below.
- `EveryInboundEnds` (liveness): every request is answered, declined, cancelled, or its answer lost with the connection.
- `QuietFileIsLoaded` (liveness): a valid text that stays in the file is loaded and the orchestrator is made of
  it, but for `skipped`: a write between two looks of one load, the constructor's included; one watchdog was not
  told of (a rename, or before the observer started) or whose event the debounce dropped; a callback that
  failed; a reload that overtook the wrapper's constructor.

### Proofs

`GatewayProofs` proves `ClientStaysInHand` of the client alone (`ClientSpec`: any calls, attempts and
connections), `RequestsAreInHand` of the master over it (`MasterSpec`), and `RunIsInHand` of the behaviours of
the run, for any users, messages, permits, rates and windows.

The client's invariant `ClientHolds` says how far `disconnect` is (`Disconnecting`), that only a client that
reconnects has a loop that tries (`Reconnecting`), and that a connected one reads its own connection unless the
peer closed it or, for a client that may not reconnect, it is gone (`ReadsOwn`). `MasterHolds` adds to the
property that every permit is free or held (`PermitsKept`), that whoever is in flight is in `_active_tasks` or
came after `stop` listed them (`Flights`), and, for the rate limit, `Fresh`: what was admitted within a window
is still in the table against which the next request is held. Pruning removes entries on every arrival, so the
bound does not follow from the check alone. The two invariants are preserved separately: a step of the
composition is a step of the client, of the master, or one that does to each what a step of its own may do
(`CompositionSteps`).

Bounds: three messages of one user, two of them the same, one permit, two per window, time up to 2 for the limits; one message
on up to two connections for everything else (`focus` tells the two apart, because the limits and the connections do not
meet); three writes of three texts, one of them invalid.

Fairness. `MasterFairness`: a task ends (it runs in a `wait_for`), a send returns, what can run runs (weak
fairness), and a permit that is free again and again is given to who waits for it (strong fairness;
`asyncio.Semaphore` is first come, first served). `WatcherFairness`: the thread goes round, time passes, the
constructor ends. Nothing is assumed of the gateway, the network, editors or operators.

## Hazards without a property

`PROJECT.json` lists the hazards the properties are about, at the lines where they bite, with notes on what does not hold.  These
are the others that were met in the code.

| Line | What can go wrong |
|---|---|
| `console/src/lib/realtime.tsx:167` | ready sets the number the console claims to have seen before the missed events are fetched; if the fetch fails, the next reconnection reports nothing missed |
| `console/src/lib/realtime.tsx:101` | two fetches of recent events may answer in the other order, and the older list replaces the newer one |
| `companest/server.py:243` | without a history a restarted server counts from zero again, below what consoles have seen |
| `companest/server.py:563` | the event store fails after a webhook's job was submitted: the answer is an error and the job exists |
| `companest/user_scheduler.py:301` | the timer's callback returns at once, so max_instances=1 does not keep a slow job from overlapping its next run |
| `companest/memory/dreamer.py:489` | the dream log asks for an attribute the manager does not have; the error is logged and nothing is written |
| `companest/canary.py:205` | PROMOTING is written before the promotion and nothing goes on from there after a restart |
| `companest/archiver.py:215` | the clean-up of full snapshots goes by age only and may delete the last one |
| `companest/modes/council.py:77` | an unexpected failure of one Pi ends the council while the others go on running |
| `companest/modes/conditional.py:145` | the mode that is chosen may be "conditional" again |
| `companest/master.py:104` | start returns when the client is not connected for a moment, although it is said to block until stopped |
| `companest/client.py:344` | an event is taken by whichever agent task reads the queue first, which may wait for another run |
| `companest/feeds.py:74` | two callers read the same last time, wait the same time and call the source together |
| `companest/server.py:962` | PATCH and bind write the configuration in memory over a file that was edited since it was read (in the model; nothing promises that the edit survives) |
| `companest/team.py:434` | reload() reads the base directory only, so private teams and teams registered by the program are gone until their company is set up again (in the model; only tests call it) |

## What is only model-checked

Every safety invariant and every action property of the passing runs is proved. Liveness under fairness, and
anything with `ENABLED`, is out of the prover's reach: `EveryJobSettles`, `ChangesReach`, `QuietFileIsLoaded`,
`EveryRequestSettles` and `EveryInboundEnds` are checked by TLC on the instances of their runs and no further.

The library's induction theorems take an operator as a parameter, which the provers cannot instantiate. Where a
proof needs induction (sums, selections and loops over data: `RecallFits`, `DoneWorkSurvives`, `ProgressTells`)
it goes by the least counterexample instead: `EveryNumber` says that a *set* of numbers with 0 and the successor
of each of its members has every number, and `LoopExists` that a recursive function over the numbers up to N has
values. No module declares a `RECURSIVE` operator, which would be out of reach.

Type invariants are stated of the modules with proofs, which need them; elsewhere
the other invariants would fail to evaluate on a value of another type.

## Not modelled

- Formatting, parsing, prompts, command lines, deployment scripts and the console's pages: they keep no state that interleaves.
- `tools.py`: the tools translate a model's call into one of the modelled components and format the answer.
- Reading `budget.json`, reports and statistics, which change nothing.
- The channels of the chat services and the gateway's own commands; redaction and truncation of texts.
- Of a company's setup: routing bindings, MCP servers, memory paths and seeds, output sinks.  They are set up and torn down in the
  methods `CompanyRuntime` models, at the places where it does the rest.
- The Viking backend, which hands every call to a remote service; full snapshots of the archiver.
- The router's cached prompt: it decides what the routing model reads, and the model may answer anything.
- Failures of the users' schedules' own database; runs of a team that skip the cost check (enrichment cycles and
  the refresh of the info team, background.py:123 and 149, and callers of the API who ask for it, cli.py:682):
  they pass the gate unasked and are not charged.
- A server without an event history; an orchestrator without a cost gate's notifier.

`PROJECT.json` lists every component with its status.
