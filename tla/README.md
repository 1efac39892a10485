# persola: a verification project

TLA+ models of the parts of persola (`src/persola`) whose correctness depends
on interleavings, transactions, failures and time. TLC checks the models on
small instances; TLAPS proves safety results for every value of the constants.
Modelled are the durable work queue and its daemon, the concurrency governor of
the city's tool batches, the persona cache, the families of the city with their
life ticks, the city's jobs with their workspace and event feed, conversations
with an agent, the version history of personas, the start of server processes,
and team runs.

Every definition that models code is listed in `PROJECT.json` under `map` with
the lines it translates.

## Inventory

persola is one asyncio process (FastAPI) with a PostgreSQL database, a Redis
cache, an LLM client, an in-process worker pool and one background daemon.
Several server processes may share database and Redis.

| Component | State | Operations | What is hard | What makes it correct |
|---|---|---|---|---|
| Work queue, daemon (`db/repositories/workqueue_repository.py`, `orchestration/task_queue.py`, `orchestration/daemon.py`, `api/workqueue.py`) | rows of `work_tasks`; the open transaction of every tick | enqueue, delegate, recover stale, claim, execute, settle, forced tick, block | several pollers on one table; one long transaction around an LLM run, while other sessions commit in the middle; crash, rollback, stale claims | one owner per task, one outcome, settled is final, nothing queued is forgotten |
| Concurrency governor (`orchestration/city_scale.py`) | four families of semaphores and their counters | `acquire`, `release`, `snapshot` | nested waits, cancellation in the middle, the row lock of the job around them | limits kept, slots given back, no deadlock |
| Persona cache (`cache.py`, `db/services/persona_service.py`, persona endpoints of `api/main.py`) | Redis: generation and entry per persona; the persona's row | cache-aside read of two fields, update, retune, delete, expiry | every access is a round trip; invalidation precedes the commit; Redis errors are swallowed | a served entry reflects the row, or soon will |
| Families and life ticks (`services/city_service.py`, `db/repositories/city_repository.py`, `api/city.py`) | rows of families and members: role, age, life status, whom a member succeeds | found, spawn, change the age limit, life tick, delete an agent | a tick reads without locking and writes what it computed from the read; one transaction for all families; cascades | nobody dies without an heir, a family keeps its parent |
| City jobs, artifacts, runs (`services/city_service.py`, `orchestration/city_tools.py`) | rows of jobs, artifacts, runs, events; what a session has loaded | start, invoke, execute tools, demo, probe, merge, veto, set status | version numbers read then written; statuses without transitions, written from stale copies; a tool's failed insert poisons the session | versions unique and gapless; the feed tells how a job stands |
| City events and stream (`api/city.py`) | events; the cursor of a subscriber | emit, page, follow | commit order differs from `created_at` order | the stream passes over nothing it could have sent |
| City pulse, cohesion, conduct (`orchestration/city_pulse.py`, `services/city_service.py`) | jobs started for families, decisions | pulse, decide, conduct | several commits per family, failures swallowed per team | decisions and waves are told whole |
| Agents, sessions, messages (`api/main.py`, repositories) | agents, sessions, messages, runs | create, invoke, append, delete | one transaction around an LLM call; deletion through the ORM against foreign keys; a counter kept in memory | nothing dangles, a turn is whole, the counter is exact |
| Persona versions (`api/main.py`, `persona_version_repository.py`) | personas, `persona_versions` | create, update, apply a preset, tune, delete | number read then inserted; the ORM writes only what differs from its load | history without gaps, newest version is the row, accepted updates are applied |
| Server start, presets, org chart (`api/main.py`, `persona_repository.py`, `org_chart.py`) | preset rows, org nodes, processes | seed, serve, stop, rename, change a node | several processes start at once; unique roles, names that are not | who serves has a seeded database, restarts change nothing |
| Teams API, orchestrator, tools, memory (`api/teams.py`, `services/team_service.py`, `orchestration/team.py`, `langgraph_runtime.py`, `memory.py`, `redis_memory.py`) | team session, workflows, memory rows; memory in Redis and in the process | run, delegate, store, recall, persist | parallel specialists of which one fails; effects outside of the run's transaction; locks in the order of answers | a run is stored whole or not at all, memories agree |
| City worker pool (`orchestration/city_worker.py`) | an asyncio queue, worker tasks, waiting futures | start, stop, enqueue, worker loop | a timeout races the result | its batches are the workers of `Governor`; the queue is asyncio's |
| Audit log | append-only rows | append | written through other sessions than the work it is about | seen through the counters of the work queue and the events of team runs |
| Rate limiters (`cache.py`, `api/city.py`) | token buckets in Redis and in memory | allow | the clock is the caller's | not modelled |
| Persona engine, analysis | none (pure) | derive prompt, sampling, blend | rounding, clamping | not modelled |
| Sandbox, disk mirror, LLM and Cyrex clients, CLI, metrics, auth, UI, migrations | none, or outside the process | | I/O | not modelled |

How they interact. The daemon and the tick endpoint run the team orchestrator
inside the transaction that has claimed the task; the team calls tools, which
may enqueue further tasks through sessions of their own. City endpoints and the
worker pool run tool batches through the governor and `CityService`; both
change the same job rows. Persona endpoints change a row, record its version and
invalidate the cache in the same request; readers fill the cache at any time.
Life ticks, the family endpoints and the deletion of agents write the same
member rows; founding a family tunes personas. Every process seeds the
personas' presets and the org chart before it serves any of this.

`PROJECT.json` lists the hazards of this code, each at its line, with the
properties that cover it.

## Modules

| Module | Models |
|---|---|
| `TaskBoard` | abstract: what the queue promises to whoever adds a task |
| `WorkQueue` | table, ticks of daemons and requests, self-committing clients, faults |
| `WorkQueueBoard` | the refinement mapping from `WorkQueue` to `TaskBoard` |
| `WorkQueueProofs` | theorems about `WorkQueue` and the refinement |
| `Governor` | semaphores, callers and job rows |
| `PersonaCache`, `PersonaCacheProofs` | readers, writers, Redis and the row of one persona; theorems |
| `CityLife` | families, members, life ticks |
| `CityProofs` | theorems about `Governor` and `CityLife` |
| `CityJobs`, `CityJobsProofs` | jobs, tool batches, artifacts, decisions, waves and the event feed; theorems |
| `AgentChat`, `AgentChatProofs` | agents, sessions, messages and runs; theorems |
| `PersonaVersions`, `PersonaVersionsProofs` | overlapping changes of personas and their versions; theorems |
| `ServerStart`, `ServerStartProofs` | processes that seed and serve; theorems |
| `TeamRuns`, `TeamRunsProofs` | overlapping team runs of a session, specialists, tools and memory; theorems |
| `MC...` | instances and symmetry of the module named, for TLC |

The models share rows rather than variables: the status of a job is a row lock
and two values in `Governor` and a full history in `CityJobs`; tuning a persona
is the write kind `retune` of `PersonaCache` and `Retune` of `PersonaVersions`; an
update that changes nothing is `repeat` in the first and `SkipFlush` in the second;
a team of the queue, which is one step of a tick in `WorkQueue`, stores in the memory
of team runs, which is `WorkerStores` of `TeamRuns`. They are checked apart: where
one module's part acts on another's state, the other has an action for it that may
happen at any time. `CityProofs` extends two of them at
once, which is why the specification and the type invariant of `CityLife` have
names of their own, `LifeSpec` and `LifeTypeOK`.

An operator that stands beside another one with a longer name (such as
`RollbackKeepsSession` before `Rollback`) is a plausible mistake in the code it
stands beside; `PROJECT.json` names the property that detects it. No
specification uses these operators.

### WorkQueue

A tick is one database transaction: `recover_stale`, the claiming
`SELECT ... FOR UPDATE SKIP LOCKED`, the execution of the team and the outcome
share the session that `_tick` commits at its end. `status`, `role` and
`claimedAt` are therefore the **committed** columns; what an open transaction
has done is in `locks`, `recovered` and `cur`.

| Code | Action |
|---|---|
| `POST /tasks`, `AgentTaskQueue.enqueue` | `EnqueueTask` |
| `delegate_subtask` inside a running team | `Delegate` (commits at once) |
| `run_forever` loop, gated by `available_check` | `Poll` |
| `tick_single_task` | `TickRequest`, then the same steps as a daemon with the role filter of the task |
| `recover_stale` | `RecoverStale` (waits for locked rows) |
| `claim_next` | `ClaimNext` (locks **every** matching row: the select has no limit), `NothingToClaim` |
| `TeamOrchestrator.run` | `BeginRun` (its audit entry commits at once) |
| outcome, audit entry, city event, commit | `CompleteTask`, `FailTask` |
| `self.queue.get` after the commit, inside the `try` | `ReadBack`, `FailAfterCommit` when it raises |
| an exception of the tick's session; a crash or shutdown; a new process | `DbError` (the loop ends for good), `Crash`, `Restart` |
| `claim_next`, `mark_in_progress`, `complete`/`fail`/`block` without a session | `ClientClaim`, `MarkInProgress`, `ClientSettle`, `ClientVanish` |
| ten minutes since `claimed_at` | `Expire` |

Tasks are numbers in the order of `created_at`; they may be inserted in any
order, because `created_at` is assigned before the insert commits. `instructed`
and `outcomes` count committed audit entries; `interrupted` and `disputed` are
history variables for the properties and are read by no action.

`OneOwner`, `OneOutcome`, `SettledIsFinal` and `InstructedOncePerAttempt` all
carry an exception the code really has: `recover_stale` takes back a claim of a
client that still works, `update_status` does not check what it overwrites, and
a failed read-back overturns a completed task. `disputed` says exactly which
tasks this happened to; the properties say it happens to no other.

### Governor

A batch takes one slot of the city's semaphore, of its family's, its
district's and its job's, in this order. An HTTP call reads the job and, if it
is pending, writes `running` (a row lock) **before** it takes slots; a pool
worker takes slots first. Actions: `Start`, `ReadJob`, `Flush`, `AcquireSlot`
(one `await` of `acquire`), `ToolCommit`, `Finish` (commit and `release`), and
the faults `Abort` (slots given back), `FlushFails` (the failed insert of a
tool expires the job, so that the `finally` clause of a governed call cannot
read the family and never reaches `release`) and `CancelWait` (a cancelled
waiter keeps what it has taken: `CancelledError` is not an `Exception`).
The semaphores of families, districts and jobs exist from the start; the code
creates them on first use under a lock, which nothing observes.

### PersonaCache

One persona (personas share no key) whose content is the number of its
changes. Reading is `Lookup`, `Hit` or `Miss`, `Derive`, and the three round
trips of `_set_fields`: `StoreGeneration`, `StoreMerge`, `StoreWrite`. Changing
is `BeginWrite` (flush, row lock), for an update `Invalidate`, `Announce`,
`Purge`, and `Commit`. An update with the values the row has already (a PUT of what
was loaded, the same preset again) is `BeginRepeat`: the flush sends no UPDATE and
takes no lock, and the invalidation follows all the same, so that it may overlap
another one. `Announce` then sets the generation from an old read: a number is
announced twice, or the generation goes back. `retune` (`create_family` over an existing persona) and
`delete` change the row and do not invalidate. `ReadFault`,
`InvalidationFault` and `WriteFault` are Redis errors, which the code swallows,
and a failed version record or commit; `Expire` ends a time to live. The
history variable `raced` is set where one of four causes of a stale entry
occurs: an answer derived from older content asks for the generation after the
invalidation, the invalidation does not reach Redis, the change does not
invalidate, or another invalidation has moved the generation since this one read it
(`Overtaken`; for an update that changes nothing it takes two of them, since a
generation announced again and emptied again is harmless). `ask` is the mix of
requests of a behaviour, chosen at the start.

### CityLife

The rows of `family_members` and the transactions of life ticks. `alive` and
`age` are the committed columns; `by` says which open transaction has inserted
a row, and a deleted row is kept, as `Deleted`, for the properties only.

| Code | Action |
|---|---|
| `create_family`, `spawn_child`, `update_family_policy` | `CreateFamily`, `SpawnChild`, `UpdateFamilyPolicy` (each one commit; the last waits for locked members) |
| `DELETE /agents/{id}` and the cascade to the member | `DeleteAgent` |
| `list_families` in `life_tick` | `StartTick` (the session keeps the policies read here) |
| `get_with_members`, the ages and deaths computed from it | `ReadFamily` (at the family's turn, or before all turns in a heartbeat) |
| the UPDATEs of the loop over the members | `AgeMembers` (waits for rows another tick has written) |
| death and `_succeed_member` | `Bury` |
| `commit` | `CommitTick` |
| `MultipleResultsFound` of `get_parent`, `StaleDataError` of an UPDATE | `RefuseTick` |
| crash, lost connection, deadlock victim | `AbandonTick` |

Left out: what members carry (goals, dreams, growth, knobs, generation number,
lineage pointer), since no decision reads it; an agent that is the parent of
several families, whose deletion is then several `DeleteAgent` steps. The rows
of a family are locked in one step: a deadlock between ticks that lock them one
by one ends with a victim, which is `AbandonTick`.

`OneSuccession` carries an exception the code really has: `life_tick` locks
nothing when it reads, so of two overlapping ticks the second waits, and then
buries the same members again. `overlapped` says in which families two ticks
overlapped; in every other family a member has one heir.

### CityJobs

A request is a series of transactions in one session. Rows and the events that
tell of them are inserted together, so both are one entry of `log`, in the order
of `created_at`. An entry is open until its transaction ends, then committed or lost
(`Ended`), and sent once the stream has sent it; a lost one stays in the log, where
nobody sees it (`Visible`), so that an entry keeps its place and its position can
stand for `created_at`. `write` holds uncommitted changes of job rows, which lock
them, and `req[c].seen` the status a session has loaded and, with
`expire_on_commit=False`, goes on believing while a helper holds the job. The
session refers to it weakly: when the helper has returned (`Forget`), the next one
reads the row again (`LoadJob`).

The tool `emit_viz_event` inserts an event of any type of `ALLOWED_VIZ_EVENT_TYPES`,
among them those of the service's own events, with its caller's payload and without
any change of a row. What it inserts has the type `"viz"` in the log and the type
the caller asked for as `info`, so that the properties can speak of the service's
own events: `VizTypes` are the types that callers ask for.

| Code | Action |
|---|---|
| the endpoints' entry: job loaded or to be started | `Open`, `OpenStart`, `OpenDemo`, `OpenProbe`, `OpenPulse`, `OpenConduct` |
| `start_job`, its commit, the announcement of a wave | `StartJob`, `CommitStart`, `Announce` |
| `jobs.get` of the next helper on the job | `LoadJob` |
| `execute_tool_calls`: pending becomes running, the loop over calls | `BeginBatch`, `EndBatch` |
| `write_artifact` | `ReadVersion`, `InsertArtifact`, `Conflict` on the unique key |
| `run_python`, `emit_viz_event` with any allowed type, a tool outside of the district | `BeginRun`, `RunDenied`, `EndRun`, `EmitVizEvent`, `ToolDenied` |
| the commit after each tool | `CommitTool` |
| decisions by score | `DecidePulse`, `DecideConduct`, `Approve`, `EmitApproval`, `CommitApproval`, `Veto` |
| `set_job_status` | `SetJobStatus`, `CommitStatus` |
| the end of a family, of a wave | `FinishPulse`, `FinishConduct`, `CloseWave` |
| a failing team, which `conduct` swallows; any other failure | `TeamFails`, `Fail` |
| the polling generator of the stream | `Poll` |

`StatusTold` carries an exception the code really has: a request that loaded
`pending` writes `running` over whatever another one has committed since, and
assigning the loaded status writes nothing. `raced` names those jobs.
`StatusTold` and `DecisionsToldWhole` are about the events of the service. Nothing
holds of what callers tell: a follower of the feed may read a veto of a job that
goes on running. A merge is told in the commit of its batch and its outcome in a
second one, so a request that fails in between leaves a merge without outcome;
`DecisionsToldWhole` says that nothing else does.

### AgentChat

One transaction per request. The session row a request inserts, its messages and
its run are uncommitted (`open`, `done = FALSE`) until `Reply`, and the LLM call
lies in between.

| Code | Action |
|---|---|
| `create_agent` | `CreateAgent` |
| `invoke_agent`, `create_session` of an agent: `get_or_create` | `Lookup`, `CreateSession` (waits for another insert of the id, then fails if it committed) |
| `get_history`, user message and run | `LoadHistory`, `AddTurn` |
| the LLM answers, is unavailable, fails | `Reply`, `NoReply` |
| appending a message | `BeginAppend`, `AppendMessage`, `CommitAppend` |
| deleting a session or an agent through the ORM | `BeginDeleteSession`, `DeleteSession`, `BeginDeleteAgent`, `DeleteAgent` (refused when children were found, cascading to those committed later) |
| a lost connection, a cancelled request | `Abandon` |

### PersonaVersions

`content` and `versions` are committed; `holder` has the row's lock. `Load`
is the read of `update` or `apply_preset`, `Flush` the UPDATE of the columns that
differ, `SkipFlush` an update that differs in nothing and therefore locks
nothing, `NextNumber` and `InsertVersion` the read and the insert of the number,
`Commit` the end. The endpoints that create a persona (`CreatePersona`,
`AnalysePersona`, `ClonePersona`, `BlendPersonas`, `ImportFromCyrex`) record
version 1; `SeedPersona` and `Retune` record none.

### ServerStart

`Launch`, `SeedPreset` (once per preset, `get_by_name` then insert),
`ListChart`, `LookForRole` and `InsertRole` (upsert of a role that was missing,
waiting for a start that inserts the same), `CommitStart`; `Abort` is a kill
or a lost database, `Shutdown` the end of a serving process. `NamePersona`,
`RemovePersona` and `ChangeNode` are the requests that touch what a start reads.

### TeamRuns

A run is `Resolve` or `CreateSession`, `SetPersona`, `Instruct` (the audit entry
commits at once), the answers of its specialists (`Answered`, `LlmFails`), their
tools (`Delegate`, `StoreRedis`, `StoreLocal`, `ToolFails`), `Report` of the
coordinator, `SelectEntry` and `UpdateEntry` for every output, and `Store`. A
specialist's failure ends the run and leaves the others running. `Deadlock` is
PostgreSQL's victim among runs that wait for each other's rows, `Abandon` and
`Crash` the other ends, `Expire` the time to live in Redis. `met` and `split` are
history variables for the properties.

The queue's teams (the daemon's and those of ticks) may run under the session id of
a team run: `delegate_subtask` enqueues with it, and so may a client. Their registry
stores in the process alone (`WorkerStores`), while a run recalls from Redis first
(`Recall`). Redis has a value as it is, the process has `str(value)` of a run and
the value as it is of the queue's teams (`InRedis`, `InProcess`); `MemoriesAgree`
compares values as text. A key that was stored beside Redis is `split`.

## Runs

All bounds are constants of the modules: `MaxFaults` caps the faults of every
kind together, `MaxVersion` and `MaxGeneration` the changes and invalidations of
a persona, `MaxTunes` its tunings, `Members` the births and `MaxDeleted` the
deleted agents of the city, `MaxMessages` the messages of all sessions, `MaxRows`
the personas of one name, `MaxJobs` and `WaveSize` the jobs and families of a wave.

| Run | Instance | Shows |
|---|---|---|
| `workqueue_server` | 2 tasks, 2 roles, 2 daemons, 1 tick request, 2 faults, fair | `TypeOK`, `OneOwner`, `OneOutcome`, `InstructedOncePerAttempt`, `SettledIsFinal`; the queue implements the board (`ImplementsBoard`); `QueuedIsSettled` |
| `workqueue_clients` | 2 tasks, 1 role, 2 daemons, 2 clients, 2 faults | the inductive invariant `QueueInv` and `SettledIsFinal` with claims that are committed, go stale and are taken back |
| `governor` | 1 worker, 2 calls, 2 jobs of 2 families in one district, limits 2/2/1/1, 2 faults, fair | `TypeOK`, `SlotsAccounted`, `CountersTruthful`, `CapsRespected`; `BatchesEnd`: one order of acquisition cannot deadlock |
| `cache` | 2 readers of different fields and 1 writer, or 1 reader of one field and 2 writers, one of them also with updates that change nothing; 2 changes, generations up to 2, 1 fault, fair; 507 339 states | `TypeOK`, `StaleOnlyByRace`, `EventuallyFresh` |
| `cache_race` | 1 reader, 1 writer, no fault | violation of `InvalidationIsRaceSafe` |
| `citylife_safety` | 1 family, 4 members, 2 ticks, age limits 1 and 2, 1 deleted agent | `LifeTypeOK`, `DeathPassesLegacy`, `FamilyLives`, `OneSuccession` |
| `citylife_lineage` | 1 family, 5 members, 1 tick | violation of `ParentIsUnique` |
| `city_jobs` | 12 pairs of requests that meet on a job, 3 jobs, one path, waves of 2 families, callers that tell completions and vetoes, pages of 2; 1 011 269 states | `ArtifactHistory`, `StatusTold`, `DecisionsToldWhole`, `StreamNeverJumps` |
| `agent_chat` | 3 requests, 2 agents, 1 session id, history of 1, fair; 169 970 states | `NoDangling`, `TurnIsWhole`, `CountExactUnlessRaced`, `ContextIsTranscript`, `EveryRequestEnds` |
| `persona_versions` | 1 persona, 3 writers, 2 values, 1 tuning | `VersionHistory`, `ConflictOnlyBesideUnlocked`, `AcceptedIsApplied` |
| `server_start` | 2 processes, 2 presets, 2 roles, 1 fault, fair | `UpMeansSeeded`, `RestartsAreIdempotent`, `ComesUp` |
| `team_runs` | 3 mixes of up to 4 runs of one session, 2 specialists, teams of the queue that store under the same keys, 2 faults, fair; 266 273 states | `RunIsWhole`, `ExactUnlessMet`, `MemoriesAgree`, `EveryRunEnds` |

Why these bounds suffice.

* **Queue.** Two workers and two tasks are the least in which a row is claimed
  twice or a task waits behind another one; the second fault lets a retry fail
  too, and lets both daemons die.
* **Governor.** Three callers and two jobs of two families put a holder, a waiter
  of the same job and a waiter of another family into the city at once; limits of
  one and two make semaphores run out at different depths.
* **Cache.** Two readers and two changes give a reader that is overtaken by an
  invalidation, by another reader's merge, and by a second change. Two writers and
  two generations give an invalidation that is overtaken by two others and sets the
  generation back; a third writer would only overtake it once more.
* **City.** Four members give a parent and a child that both die, and a parent
  that two ticks bury twice with a child beside it; families meet only in the
  transaction of a tick. Requests on jobs meet in pairs: what two sessions do to
  a row is a matter of one stale copy and one lock, and a third session would
  repeat it. Every kind of request is in a mix, `invoke` meets every kind that works
  on a job, and the earlier job is pending (`EarlierStatuses`); a job of another
  status is met where the other request has started it.
* **Chat.** Three requests are a turn, one that races with it, and a deletion;
  a history of one makes the limit bite at the second turn.
* **Versions.** Three writers are two that change the row and one that changes
  nothing; two values per column make "as loaded" and "as submitted" differ.
* **Start.** Two processes overlap; two presets and two roles give a start that
  has done the first and not the second.
* **Team runs.** The mixes are a session that is new to both runs, a role that
  is new to three runs (two leave duplicates, the third meets them), and two runs
  that lock the same entries in opposite order. The stores of the queue's teams fall
  before, between and after those of the runs. Only keys the runs store count: Redis
  has no other, so nothing stored under another key can differ from it.

Deadlock checking is off where the system may rightly stop: when all requests of
the instance are answered (`agent_chat`, `persona_versions`, `city_jobs`,
`team_runs`), in the work queue when every task is settled and the LLM is down or
the daemons are dead, and in `governor`, which contains the circular wait between
a call and a worker described below. Symmetry (interchangeable daemons, clients,
members, writers, values) is used in runs without liveness properties only.

### Fairness

* **Work queue.** `run_forever` sleeps a bounded time between polls, statements
  return and the LLM client has a timeout, so a step of a live worker that stays
  possible is taken (weak fairness of `Poll` and `Tick`); a stopped process is
  started again and an outage ends. Nobody must enqueue, call the tick endpoint
  or suffer a fault.
* **Governor.** `asyncio.Semaphore` and PostgreSQL serve waiters in order: strong
  fairness of `AcquireSlot` and `Flush`, weak fairness of the rest. Tools have
  timeouts. Nobody has to start a batch.
* **Cache.** A started request goes on and a time to live ends (weak fairness).
  `EventuallyFresh` also assumes, as its premise, that now and then no request
  is in flight. Without it a stale field could in principle survive: `_set_fields`
  reads the entry and writes it back, so a reader of the other field may merge
  the stale one just before it expires, and another one after it.
* **Chat.** Statements return and the LLM client has a timeout: weak fairness of
  `Step` and `Llm` of a request. Nobody has to make a request.
* **Start.** Weak fairness of `Launch` (the process manager restarts what has
  ended) and of the steps of a start.
* **Team runs.** Weak fairness of the steps of each run and its specialists: the
  event loop runs what is ready, HTTP clients and tools have timeouts, and
  PostgreSQL looks for deadlocks, so that a run in a circle of waits is ended.

## Where the code departs from what is said of it

Two runs exhibit a contradiction with a sentence of the repository, which the
finding in `PROJECT.json` quotes:

1. `cache_race`: an answer in flight during an update is filed, stale, under the
   new generation.
2. `citylife_lineage`: when the second parent of a family dies, the fallback of
   `get_parent` finds two dead parents and raises: the family is never aged
   again, and every life tick that includes it is rolled back in all families.

The passing properties carry exceptions for what the code really does; each says
what still holds beside it:

* `POST /tasks/{id}/tick` executes the oldest queued task of the role, not
  necessarily the requested one.
* A completed task turns to failed, with a second outcome record, when the read
  for the answer fails after the commit (`SettledIsFinal`, `OneOutcome`); a
  lapsed claim of a client that still works is taken back (`OneOwner`).
* A database error ends a daemon's loop for good (`QueuedIsSettled`).
* A call locks the row of a pending job and waits for slots, a worker holds slots
  and waits for the row (`BatchesEnd`); failed and cancelled batches lose slots
  (`SlotsAccounted`).
* Overlapping life ticks bury a member twice (`OneSuccession`).
* An update that changes nothing takes no lock, and its invalidation may set the
  generation back to one whose entry is superseded (`StaleOnlyByRace`).
* A batch that read its job as pending turns a finished job back to running
  (`StatusTold`); a merge stays told without its outcome when its request fails
  between two commits (`DecisionsToldWhole`); callers of `emit_viz_event` tell
  vetoes and completions that are none, although `docs/CITY_EVENTS.md` says of
  `cohesion.veto` that the job "ends `failed`" and calls what the tool inserts
  "viz-only pulses" (both properties leave these events out); the end of the last family of a wave is never committed
  (`DecisionsToldWhole`; `docs/CITY_EVENTS.md` lists the event); an event that
  commits after a younger one was sent is never sent (`StreamNeverJumps`).
* Two turns of a session write the same `message_count`
  (`CountExactUnlessRaced`); `get_history` sends the oldest messages of a long
  session, not the latest.
* An update that changes nothing takes no lock, can take the version number of
  another one and make it fail (`ConflictOnlyBesideUnlocked`), and may record an
  outdated row (`VersionHistory`).
* Processes that start together may store a preset twice; from then on every
  start fails (`ComesUp`).
* Two team runs of a session may insert the same memory key; every later run that
  writes it fails (`ExactUnlessMet`). A store in Redis that fails or is cut off
  before the store in the process leaves them different, and so does a store of a
  queue's team, which never reaches Redis (`MemoriesAgree`).

## Proofs

All theorems hold for arbitrary constants under the named assumptions of the
modules: tasks are positive numbers, daemons and requests are disjoint, callers
are finite and disjoint, no request of the city is the one that came before all,
limits and bounds are naturals (of jobs, families and page entries at least one), the roles of the
default chart are a non-empty sequence, runs are finitely many, plans are
non-empty and name no role twice nor the coordinator (`route_task` ranks the
archetypes, which are keys of a dictionary, and `select_delegation_plan` falls
back to two of them), the null values are not members of the sets they complete.

**WorkQueueProofs.** The inductive invariant is `TypeOK /\ QueueInv`:
`LocksDisjoint` (a row is locked by one transaction), `LockedRows` (a locked row
is queued, or a stale claim its own transaction re-queued), `TickHoldsTask` (a
tick holds the lock of the task it executes, a worker outside a transaction holds
none) and `ClientOwnsRow` (an undisputed client's row is claimed and recent, and
it alone holds it). `OneOwner` follows from the first three and the last:
executing workers hold the lock of the row, and a row a client owns is neither
queued nor stale, so no transaction can lock it. `SettledIsFinal`: a commit writes only
locked rows, which are open; a client writes only the row it holds, which is open
unless disputed. `OneOutcome` and `InstructedOncePerAttempt` are inductive
relative to `QueueInv`. `QueueImplementsBoard` (for `Clients = {}`): every step
maps to `Add`, `Settle`, `Overturn` or a stutter; it needs the extra invariant
`AnswersAreDone`, that a task whose result is being read back is still done, so
that `FailAfterCommit` maps to `Overturn`.

**CityProofs, the governor.** The inductive invariant is
`TypeOK /\ SlotsMatchPhase /\ SlotsAccounted /\ CountersTruthful`. The slots a
caller holds follow from its phase; with that, each step adds a caller to the
holders of one semaphore and takes one from its free slots, or undoes it. Steps
are sorted into four shapes (`StepKinds`), so that the counting argument is made
once per shape and not once per action. `CapsRespected` follows: whoever executes
tools holds all four slots, and the holders of a semaphore are at most its limit.

**PersonaCacheProofs.** The inductive invariant is `TypeOK /\ CacheInv`:
`WriterHoldsRow` (one writer that changes the row is past its flush; those that
change nothing come and go), `NoFutureEntries` (short of a race nothing is filed
under a generation not announced yet, and no invalidation has read one) and
`FilesAreFresh` (short of a race, what is or will be filed under the current
generation is the committed content, and nothing is while a change is announced).
An invalidation that sets the generation is either not overtaken, and then the
entries it announces are empty or, for an update that changes nothing, current, or
it is a race. `StaleOnlyByRace` is the consequence.

**CityProofs, life ticks.** The inductive invariant is `LifeTypeOK /\ LifeInv`. Neither
`DeathPassesLegacy` nor `FamilyLives` is inductive alone, since a commit makes
deaths and births visible together: `BuriedHaveHeirs` (whom a tick has buried
has an heir of the same family and role in the same transaction),
`UncommittedRows` (such an heir is alive, in a family that exists) and
`DoomedAreStored` (whom a tick buries was committed when read, and once aged is
locked, so that no deletion removes it before the commit). A commit then turns
the heirs of all it buries into living members, a rollback takes away
uncommitted heirs and nobody else, and a deletion never removes a buried member.
`OneSuccession` rests on a second invariant, `SuccessionInv`: a family two ticks
have read at once is marked (`OneReader`), so in an unmarked one the members a tick
buries are alive, and thus without heirs, until it commits (`DoomedAlive`); each
has one heir in the transaction (`OpenHeirs`), and nobody succeeds a row that does
not exist (`KnownAncestors`). A commit then replaces one living parent by one.

**ServerStartProofs.** The inductive invariant `StartInv` joins `TypeOK` with
what a start has done by the position it has reached (`Progress`), what a
process that does not start has left uncommitted, nothing (`AtRest`), and what a
start launched after the first service finds (`Late`). The argument rests on two
facts that never turn back: that a preset was seeded once (its row is there, or
a request removed it), and that a role has a node. Both become true in the
transaction of the first start that commits, and `UpMeansSeeded` is their sum. A
late start sees all of it committed, so it finds no role missing and inserts
only removed presets: `RestartsAreIdempotent`.

**AgentChatProofs.** The inductive invariant `ChatInv` adds to `TypeOK` that an
uncommitted message belongs to a request still under way and to the session that
request works on (`OwnMessages`), what a request knows by its program counter
(`Knows`, `OwnSession`, `OwnRun`), and the two halves of a turn (`Answers`).
Steps are sorted by shape (a read, an insert, a commit, a rollback, a deletion),
with one frame lemma for what the other requests keep. `NoDangling` is the
interesting one: a deletion waits for whoever holds the session or the agent, so
that a request past its foreign-key lock never loses its parent.
Two more properties rest on `TalkInv`: message times are distinct, so that a
ranking by time is an injection and the context a turn loads is no longer than the
limit (`DistinctTimes`, `Remembers`); a request has added as many messages as its
step says (`AddedOne`); and the count of a session, as loaded, as pending or as
committed, is the number of its messages unless the session was raced for
(`CountsRight`). `CountExactUnlessRaced` and `ContextIsTranscript` follow.

**PersonaVersionsProofs.** The inductive invariant `VersionInv` says, per persona,
that numbers have no gap (`Numbered`), that the newest version shows the row
(`Newest`) and what the holder of the row's lock is about to write (`Held`); per
request, what its copies of the row are worth (`Copies`) and its version number
(`Counts`); and that one version of a persona is uncommitted at a time
(`OneInserted`). A number was at most the next one when it was read, versions are
only added, and the unique constraint refuses those there are: what passes is the
next one. Without an update that takes no lock, whoever is past its flush is the
holder, so no number is refused (`ConflictOnlyBesideUnlocked`). A row that is held
does not change, so a commit writes what the flush computed (`AcceptedIsApplied`).

**TeamRunsProofs.** Four invariants, each inductive relative to the first.
`RunInv` is about one run: by where it is, its outputs are those of the roles of
its plan that have answered, without repetition, and from the coordinator's answer
on all of them with the coordinator's last (`Control`, `Outputs`); a role of a run
that is over moves on without touching it. `AuditInv`: the instruction is in the
log before any role speaks and the whole run is before it is written, so that
tool effects of failed runs have an audited instruction too. `StoreInv`: runs that
have the session open at a time have met (`Meets`), and a run that loaded another
count than the stored one has met a stored run; an entry a run has written is an
update of one that is there, or new, and then every entry of that key which has
come since is of a run it has met (`Written`, `Kept`); each run answered "ok" has
one workflow (`Done`). A commit replaces rows but never loses one of a key and
inserting run, so a run that was refused for two entries stays explained; a run in
a circle of waits holds a lock, and so does the one it waits for, so both are open.
`RunIsWhole` needs the first three (the number of steps is the number of elements
of a sequence without repetition), `ExactUnlessMet` the first and third (workflows
and entries are finite, by injections into the runs). `MemoryInv` says of a key
that is not split that at most one store is under way and that Redis has its value
or nothing, so that a store of a queue's team leaves the key whole only if Redis has
nothing; `MemoriesAgree` is the case of no store under way.

**CityJobsProofs.** The inductive invariant is `CityInv`; none of the properties is
inductive alone, since a commit makes a row and all that was told with it visible
at once.

* `Place`: what a request has loaded and decided by where it is; in particular the
  job it works on has a committed row, and the one it starts has none.
* `Writing`: an uncommitted write of a row is the only one, and is a start, a
  verdict or the step from pending to running. A write of `running` is over
  `pending` unless the job is `raced`, which is what `StatusTold` has to allow.
* `Telling`: an open word on a job is the last one that is not lost, and says what
  its transaction is about to write; the last visible word says the status. It is
  the row lock that makes the open word last: whoever could tell of the job
  after it would have to write the row first. Hence `StatusTold`.
* `Deciding`: an open veto belongs to a request that is about to tell of the failure
  or has told of it in the same transaction; a visible one has its failure visible.
* `Merging`: a merge that is not lost belongs to a request that has not told the
  outcome yet and is on its way to it, or has told it, in a transaction of its own,
  or has failed; whether the merge is open is told by where the request is. A request
  decides once on a job, and a new job has no merges, so no outcome is taken for
  another's.
* `Waving`: the families of a wave told and ended, by whether the request is before
  the first, between two or in one. The end of a family is open until the commit of
  the next start, so the two become visible or are lost together.
  With `Deciding` and `Merging` this is `DecisionsToldWhole`.
* `Versioning`: the versions of a path that are not lost rise in the order of the
  feed from 1 without gap, only the last of them may be open, and a request that is
  about to insert has seen the version before its own committed. The unique key
  lets a number pass only if nobody has it, so what passes is the next one; a
  rollback takes away the last row or none. `ArtifactHistory` turns this into
  cardinalities by the bijection of rows and versions.

The actions of a request have seven shapes (`StepKinds`): quiet steps, marking a
job as running, adding an entry, a start, a verdict, a commit and a rollback; each
conjunct of `CityInv` is then shown to survive each shape. A poll changes only
committed entries into sent ones, which no conjunct tells apart (`SameView`).
`StreamSkipsNothing` is about one step: the cursor is the largest sent position
(`SentMax`), and a page is an initial part of the unread positions
(`PageIsInitial`), so whatever is unread up to the new cursor is in the page.

Every safety invariant and action property of the passing runs is stated by a
theorem, and so is the refinement. Only model-checked are the liveness properties
(`QueuedIsSettled`, `BatchesEnd`, `EventuallyFresh`, `EveryRequestEnds`, `ComesUp`,
`EveryRunEnds`), since liveness under fairness is out of the prover's reach, and the
two violations, which TLC exhibits.

## Not modelled

* **Rate limiters**: arithmetic on wall clocks, atomic inside one Redis script or
  one process; a refused request changes nothing the models speak about.
* **Persona engine and analysis**: stateless text and floating-point formulas;
  their results are opaque contents in `PersonaCache` and `PersonaVersions`.
* **Sandbox and disk mirror**: operating-system processes and files; in `CityJobs`
  a run is over or fails.
* **LLM and Cyrex clients, settings**: HTTP calls without state of their own; the
  models see an answer, an error or a timeout.
* **The worker pool's queue**: asyncio's own. The server starts the pool and never
  calls `stop`, so its stop markers have no behaviour to check; what a worker does
  with an item is in `Governor` and `CityJobs`.
* **What members of families carry** (goals, dreams, growth, knobs), since no
  decision reads it.
* **Concurrent use of one database session** by the city tools of parallel
  specialists: what happens depends on the driver; the model runs the tools of a
  job in sequence.
* **Command line, metrics, logging, authentication, web interface, migrations**:
  no protocol state.

PostgreSQL, Redis and asyncio appear only through the semantics the code relies
on; they are marked external in the map. The database connection pool is not
modelled: a wait for a connection ends by its timeout, which `Abort`, `DbError`
and `FailAfterCommit` include.
