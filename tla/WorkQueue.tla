------------------------------ MODULE WorkQueue ------------------------------
(***************************************************************************)
(* The durable task queue of persola: the work_tasks table, the always-on  *)
(* daemon that polls it (orchestration/daemon.py), the HTTP endpoint that  *)
(* forces one tick (api/workqueue.py) and programs that use the queue's    *)
(* public methods with a transaction per call (orchestration/task_queue).  *)
(*                                                                         *)
(* A tick is ONE database transaction: recover_stale, the claiming SELECT  *)
(* ... FOR UPDATE SKIP LOCKED, the execution of the team and the outcome   *)
(* share a session that commits at the end.  "status" is therefore the     *)
(* COMMITTED column; what a tick has written and not committed is kept in  *)
(* locks, recovered and cur.  The team's own writes (its INSTRUCTION audit *)
(* entry, tasks it delegates) go through other sessions and commit at      *)
(* once, in the middle of the tick.                                        *)
(*                                                                         *)
(* PostgreSQL semantics (read committed, row locks, SKIP LOCKED) are       *)
(* external.  Time is abstracted to whether claimed_at is older than the   *)
(* ten minutes after which recover_stale takes a claim back.               *)
(***************************************************************************)
EXTENDS Naturals

CONSTANTS
    Tasks,      \* row identities; their order is the order of created_at
    Roles,      \* org-chart roles a task is addressed to
    Daemons,    \* one run_forever loop per server process
    Requests,   \* HTTP requests that may be inside POST /tasks/{id}/tick
    Clients,    \* users of AgentTaskQueue that commit every call
    MaxFaults   \* bound: crashes, database errors, outages and expiries together

NoTask == 0
NoRole == "none"

ASSUME TasksAssumption == Tasks \subseteq Nat \ {NoTask}
ASSUME RolesAssumption == NoRole \notin Roles
ASSUME WorkersAssumption == Daemons \cap Requests = {}
ASSUME FaultsAssumption == MaxFaults \in Nat

Workers == Daemons \cup Requests

VARIABLES
    status,       \* committed work_tasks.status, "absent" before the insert
    role,         \* committed work_tasks.role
    claimedAt,    \* committed work_tasks.claimed_at: never, recent or old
    pc,           \* where each worker's tick is
    want,         \* the task a tick request was made for
    locks,        \* row locks of the worker's open transaction
    recovered,    \* rows its recover_stale re-queued, uncommitted
    cur,          \* the task its tick has claimed
    hold,         \* the task each client believes it works on
    llmUp,        \* llm.is_available()
    faults,       \* crashes, errors, outages and expiries so far
    instructed,   \* INSTRUCTION audit rows the executions of a task committed
    outcomes,     \* committed outcome records (audit entry and city event)
    interrupted,  \* history: executions whose tick was rolled back
    disputed      \* history: a claim expired while its client still worked,
                  \* or a completed tick fell into its except branch

vars == <<status, role, claimedAt, pc, want, locks, recovered, cur, hold,
          llmUp, faults, instructed, outcomes, interrupted, disputed>>

rows == <<status, role, claimedAt>>
history == <<instructed, outcomes, interrupted, disputed>>

-----------------------------------------------------------------------------
Open == {"queued", "claimed", "in_progress"}
Settled == {"done", "failed", "blocked"}
Statuses == Open \cup Settled

\* The phases of a tick: a transaction is open up to "running", and "answer"
\* is between the commit of a completed task and the end of the try block.
InTick == {"recover", "select", "claimed", "running", "answer"}

Phases == InTick \cup {"idle", "dead", "down"}

Init ==
    /\ status = [t \in Tasks |-> "absent"]
    /\ role = [t \in Tasks |-> NoRole]
    /\ claimedAt = [t \in Tasks |-> "never"]
    /\ pc = [w \in Workers |-> "idle"]
    /\ want = [q \in Requests |-> NoTask]
    /\ locks = [w \in Workers |-> {}]
    /\ recovered = [w \in Workers |-> {}]
    /\ cur = [w \in Workers |-> NoTask]
    /\ hold = [c \in Clients |-> NoTask]
    /\ llmUp = TRUE
    /\ faults = 0
    /\ instructed = [t \in Tasks |-> 0]
    /\ outcomes = [t \in Tasks |-> 0]
    /\ interrupted = [t \in Tasks |-> 0]
    /\ disputed = [t \in Tasks |-> FALSE]

-----------------------------------------------------------------------------
(* The rows of the table.                                                  *)

\* INSERT of a queued row.  Identities are taken in any order: a row whose
\* created_at is older may be committed after a younger one.
CreateTask(t, r) ==
    /\ status[t] = "absent"
    /\ status' = [status EXCEPT ![t] = "queued"]
    /\ role' = [role EXCEPT ![t] = r]
    /\ UNCHANGED claimedAt

\* Mutant of StaleClaims: the age of the claim is not compared.
StaleClaimsAnyAge == {t \in Tasks : status[t] \in {"claimed", "in_progress"}}

\* The WHERE clause of recover_stale, over committed rows.
StaleClaims == {t \in Tasks : /\ status[t] \in {"claimed", "in_progress"}
                              /\ claimedAt[t] \in {"never", "old"}}

LockedByOthers(w) == UNION {locks[v] : v \in Workers \ {w}}
Locked == UNION {locks[v] : v \in Workers}

\* The roles a worker claims: a daemon has role=None, a tick request takes
\* the role of the task it was made for.
Filter(w) == IF w \in Daemons THEN Roles ELSE {role[want[w]]}

\* Mutant of Claimable: the SELECT without FOR UPDATE SKIP LOCKED.
ClaimableUnlocked(w) ==
    {t \in Tasks : /\ status[t] = "queued" \/ t \in recovered[w]
                   /\ role[t] \in Filter(w)}

\* What SELECT ... FOR UPDATE SKIP LOCKED returns to worker w and locks: it
\* has no LIMIT, so every matching queued row, not only the first.
Claimable(w) ==
    {t \in Tasks : /\ \/ status[t] = "queued" /\ t \notin LockedByOthers(w)
                      \/ t \in recovered[w]
                   /\ role[t] \in Filter(w)}

\* ORDER BY created_at, first row.
IsOldest(t, S) == t \in S /\ \A u \in S : t <= u

\* update_status: unconditional, but the UPDATE waits for the row's lock.
UpdateStatus(t, s) ==
    /\ t \notin Locked
    /\ status' = [status EXCEPT ![t] = s]
    /\ UNCHANGED <<role, claimedAt>>

\* The transaction of w is over: its locks and uncommitted writes are gone.
EndTransaction(w) ==
    /\ locks' = [locks EXCEPT ![w] = {}]
    /\ recovered' = [recovered EXCEPT ![w] = {}]

-----------------------------------------------------------------------------
(* Producers.                                                              *)

\* POST /tasks: enqueue, INSTRUCTION audit entry and commit in one request.
EnqueueTask(t, r) ==
    /\ CreateTask(t, r)
    /\ UNCHANGED <<pc, want, locks, recovered, cur, hold, llmUp, faults, history>>

\* delegate_subtask called by the executing team: enqueue opens a session of
\* its own and commits before the tick that caused it does.
Delegate(w, t, r) ==
    /\ pc[w] = "running"
    /\ CreateTask(t, r)
    /\ UNCHANGED <<pc, want, locks, recovered, cur, hold, llmUp, faults, history>>

-----------------------------------------------------------------------------
(* A tick, step by step.                                                   *)

\* run_forever: the loop is gated by available_check and starts a tick.
Poll(d) ==
    /\ pc[d] = "idle"
    /\ llmUp
    /\ pc' = [pc EXCEPT ![d] = "recover"]
    /\ UNCHANGED <<rows, want, locks, recovered, cur, hold, llmUp, faults, history>>

\* tick_single_task up to the tick: the task is read, a task that is not
\* queued or an absent LLM ends the request without effect.
TickRequest(q, t) ==
    /\ pc[q] = "idle"
    /\ status[t] = "queued"
    /\ llmUp
    /\ want' = [want EXCEPT ![q] = t]
    /\ pc' = [pc EXCEPT ![q] = "recover"]
    /\ UNCHANGED <<rows, locks, recovered, cur, hold, llmUp, faults, history>>

\* recover_stale: one UPDATE that waits for rows other transactions hold.
RecoverStale(w) ==
    /\ pc[w] = "recover"
    /\ StaleClaims \cap LockedByOthers(w) = {}
    /\ recovered' = [recovered EXCEPT ![w] = StaleClaims]
    /\ locks' = [locks EXCEPT ![w] = StaleClaims]
    /\ pc' = [pc EXCEPT ![w] = "select"]
    /\ UNCHANGED <<rows, want, cur, hold, llmUp, faults, history>>

\* Mutant of ClaimNext: the claim is committed before the execution.
ClaimNextCommitted(w) ==
    /\ pc[w] = "select"
    /\ \E t \in Tasks :
          /\ IsOldest(t, Claimable(w))
          /\ cur' = [cur EXCEPT ![w] = t]
          /\ status' = [status EXCEPT ![t] = "in_progress"]
          /\ claimedAt' = [claimedAt EXCEPT ![t] = "recent"]
    /\ pc' = [pc EXCEPT ![w] = "claimed"]
    /\ UNCHANGED <<role, want, locks, recovered, hold, llmUp, faults, history>>

\* claim_next finds a row: it is marked claimed, audited and marked
\* in_progress, all inside the open transaction.
ClaimNext(w) ==
    /\ pc[w] = "select"
    /\ \E t \in Tasks :
          /\ IsOldest(t, Claimable(w))
          /\ cur' = [cur EXCEPT ![w] = t]
    /\ locks' = [locks EXCEPT ![w] = @ \cup Claimable(w)]
    /\ pc' = [pc EXCEPT ![w] = "claimed"]
    /\ UNCHANGED <<rows, want, recovered, hold, llmUp, faults, history>>

\* claim_next finds none: the session closes without a commit, which also
\* undoes recover_stale (for a request: 409).
NothingToClaim(w) ==
    /\ pc[w] = "select"
    /\ Claimable(w) = {}
    /\ EndTransaction(w)
    /\ pc' = [pc EXCEPT ![w] = "idle"]
    /\ UNCHANGED <<rows, want, cur, hold, llmUp, faults, history>>

\* TeamOrchestrator.run starts: its INSTRUCTION entry commits at once.
BeginRun(w) ==
    /\ pc[w] = "claimed"
    /\ instructed' = [instructed EXCEPT ![cur[w]] = @ + 1]
    /\ pc' = [pc EXCEPT ![w] = "running"]
    /\ UNCHANGED <<rows, want, locks, recovered, cur, hold, llmUp, faults,
                   outcomes, interrupted, disputed>>

\* Mutant of Commit: the name of the event is stored as the status.
CommitEventName(w, outcome) ==
    /\ status' = [status EXCEPT ![cur[w]] = "completed"]
    /\ outcomes' = [outcomes EXCEPT ![cur[w]] = @ + 1]
    /\ EndTransaction(w)
    /\ IF outcome = "done"
       THEN pc' = [pc EXCEPT ![w] = "answer"] /\ UNCHANGED cur
       ELSE pc' = [pc EXCEPT ![w] = "idle"] /\ cur' = [cur EXCEPT ![w] = NoTask]
    /\ UNCHANGED <<role, claimedAt, want, hold, llmUp, faults, instructed,
                   interrupted, disputed>>

\* The commit that ends a tick: the outcome of the claimed task, its audit
\* entry and city event, and the rows recover_stale had re-queued.
Commit(w, outcome) ==
    /\ status' = [t \in Tasks |-> IF t = cur[w] THEN outcome
                                  ELSE IF t \in recovered[w] THEN "queued"
                                  ELSE status[t]]
    /\ claimedAt' = [claimedAt EXCEPT ![cur[w]] = "recent"]
    /\ outcomes' = [outcomes EXCEPT ![cur[w]] = @ + 1]
    /\ EndTransaction(w)
    /\ IF outcome = "done"
       THEN pc' = [pc EXCEPT ![w] = "answer"] /\ UNCHANGED cur
       ELSE pc' = [pc EXCEPT ![w] = "idle"] /\ cur' = [cur EXCEPT ![w] = NoTask]
    /\ UNCHANGED <<role, want, hold, llmUp, faults, instructed, interrupted, disputed>>

CompleteTask(w) == pc[w] = "running" /\ Commit(w, "done")

\* The execution, or the setup before it, raised: the except branch.
FailTask(w) == pc[w] \in {"claimed", "running"} /\ Commit(w, "failed")

\* The last statement of the try block reads the completed task back.
ReadBack(w) ==
    /\ pc[w] = "answer"
    /\ cur' = [cur EXCEPT ![w] = NoTask]
    /\ pc' = [pc EXCEPT ![w] = "idle"]
    /\ UNCHANGED <<rows, want, locks, recovered, hold, llmUp, faults, history>>

-----------------------------------------------------------------------------
(* Faults.                                                                 *)

\* Mutant of Rollback: the outcome is recorded through another session, which
\* has committed when the tick is rolled back.
RollbackKeepsRecord(w) ==
    /\ interrupted' = IF pc[w] = "running"
                      THEN [interrupted EXCEPT ![cur[w]] = @ + 1]
                      ELSE interrupted
    /\ outcomes' = IF pc[w] = "running"
                   THEN [outcomes EXCEPT ![cur[w]] = @ + 1]
                   ELSE outcomes
    /\ EndTransaction(w)
    /\ cur' = [cur EXCEPT ![w] = NoTask]
    /\ UNCHANGED <<rows, want, hold, llmUp, instructed, disputed>>

\* The open transaction is rolled back; rows keep their committed values.
Rollback(w) ==
    /\ interrupted' = IF pc[w] = "running"
                      THEN [interrupted EXCEPT ![cur[w]] = @ + 1]
                      ELSE interrupted
    /\ EndTransaction(w)
    /\ cur' = [cur EXCEPT ![w] = NoTask]
    /\ UNCHANGED <<rows, want, hold, llmUp, instructed, outcomes, disputed>>

\* The pool has no connection for that read in time: the except branch takes
\* over a task that is committed as done.  With the next connection it is
\* failed after all, with a second audit entry and city event.
FailAfterCommit(w) ==
    /\ pc[w] = "answer"
    /\ faults < MaxFaults
    /\ faults' = faults + 1
    /\ UpdateStatus(cur[w], "failed")
    /\ outcomes' = [outcomes EXCEPT ![cur[w]] = @ + 1]
    /\ disputed' = [disputed EXCEPT ![cur[w]] = TRUE]
    /\ cur' = [cur EXCEPT ![w] = NoTask]
    /\ pc' = [pc EXCEPT ![w] = "idle"]
    /\ UNCHANGED <<want, locks, recovered, hold, llmUp, instructed, interrupted>>

\* A statement or the commit of the tick's own session fails.  Outside the
\* try, or because the except branch then fails on the same session, the
\* error leaves run_forever, which nobody restarts; a request answers 500.
DbError(w) ==
    /\ pc[w] \in InTick
    /\ faults < MaxFaults
    /\ faults' = faults + 1
    /\ Rollback(w)
    /\ pc' = [pc EXCEPT ![w] = IF w \in Daemons THEN "dead" ELSE "idle"]

\* The process is killed or shut down (lifespan cancels the daemon's task):
\* CancelledError is no Exception, the except branch does not run.
Crash(w) ==
    /\ pc[w] \in IF w \in Daemons THEN Phases \ {"down"} ELSE InTick
    /\ faults < MaxFaults
    /\ faults' = faults + 1
    /\ Rollback(w)
    /\ pc' = [pc EXCEPT ![w] = IF w \in Daemons THEN "down" ELSE "idle"]

\* A new process starts a new daemon.
Restart(d) ==
    /\ pc[d] = "down"
    /\ pc' = [pc EXCEPT ![d] = "idle"]
    /\ UNCHANGED <<rows, want, locks, recovered, cur, hold, llmUp, faults, history>>

LlmOutage ==
    /\ llmUp
    /\ faults < MaxFaults
    /\ faults' = faults + 1
    /\ llmUp' = FALSE
    /\ UNCHANGED <<rows, pc, want, locks, recovered, cur, hold, history>>

LlmBack ==
    /\ ~llmUp
    /\ llmUp' = TRUE
    /\ UNCHANGED <<rows, pc, want, locks, recovered, cur, hold, faults, history>>

-----------------------------------------------------------------------------
(* Clients: AgentTaskQueue methods without a session, a commit per call.   *)

\* claim_next in a transaction of its own.
ClientClaim(c) ==
    LET free == {t \in Tasks : status[t] = "queued" /\ t \notin Locked} IN
    /\ hold[c] = NoTask
    /\ StaleClaims \cap Locked = {}
    /\ \E t \in Tasks :
          /\ IsOldest(t, free \cup StaleClaims)
          /\ status' = [u \in Tasks |-> IF u = t THEN "claimed"
                                        ELSE IF u \in StaleClaims THEN "queued"
                                        ELSE status[u]]
          /\ claimedAt' = [claimedAt EXCEPT ![t] = "recent"]
          /\ hold' = [hold EXCEPT ![c] = t]
    /\ UNCHANGED <<role, pc, want, locks, recovered, cur, llmUp, faults, history>>

MarkInProgress(c) ==
    /\ hold[c] # NoTask
    /\ UpdateStatus(hold[c], "in_progress")
    /\ UNCHANGED <<pc, want, locks, recovered, cur, hold, llmUp, faults, history>>

\* complete, fail and block.
ClientSettle(c, s) ==
    /\ hold[c] # NoTask
    /\ UpdateStatus(hold[c], s)
    /\ hold' = [hold EXCEPT ![c] = NoTask]
    /\ UNCHANGED <<pc, want, locks, recovered, cur, llmUp, faults, history>>

\* The client dies; its committed claim stays in the table.
ClientVanish(c) ==
    /\ hold[c] # NoTask
    /\ hold' = [hold EXCEPT ![c] = NoTask]
    /\ UNCHANGED <<rows, pc, want, locks, recovered, cur, llmUp, faults, history>>

\* Ten minutes pass since the row was claimed.
Expire(t) ==
    /\ status[t] \in {"claimed", "in_progress"}
    /\ claimedAt[t] = "recent"
    /\ faults < MaxFaults
    /\ faults' = faults + 1
    /\ claimedAt' = [claimedAt EXCEPT ![t] = "old"]
    /\ disputed' = [disputed EXCEPT ![t] = @ \/ \E c \in Clients : hold[c] = t]
    /\ UNCHANGED <<status, role, pc, want, locks, recovered, cur, hold, llmUp,
                   instructed, outcomes, interrupted>>

-----------------------------------------------------------------------------
Producer ==
    \E t \in Tasks, r \in Roles :
        \/ EnqueueTask(t, r)
        \/ \E w \in Workers : Delegate(w, t, r)

Tick(w) ==
    \/ RecoverStale(w)
    \/ ClaimNext(w)
    \/ NothingToClaim(w)
    \/ BeginRun(w)
    \/ CompleteTask(w)
    \/ FailTask(w)
    \/ ReadBack(w)

Fault(w) == FailAfterCommit(w) \/ DbError(w) \/ Crash(w)

Client(c) ==
    \/ ClientClaim(c)
    \/ MarkInProgress(c)
    \/ \E s \in Settled : ClientSettle(c, s)
    \/ ClientVanish(c)

Next ==
    \/ Producer
    \/ \E d \in Daemons : Poll(d) \/ Restart(d)
    \/ \E q \in Requests, t \in Tasks : TickRequest(q, t)
    \/ \E w \in Workers : Tick(w) \/ Fault(w)
    \/ LlmOutage \/ LlmBack
    \/ \E c \in Clients : Client(c)
    \/ \E t \in Tasks : Expire(t)

Spec == Init /\ [][Next]_vars

(* The loop sleeps a bounded time between polls, every statement returns   *)
(* and an execution ends (the LLM client has a timeout): each step of a    *)
(* live worker is taken eventually.  A stopped process is started again    *)
(* and an outage ends.  Nobody has to enqueue, to call the tick endpoint,  *)
(* to use the queue as a client, or to suffer a fault.                     *)
Fairness ==
    /\ \A d \in Daemons : WF_vars(Poll(d)) /\ WF_vars(Restart(d))
    /\ \A w \in Workers : WF_vars(Tick(w))
    /\ WF_vars(LlmBack)

FairSpec == Spec /\ Fairness

-----------------------------------------------------------------------------
(* Properties.                                                             *)

\* The type invariant: committed columns stay in their enumerations.
TypeOK ==
    /\ status \in [Tasks -> Statuses \cup {"absent"}]
    /\ role \in [Tasks -> Roles \cup {NoRole}]
    /\ claimedAt \in [Tasks -> {"never", "recent", "old"}]
    /\ pc \in [Workers -> Phases]
    /\ want \in [Requests -> Tasks \cup {NoTask}]
    /\ locks \in [Workers -> SUBSET Tasks]
    /\ recovered \in [Workers -> SUBSET Tasks]
    /\ cur \in [Workers -> Tasks \cup {NoTask}]
    /\ hold \in [Clients -> Tasks \cup {NoTask}]
    /\ llmUp \in BOOLEAN
    /\ faults \in 0..MaxFaults
    /\ instructed \in [Tasks -> Nat]
    /\ outcomes \in [Tasks -> Nat]
    /\ interrupted \in [Tasks -> Nat]
    /\ disputed \in [Tasks -> BOOLEAN]

Executing(w, t) == cur[w] = t /\ pc[w] \in {"claimed", "running"}

\* A task has one owner: two ticks never execute it at the same time
\* (claim_next's FOR UPDATE SKIP LOCKED), and neither a second client nor a
\* tick owns it beside a client unless the client's claim went stale.
OneOwner ==
    \A t \in Tasks :
        /\ \A v, w \in Workers : Executing(v, t) /\ Executing(w, t) => v = w
        /\ ~disputed[t] =>
              /\ \A b, c \in Clients : hold[b] = t /\ hold[c] = t => b = c
              /\ \A c \in Clients, w \in Workers : ~(hold[c] = t /\ Executing(w, t))

\* The outcome of a task is decided once: the tick records at most one
\* outcome (audit entry and city event), together with the settled status,
\* whatever was crashed, retried or re-queued before, unless reading it back
\* fails or a claim lapsed.
OneOutcome ==
    \A t \in Tasks : ~disputed[t] =>
        /\ outcomes[t] <= 1
        /\ outcomes[t] = 1 => status[t] \in {"done", "failed"}

\* A settled row is final: recover_stale, a later claim or a late tick never
\* moves it again, except after the lapse of a claim whose owner still works
\* or a failed read-back, since update_status does not check the status it
\* overwrites.
SettledIsFinal ==
    [][\A t \in Tasks : status[t] \in Settled /\ status'[t] # status[t]
                            => disputed'[t]]_vars

\* The team is instructed again on a task only when an earlier execution of
\* it was rolled back: instructions are at most the outcomes, the rolled
\* back executions and the one in progress.
InstructedOncePerAttempt ==
    \A t \in Tasks :
        instructed[t] <= interrupted[t] + outcomes[t]
                         + (IF \E w \in Workers : cur[w] = t /\ pc[w] = "running"
                            THEN 1 ELSE 0)

\* Nothing queued is forgotten: every queued task is settled eventually,
\* through crashes, outages and rollbacks, unless every daemon has died of a
\* database error.
QueuedIsSettled ==
    \A t \in Tasks : status[t] = "queued" ~>
        (status[t] \in Settled \/ \A d \in Daemons : pc[d] = "dead")

-----------------------------------------------------------------------------
(* The inductive invariant behind the safety properties.                   *)

\* A row is locked by one transaction at most.
LocksDisjoint ==
    \A v, w \in Workers : v # w => locks[v] \cap locks[w] = {}

\* A locked row is either a stale claim its transaction re-queued or a
\* queued row; nobody else can change its committed status meanwhile.
LockedRows ==
    \A w \in Workers :
        /\ recovered[w] \subseteq locks[w]
        /\ recovered[w] \subseteq StaleClaims
        /\ \A t \in locks[w] \ recovered[w] : status[t] = "queued"

\* A tick owns a row lock on the task it executes, and a worker outside a
\* transaction holds nothing.
TickHoldsTask ==
    \A w \in Workers :
        /\ pc[w] \in {"claimed", "running"} => cur[w] \in locks[w]
        /\ pc[w] = "answer" => cur[w] \in Tasks
        /\ pc[w] \notin {"claimed", "running", "answer"} => cur[w] = NoTask
        /\ pc[w] \in {"select", "claimed", "running"} \/ locks[w] = {}

\* A client whose task is undisputed is the only one that holds it, and the
\* committed row says so.
ClientOwnsRow ==
    \A t \in Tasks : ~disputed[t] =>
        \A c \in Clients : hold[c] = t =>
            /\ status[t] \in {"claimed", "in_progress"}
            /\ claimedAt[t] = "recent"
            /\ \A b \in Clients : hold[b] = t => b = c

LockInv == LocksDisjoint /\ LockedRows /\ TickHoldsTask

\* The committed table and the open transactions agree: the lock discipline
\* of claim_next and recover_stale, and the ownership of undisputed claims.
QueueInv == LockInv /\ ClientOwnsRow
=============================================================================
