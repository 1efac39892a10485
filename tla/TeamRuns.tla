----------------------------- MODULE TeamRuns -----------------------------
(***************************************************************************)
(* Team runs of one session (api/teams.py, services/team_service.py,       *)
(* orchestration/team.py).  A run finds or inserts the session row,        *)
(* inserts a workflow, asks its specialists in parallel, then the          *)
(* coordinator, and writes steps, memory entries and the session in the    *)
(* transaction it opened at the start.  What the specialists' tools do     *)
(* (team memory in Redis and in the process, delegated tasks) and what the *)
(* audit log records is outside of that transaction and takes effect at    *)
(* once.                                                                   *)
(*                                                                         *)
(* A specialist that fails ends the run at once (asyncio.gather); the      *)
(* others are not cancelled and their tools still run.  Row locks, the     *)
(* unique session id and deadlock detection are PostgreSQL's (external).   *)
(*                                                                         *)
(* The queue's teams (daemon, ticks) may run under the same session id.    *)
(* Of what they do only the stores matter here: their registry writes the  *)
(* memory of the process and never Redis.                                  *)
(*                                                                         *)
(* Texts are left out: a value is the run that wrote it, and whether it is *)
(* text already; a memory key is the role it is named after                *)
(* ("analyst:latest").  A batch of tool calls is one call; those that only *)
(* read change nothing.                                                    *)
(***************************************************************************)
EXTENDS Naturals, FiniteSets, Sequences, SequencesExt

CONSTANTS
    Runs,         \* POST /teams/invoke requests for the session
    Specialists,  \* roles a plan may name
    Coordinator,  \* the role that synthesises
    Worker,       \* whoever of the queue's teams stores a value
    WorkerRoles,  \* the keys those teams store
    Texts,        \* who stores a text; the others, a number or an object
    Mixes,        \* what runs ask for; done: the first one, long over
    MaxFaults     \* bound: lost connections, failed stores, timeouts, crashes

None == "none"

Roles == Specialists \cup {Coordinator}
Requests == [plan : Seq(Specialists), graph : BOOLEAN, persona : STRING,
             tool : {"memory_store", "delegate_subtask"}, done : BOOLEAN]

ASSUME RunsAssumption == IsFiniteSet(Runs) /\ None \notin Runs
ASSUME RolesAssumption == Coordinator \notin Specialists
ASSUME WorkerAssumption ==
    Worker \notin Runs \cup {None} /\ WorkerRoles \subseteq Roles
ASSUME FaultsAssumption == MaxFaults \in Nat
ASSUME MixesAssumption ==
    \A m \in Mixes :
        /\ DOMAIN m \subseteq Runs
        /\ \A r \in DOMAIN m :
              m[r] \in Requests /\ m[r].plan # <<>> /\ IsInjective(m[r].plan)
        /\ Cardinality({r \in DOMAIN m : m[r].done}) <= 1

VARIABLES
    session,    \* is the session row committed?
    count,      \* its message_count
    persona,    \* its persona_id
    rows,       \* committed team_memory rows: key, inserted by, value of
    workflows,  \* committed workflows with their steps
    audit,      \* audit events of the runs
    tasks,      \* delegated subtasks
    redis,      \* team memory in Redis: who wrote the value of a key
    local,      \* team memory of the process, likewise
    ask,        \* what a run asks for
    pc,         \* what a run does next, in the end its answer
    seen,       \* message_count as it loaded it
    writer,     \* the run with uncommitted changes of the session row
    phase,      \* what each role of a run does
    order,      \* roles in the order of the run's outputs
    at,         \* its position in that order
    target,     \* the row it is about to update
    wrote,      \* the memory rows it has written, uncommitted
    faults,     \* faults so far
    met,        \* history: pairs of runs that had the session open at a time
    split       \* history: keys whose two stores were not written together

database == <<session, count, persona, rows, workflows>>
memory == <<redis, local, split>>
effects == <<audit, tasks, memory>>
cursor == <<order, at, target>>
vars == <<database, effects, ask, pc, seen, writer, phase, cursor, wrote,
          faults, met>>

Ended == {"ok", "conflict", "ambiguous", "deadlock", "error"}
Open(r) == pc[r] \notin Ended \cup {"idle", "create"}

-----------------------------------------------------------------------------
Row(k, b, v) == [key |-> k, by |-> b, val |-> v]
Event(r, t, a) == [run |-> r, type |-> t, actor |-> a]
Plan(r) == ToSet(ask[r].plan)

\* What a run leaves behind: workflow and steps, audit events.
Workflow(r, steps) == [run |-> r, status |-> "completed", steps |-> steps]
Told(r, steps) ==
    {Event(r, IF s = Coordinator THEN "reply" ELSE "decision", s) : s \in ToSet(steps)}
        \cup {Event(r, "instruction", "user")}

\* The committed rows of a memory key, and the run that has one locked.
Entries(k) == {w \in rows : w.key = k}
LockedBy(r, k, b) == \E w \in wrote[r] : w.key = k /\ w.by = b

Init ==
    /\ ask \in Mixes
    /\ LET over == {r \in DOMAIN ask : ask[r].done}
           steps(r) == Append(ask[r].plan, Coordinator)
       IN  /\ session = (over # {})
           /\ count = 2 * Cardinality(over)
           /\ rows = UNION {{Row(k, r, r) : k \in ToSet(steps(r))} : r \in over}
           /\ workflows = {Workflow(r, steps(r)) : r \in over}
           /\ audit = UNION {Told(r, steps(r)) : r \in over}
           /\ pc = [r \in Runs |-> IF r \in over THEN "ok" ELSE "idle"]
    /\ persona = None
    /\ tasks = {}
    /\ redis = [k \in Roles |-> None]
    /\ local = [k \in Roles |-> None]
    /\ seen = [r \in Runs |-> 0]
    /\ writer = None
    /\ phase = [r \in Runs |-> [k \in Roles |-> "out"]]
    /\ order = [r \in Runs |-> <<>>]
    /\ at = [r \in Runs |-> 1]
    /\ target = [r \in Runs |-> None]
    /\ wrote = [r \in Runs |-> {}]
    /\ faults = 0
    /\ met = {}
    /\ split = {}

Go(r, p) == pc' = [pc EXCEPT ![r] = p]
Phase(r, k, p) == phase' = [phase EXCEPT ![r][k] = p]
Fault == faults < MaxFaults /\ faults' = faults + 1
NoFault == UNCHANGED faults

\* The run is over and its locals are gone.
Forget(r) ==
    /\ wrote' = [wrote EXCEPT ![r] = {}]
    /\ writer' = IF writer = r THEN None ELSE writer
    /\ seen' = [seen EXCEPT ![r] = 0]
    /\ order' = [order EXCEPT ![r] = <<>>]
    /\ at' = [at EXCEPT ![r] = 1]
    /\ target' = [target EXCEPT ![r] = None]

\* Mutant of Fail: the transaction is left open.
FailWithoutRollback(r, answer) ==
    /\ Go(r, answer)
    /\ UNCHANGED <<database, ask, met, wrote, writer, seen, cursor>>

\* invoke_team: any exception rolls back and answers 500.
Fail(r, answer) ==
    /\ Go(r, answer)
    /\ Forget(r)
    /\ UNCHANGED <<database, ask, met>>

-----------------------------------------------------------------------------
\* _resolve_or_create_session.
Load(r) ==
    /\ seen' = [seen EXCEPT ![r] = count]
    /\ met' = met \cup {{r, q} : q \in {q \in Runs : Open(q)}}

Resolve(r) ==
    /\ pc[r] = "idle" /\ r \in DOMAIN ask
    /\ IF session
       THEN /\ Load(r)
            /\ Go(r, IF ask[r].persona \in {None, persona} THEN "instruct" ELSE "persona")
       ELSE Go(r, "create") /\ UNCHANGED <<seen, met>>
    /\ UNCHANGED <<database, effects, ask, writer, phase, cursor, wrote, faults>>

\* The insert waits for one of the same external_session_id.
CreateSession(r) ==
    /\ pc[r] = "create" /\ writer = None
    /\ IF session
       THEN Fail(r, "conflict")
       ELSE /\ writer' = r
            /\ Load(r)
            /\ Go(r, "instruct")
            /\ UNCHANGED <<database, ask, cursor, wrote>>
    /\ UNCHANGED <<effects, phase, faults>>

\* Another persona: the row stays locked for the rest of the run.
SetPersona(r) ==
    /\ pc[r] = "persona" /\ writer = None
    /\ writer' = r
    /\ Go(r, "instruct")
    /\ UNCHANGED <<database, effects, ask, seen, phase, cursor, wrote, faults, met>>

\* TeamOrchestrator.run: the instruction is audited, the specialists start.
Instruct(r) ==
    /\ pc[r] = "instruct"
    /\ audit' = audit \cup {Event(r, "instruction", "user")}
    /\ phase' = [phase EXCEPT ![r] =
                    [k \in Roles |-> IF k \in Plan(r) THEN "llm" ELSE "out"]]
    /\ Go(r, "team")
    /\ UNCHANGED <<database, tasks, memory, ask, seen, writer, cursor, wrote,
                   faults, met>>

\* An answer of the LLM.  The coordinator of a graph runs no tools.
Answered(r, k) ==
    /\ phase[r][k] = "llm"
    /\ Phase(r, k, IF k = Coordinator /\ ask[r].graph THEN "done" ELSE "tool")
    /\ order' = [order EXCEPT ![r] = IF Open(r) THEN Append(@, k) ELSE @]
    /\ UNCHANGED <<database, effects, ask, pc, seen, writer, at, target, wrote,
                   faults, met>>

\* The provider fails.  Of a run that is over nobody takes the exception.
LlmFails(r, k) ==
    /\ phase[r][k] = "llm" /\ Fault
    /\ Phase(r, k, "done")
    /\ IF Open(r)
       THEN Fail(r, "error")
       ELSE UNCHANGED <<database, ask, pc, seen, writer, cursor, wrote, met>>
    /\ UNCHANGED effects

-----------------------------------------------------------------------------
\* delegate_subtask: enqueued in a transaction of its own.
Delegate(r, k) ==
    /\ phase[r][k] = "tool" /\ ask[r].tool = "delegate_subtask"
    /\ tasks' = tasks \cup {<<r, k>>}
    /\ Phase(r, k, "done")
    /\ UNCHANGED <<database, audit, memory, ask, pc, seen, writer, cursor, wrote,
                   faults, met>>

Storing(k) == {r \in Runs : phase[r][k] = "local"}

\* memory_store, also what is done when the output calls no tool: Redis
\* first, where errors are swallowed.
StoreRedis(r, k) ==
    /\ phase[r][k] = "tool" /\ ask[r].tool = "memory_store"
    /\ Phase(r, k, "local")
    /\ \/ /\ redis' = [redis EXCEPT ![k] = r]
          /\ split' = IF Storing(k) = {} THEN split \ {k} ELSE split \cup {k}
          /\ NoFault
       \/ /\ Fault
          /\ split' = IF Storing(k) = {} /\ redis[k] = None
                      THEN split ELSE split \cup {k}
          /\ UNCHANGED redis
    /\ UNCHANGED <<database, audit, tasks, local, ask, pc, seen, writer, cursor,
                   wrote, met>>

\* Mutant of StoreLocal: a key that is there is not overwritten.
StoreLocalOnce(r, k) ==
    /\ phase[r][k] = "local"
    /\ local' = [local EXCEPT ![k] = IF @ = None THEN r ELSE @]
    /\ Phase(r, k, "done")
    /\ UNCHANGED <<database, audit, tasks, redis, split, ask, pc, seen, writer,
                   cursor, wrote, faults, met>>

\* ... then the memory of the process.
StoreLocal(r, k) ==
    /\ phase[r][k] = "local"
    /\ local' = [local EXCEPT ![k] = r]
    /\ Phase(r, k, "done")
    /\ UNCHANGED <<database, audit, tasks, redis, split, ask, pc, seen, writer,
                   cursor, wrote, faults, met>>

\* run_one: a tool that raises or takes too long is given up; the run goes on.
ToolFails(r, k) ==
    /\ phase[r][k] \in {"tool", "local"} /\ Fault
    /\ split' = IF phase[r][k] = "local" THEN split \cup {k} ELSE split
    /\ Phase(r, k, "done")
    /\ UNCHANGED <<database, audit, tasks, redis, local, ask, pc, seen, writer,
                   cursor, wrote, met>>

\* Keys the runs store.  Redis has no other key, so what others store under
\* another one cannot differ from anything, and is left out.
RunsStore(k) ==
    \E r \in DOMAIN ask :
        ask[r].tool = "memory_store" /\ ~ask[r].done /\ k \in Plan(r) \cup {Coordinator}

\* memory_store of the default registry, for a task of the queue whose session
\* id is this one's: the memory of the process alone.
WorkerStores(k) ==
    /\ k \in WorkerRoles /\ RunsStore(k)
    /\ local' = [local EXCEPT ![k] = Worker]
    /\ split' = IF Storing(k) = {} /\ redis[k] # None THEN split \cup {k} ELSE split
    /\ UNCHANGED <<database, audit, tasks, redis, ask, pc, seen, writer, phase,
                   cursor, wrote, faults, met>>

\* The two memories: Redis has the value as it is, the process has str(value)
\* of a run and the value as it is of a team of the queue.
Value(w) == [by |-> w, text |-> w \in Texts]
Str(v) == [v EXCEPT !.text = TRUE]
InRedis(k) == Value(redis[k])
InProcess(k) == IF local[k] = Worker THEN Value(Worker) ELSE Str(Value(local[k]))

\* _recall: Redis wins.
Recall(k) == IF redis[k] # None THEN InRedis(k) ELSE InProcess(k)

-----------------------------------------------------------------------------
\* Mutant of Gathered: the coordinator starts with the first specialist done.
GatheredFirst(r) ==
    /\ pc[r] = "team"
    /\ \E k \in Plan(r) : phase[r][k] = "done"
    /\ order' = [order EXCEPT ![r] = IF ask[r].graph THEN @ ELSE ask[r].plan]
    /\ Phase(r, Coordinator, "llm")
    /\ Go(r, "coordinate")
    /\ UNCHANGED <<database, effects, ask, seen, writer, at, target, wrote,
                   faults, met>>

\* All specialists are back.  The outputs of a graph are in the order of the
\* answers, those of a chain in the order of the plan.
Gathered(r) ==
    /\ pc[r] = "team"
    /\ \A k \in Plan(r) : phase[r][k] = "done"
    /\ order' = [order EXCEPT ![r] = IF ask[r].graph THEN @ ELSE ask[r].plan]
    /\ Phase(r, Coordinator, "llm")
    /\ Go(r, "coordinate")
    /\ UNCHANGED <<database, effects, ask, seen, writer, at, target, wrote,
                   faults, met>>

\* Decisions and the reply are audited one by one, each committed.
Report(r) ==
    /\ pc[r] = "coordinate" /\ phase[r][Coordinator] = "done"
    /\ LET k == order[r][at[r]]
       IN  audit' = audit \cup
               {Event(r, IF k = Coordinator THEN "reply" ELSE "decision", k)}
    /\ IF at[r] < Len(order[r])
       THEN at' = [at EXCEPT ![r] = @ + 1] /\ UNCHANGED pc
       ELSE at' = [at EXCEPT ![r] = 1] /\ Go(r, "persist")
    /\ UNCHANGED <<database, tasks, memory, ask, seen, writer, phase, order,
                   target, wrote, faults, met>>

\* The step is added, then upsert_entry looks for the entry of its role.
Put(r, k, b) ==
    /\ wrote' = [wrote EXCEPT ![r] = @ \cup {Row(k, b, r)}]
    /\ at' = [at EXCEPT ![r] = @ + 1]

\* Mutant of SelectEntry: the entry is inserted without a look.
SelectEntryNever(r) ==
    /\ pc[r] = "persist" /\ at[r] <= Len(order[r])
    /\ Put(r, order[r][at[r]], r)
    /\ UNCHANGED <<database, effects, ask, pc, seen, writer, phase, order, target,
                   faults, met>>

SelectEntry(r) ==
    /\ pc[r] = "persist" /\ at[r] <= Len(order[r])
    /\ LET k == order[r][at[r]]
       IN  \/ /\ Entries(k) = {}
              /\ Put(r, k, r)
              /\ UNCHANGED <<database, ask, pc, seen, writer, order, target, met>>
           \/ /\ Cardinality(Entries(k)) = 1
              /\ \E w \in Entries(k) : target' = [target EXCEPT ![r] = w.by]
              /\ Go(r, "update")
              /\ UNCHANGED <<database, ask, seen, writer, order, at, wrote, met>>
           \/ Cardinality(Entries(k)) > 1 /\ Fail(r, "ambiguous")
    /\ UNCHANGED <<effects, phase, faults>>

\* The flush waits for the run that has the row locked.
UpdateEntry(r) ==
    /\ pc[r] = "update"
    /\ LET k == order[r][at[r]]
       IN  /\ \A q \in Runs : ~LockedBy(q, k, target[r])
           /\ Put(r, k, target[r])
    /\ target' = [target EXCEPT ![r] = None]
    /\ Go(r, "persist")
    /\ UNCHANGED <<database, effects, ask, seen, writer, phase, order, faults, met>>

\* The end of _persist_run: the session row with the count from memory, the
\* workflow, the commit.
Store(r) ==
    /\ pc[r] = "persist" /\ at[r] > Len(order[r])
    /\ writer \in {None, r}
    /\ rows' = {w \in rows : ~LockedBy(r, w.key, w.by)} \cup wrote[r]
    /\ workflows' = workflows \cup {Workflow(r, order[r])}
    /\ count' = seen[r] + 2
    /\ persona' = IF writer = r THEN ask[r].persona ELSE persona
    /\ session' = TRUE
    /\ Go(r, "ok")
    /\ Forget(r)
    /\ UNCHANGED <<effects, ask, phase, faults, met>>

-----------------------------------------------------------------------------
\* Waiting for a row, and a circle of such waits.
WaitsFor(r, q) ==
    /\ q # r
    /\ \/ /\ \/ pc[r] \in {"create", "persona"}
             \/ pc[r] = "persist" /\ at[r] > Len(order[r])
          /\ writer = q
       \/ pc[r] = "update" /\ LockedBy(q, order[r][at[r]], target[r])

Deadlocked(r) ==
    \E S \in SUBSET Runs :
        /\ r \in S
        /\ \A q \in S : /\ \E p \in S : WaitsFor(q, p)
                        /\ \E p \in S : WaitsFor(p, q)

\* PostgreSQL ends one run of a circle.
Deadlock(r) ==
    /\ Deadlocked(r)
    /\ Fail(r, "deadlock")
    /\ UNCHANGED <<effects, phase, faults>>

\* A statement fails or the connection is lost.
Abandon(r) ==
    /\ pc[r] \notin Ended \cup {"idle"} /\ Fault
    /\ Fail(r, "error")
    /\ UNCHANGED <<effects, phase>>

\* The server stops: open runs and what is left of others go with it.
Crash ==
    /\ Fault
    /\ pc' = [r \in Runs |-> IF pc[r] \in Ended \cup {"idle"} THEN pc[r] ELSE "error"]
    /\ phase' = [r \in Runs |-> [k \in Roles |-> "out"]]
    /\ local' = [k \in Roles |-> None]
    /\ wrote' = [r \in Runs |-> {}]
    /\ writer' = None
    /\ seen' = [r \in Runs |-> 0]
    /\ order' = [r \in Runs |-> <<>>]
    /\ at' = [r \in Runs |-> 1]
    /\ target' = [r \in Runs |-> None]
    /\ UNCHANGED <<database, audit, tasks, redis, split, ask, met>>

\* The hash of the session expires, a day after the last store.
Expire ==
    /\ Fault
    /\ redis' = [k \in Roles |-> None]
    /\ UNCHANGED <<database, audit, tasks, local, split, ask, pc, seen, writer,
                   phase, cursor, wrote, met>>

Work(r) ==
    \/ CreateSession(r) \/ SetPersona(r) \/ Instruct(r)
    \/ Gathered(r) \/ Report(r)
    \/ SelectEntry(r) \/ UpdateEntry(r) \/ Store(r)
    \/ Deadlock(r)

Speak(r) ==
    \E k \in Roles :
        Answered(r, k) \/ Delegate(r, k) \/ StoreRedis(r, k) \/ StoreLocal(r, k)

Next ==
    \/ \E r \in Runs :
        \/ Resolve(r) \/ Work(r) \/ Speak(r) \/ Abandon(r)
        \/ \E k \in Roles : LlmFails(r, k) \/ ToolFails(r, k)
    \/ \E k \in WorkerRoles : WorkerStores(k)
    \/ Crash \/ Expire

Spec == Init /\ [][Next]_vars

\* The event loop runs what is ready, the HTTP clients and the tools have
\* timeouts, and PostgreSQL looks for deadlocks.
FairSpec == Spec /\ \A r \in Runs : WF_vars(Work(r) \/ Speak(r))

-----------------------------------------------------------------------------
TypeOK ==
    /\ session \in BOOLEAN /\ count \in Nat
    /\ rows \subseteq [key : Roles, by : Runs, val : Runs]
    /\ workflows \subseteq [run : Runs, status : {"completed"}, steps : Seq(Roles)]
    /\ audit \subseteq [run : Runs, type : {"instruction", "decision", "reply"},
                        actor : Roles \cup {"user"}]
    /\ tasks \subseteq Runs \X Roles
    /\ redis \in [Roles -> Runs \cup {None}]
    /\ local \in [Roles -> Runs \cup {None, Worker}]
    /\ ask \in Mixes
    /\ pc \in [Runs -> Ended \cup {"idle", "create", "persona", "instruct", "team",
                                  "coordinate", "persist", "update"}]
    /\ seen \in [Runs -> Nat] /\ writer \in Runs \cup {None}
    /\ phase \in [Runs -> [Roles -> {"out", "llm", "tool", "local", "done"}]]
    /\ order \in [Runs -> Seq(Roles)] /\ at \in [Runs -> Nat]
    /\ target \in [Runs -> Runs \cup {None}]
    /\ wrote \in [Runs -> SUBSET [key : Roles, by : Runs, val : Runs]]
    /\ faults \in 0..MaxFaults /\ met \subseteq SUBSET Runs /\ split \subseteq Roles

\* Runs are stored whole or not at all: a stored workflow has a step for each
\* specialist of its plan and last one for the coordinator, all of it is in
\* the audit log, and every role has a memory entry.  Runs answered "ok" are
\* exactly the stored ones, memory entries hold outputs of stored runs alone,
\* and behind every tool effect of a run, also of one that failed, there is
\* an audited instruction.
RunIsWhole ==
    /\ \A w \in workflows :
          /\ pc[w.run] = "ok"
          /\ Len(w.steps) = Len(ask[w.run].plan) + 1
          /\ ToSet(w.steps) = Plan(w.run) \cup {Coordinator}
          /\ Last(w.steps) = Coordinator
          /\ Told(w.run, w.steps) \subseteq audit
          /\ \A k \in ToSet(w.steps) : Entries(k) # {}
    /\ \A r \in Runs : pc[r] = "ok" =>
          Cardinality({w \in workflows : w.run = r}) = 1
    /\ \A w \in rows : pc[w.val] = "ok" /\ pc[w.by] = "ok"
    /\ \A r \in {t[1] : t \in tasks} \cup {redis[k] : k \in Roles}
                   \cup {local[k] : k \in Roles} :
          r \notin {None, Worker} => Event(r, "instruction", "user") \in audit

\* The only cause of trouble is runs of the session that were open at the
\* same time: without a stored pair of those the message count is two for
\* each workflow; two entries of one key were inserted by such a pair; and a
\* run refused for two entries, or ended by a deadlock, has met another.
ExactUnlessMet ==
    /\ session => count >= 2
    /\ count # 2 * Cardinality(workflows) =>
          \E v, w \in workflows : v # w /\ {v.run, w.run} \in met
    /\ \A v, w \in rows : v.key = w.key /\ v # w => {v.by, w.by} \in met
    /\ \A r \in Runs :
          /\ pc[r] = "deadlock" => \E q \in Runs \ {r} : {r, q} \in met
          /\ pc[r] = "ambiguous" =>
                \E k \in Plan(r) \cup {Coordinator} : Cardinality(Entries(k)) > 1

\* What memory_recall of a run returns is what was stored last, as text: once
\* no store of a key is under way, Redis, if it has the key, agrees with the
\* memory of the process, unless the last stores overlapped, failed in Redis
\* or timed out, or a team of the queue stored the key when Redis had it.
MemoriesAgree ==
    \A k \in Roles \ split :
        Storing(k) = {} /\ local[k] # None => Str(Recall(k)) = Str(InProcess(k))

\* Every run is answered, and the specialists a failed run leaves behind come
\* to an end as well: again and again nothing of any run is left to do.
AtRest(r) ==
    /\ pc[r] \in Ended \cup {"idle"}
    /\ \A k \in Roles : phase[r][k] \in {"out", "done"}

EveryRunEnds == []<>(\A r \in Runs : AtRest(r))
=============================================================================
