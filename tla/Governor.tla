------------------------------ MODULE Governor ------------------------------
(***************************************************************************)
(* Concurrency limits of the city's tool batches: the ConcurrencyGovernor  *)
(* (orchestration/city_scale.py) and its two kinds of caller.  An HTTP     *)
(* call runs CityService.execute_tool_calls governed; a pool worker        *)
(* (orchestration/city_worker.py) takes the slots itself and runs it       *)
(* ungoverned.                                                             *)
(*                                                                         *)
(* A batch holds one slot of each of four semaphores: city, family,        *)
(* district shard, job, taken one by one in this order.  Around them stands *)
(* the row of the job: a batch that reads status "pending" writes          *)
(* "running" and so locks the row in its transaction.  An HTTP call does   *)
(* that BEFORE it takes its slots, a pool worker AFTER.                    *)
(*                                                                         *)
(* The semaphores of a family, a district and a job are created on first   *)
(* use under a lock; here they exist from the start.  asyncio.Semaphore    *)
(* and the PostgreSQL row lock are external; both serve waiters in order,  *)
(* which the specification keeps only as strong fairness.                  *)
(***************************************************************************)
EXTENDS Integers, FiniteSets

CONSTANTS
    Workers,      \* pool workers
    Calls,        \* HTTP calls that run a governed batch
    Jobs,         \* city_jobs rows
    FamilyOf,     \* the family of each job
    DistrictOf,   \* the district of each job
    MaxGlobal, MaxFamily, MaxDistrict, MaxJob,
    StartStatuses,  \* statuses jobs were created with
    MaxFaults       \* bound on failed batches and cancelled waits

Callers == Workers \cup Calls
NoCaller == "nobody"
NoJob == "none"

ASSUME CallersAssumption ==
    /\ Workers \cap Calls = {}
    /\ IsFiniteSet(Workers) /\ IsFiniteSet(Calls)
    /\ NoCaller \notin Callers
ASSUME JobsAssumption == NoJob \notin Jobs
ASSUME LimitsAssumption ==
    /\ MaxGlobal \in Nat /\ MaxFamily \in Nat
    /\ MaxDistrict \in Nat /\ MaxJob \in Nat
ASSUME StatusAssumption == StartStatuses \subseteq {"pending", "running"}
ASSUME FaultsAssumption == MaxFaults \in Nat

VARIABLES
    phase,      \* where each caller is
    jobOf,      \* the job of its batch
    level,      \* how many of the four slots it has taken
    free,       \* the value of each semaphore
    active,     \* active_global, active_by_family, ..._district, ..._job
    jobStatus,  \* committed city_jobs.status
    rowLock,    \* the caller with an uncommitted UPDATE of the job's row
    faults      \* failed batches and cancelled waits so far

vars == <<phase, jobOf, level, free, active, jobStatus, rowLock, faults>>

-----------------------------------------------------------------------------
Districts == {"build", "viz", "research", "ops"}

\* shard_for_district
Shard(d) == IF d \in Districts THEN d ELSE "build"

\* The semaphores of a batch on job j, in the order acquire takes them.
SemOf(j, i) == <<i, <<"city", FamilyOf[j], Shard(DistrictOf[j]), j>>[i]>>

Sems == {SemOf(j, i) : j \in Jobs, i \in 1..4}

Limit(s) == <<MaxGlobal, MaxFamily, MaxDistrict, MaxJob>>[s[1]]

Held(c) == {SemOf(jobOf[c], i) : i \in 1..level[c]}

Phases == {"idle", "read", "flush", "acquire", "tools"}

Init ==
    /\ phase = [c \in Callers |-> "idle"]
    /\ jobOf = [c \in Callers |-> NoJob]
    /\ level = [c \in Callers |-> 0]
    /\ free = [s \in Sems |-> Limit(s)]
    /\ active = [s \in Sems |-> 0]
    /\ jobStatus \in [Jobs -> StartStatuses]
    /\ rowLock = [j \in Jobs |-> NoCaller]
    /\ faults = 0

-----------------------------------------------------------------------------
\* A request arrives, or a worker takes an item from its queue.  The call
\* opens its session and reads the job first, the worker takes slots first.
Start(c, j) ==
    /\ phase[c] = "idle"
    /\ jobOf' = [jobOf EXCEPT ![c] = j]
    /\ phase' = [phase EXCEPT ![c] = IF c \in Workers THEN "acquire" ELSE "read"]
    /\ UNCHANGED <<level, free, active, jobStatus, rowLock, faults>>

\* Where a batch goes once the job's row is dealt with.
Onward(c) == IF c \in Workers THEN "tools" ELSE "acquire"

\* jobs.get: the committed status decides whether the row will be written.
ReadJob(c) ==
    /\ phase[c] = "read"
    /\ phase' = [phase EXCEPT ![c] = IF jobStatus[jobOf[c]] = "pending"
                                     THEN "flush" ELSE Onward(c)]
    /\ UNCHANGED <<jobOf, level, free, active, jobStatus, rowLock, faults>>

\* flush of status = running: the UPDATE waits for the row and locks it.
Flush(c) ==
    /\ phase[c] = "flush"
    /\ rowLock[jobOf[c]] = NoCaller
    /\ rowLock' = [rowLock EXCEPT ![jobOf[c]] = c]
    /\ phase' = [phase EXCEPT ![c] = Onward(c)]
    /\ UNCHANGED <<jobOf, level, free, active, jobStatus, faults>>

\* Mutant of NextSem: calls take the slots from the job's to the city's.
NextSemReversed(c) == SemOf(jobOf[c], IF c \in Calls THEN 4 - level[c]
                                                     ELSE level[c] + 1)

\* The next of the four slots a caller takes.
NextSem(c) == SemOf(jobOf[c], level[c] + 1)

\* Mutant of SlotFree: off by one.
SlotFreeOffByOne(c) == free[NextSem(c)] >= 0

SlotFree(c) == free[NextSem(c)] > 0

\* One await of acquire.  The last one also counts the batch, and a worker
\* then opens its session.
AcquireSlot(c) ==
    /\ phase[c] = "acquire"
    /\ SlotFree(c)
    /\ free' = [free EXCEPT ![NextSem(c)] = @ - 1]
    /\ level' = [level EXCEPT ![c] = @ + 1]
    /\ phase' = [phase EXCEPT ![c] = IF level[c] < 3 THEN "acquire"
                                     ELSE IF c \in Workers THEN "read" ELSE "tools"]
    /\ active' = IF level[c] < 3 THEN active
                 ELSE [s \in Sems |-> active[s] + IF s \in Held(c) \cup {NextSem(c)}
                                                  THEN 1 ELSE 0]
    /\ UNCHANGED <<jobOf, jobStatus, rowLock, faults>>

\* A tool of the batch commits its artifact, run or event, and with it the
\* job's new status: the row is unlocked long before the batch ends.
ToolCommit(c) ==
    /\ phase[c] = "tools"
    /\ rowLock[jobOf[c]] = c
    /\ jobStatus' = [jobStatus EXCEPT ![jobOf[c]] = "running"]
    /\ rowLock' = [rowLock EXCEPT ![jobOf[c]] = NoCaller]
    /\ UNCHANGED <<phase, jobOf, level, free, active, faults>>

-----------------------------------------------------------------------------
\* Mutant of Release: the slot of the job is not given back.
ReleaseNotJob(c) ==
    /\ free' = [s \in Sems |-> free[s] + IF s \in Held(c) /\ s[1] # 4 THEN 1 ELSE 0]
    /\ active' = [s \in Sems |-> IF s \in Held(c) /\ active[s] > 0
                                 THEN active[s] - 1 ELSE active[s]]

\* Mutant of Release: the counter of the district is forgotten.
ReleaseNotCounted(c) ==
    /\ free' = [s \in Sems |-> free[s] + IF s \in Held(c) THEN 1 ELSE 0]
    /\ active' = [s \in Sems |-> IF s \in Held(c) /\ s[1] # 3 /\ active[s] > 0
                                 THEN active[s] - 1 ELSE active[s]]

\* release: the four slots come back, the counters go down to no less than 0.
Release(c) ==
    /\ free' = [s \in Sems |-> free[s] + IF s \in Held(c) THEN 1 ELSE 0]
    /\ active' = [s \in Sems |-> IF s \in Held(c) /\ active[s] > 0
                                 THEN active[s] - 1 ELSE active[s]]

\* The session closes: an uncommitted UPDATE is undone and unlocked.
RollbackRow(c) ==
    /\ rowLock' = [j \in Jobs |-> IF rowLock[j] = c THEN NoCaller ELSE rowLock[j]]
    /\ UNCHANGED jobStatus

Leave(c) ==
    /\ phase' = [phase EXCEPT ![c] = "idle"]
    /\ jobOf' = [jobOf EXCEPT ![c] = NoJob]
    /\ level' = [level EXCEPT ![c] = 0]

\* The final commit of execute_tool_calls and the release that follows it.
Finish(c) ==
    /\ phase[c] = "tools"
    /\ jobStatus' = [jobStatus EXCEPT
                        ![jobOf[c]] = IF rowLock[jobOf[c]] = c THEN "running" ELSE @]
    /\ rowLock' = [j \in Jobs |-> IF rowLock[j] = c THEN NoCaller ELSE rowLock[j]]
    /\ Release(c)
    /\ Leave(c)
    /\ UNCHANGED faults

\* The job does not exist, the connection is lost, the final commit fails,
\* or the client goes away during the batch: what was taken is given back.
Abort(c) ==
    /\ phase[c] \in {"read", "flush", "tools"}
    /\ faults < MaxFaults
    /\ faults' = faults + 1
    /\ RollbackRow(c)
    /\ Release(c)
    /\ Leave(c)

\* The INSERT of a tool fails (two batches write the same version of a path):
\* the ORM rolls the session back and expires the job it has loaded.  The
\* final commit then raises, and the finally clause of a governed call needs
\* job.family_id, which can no longer be loaded: release is never called.  A
\* worker releases with the values of its own item.
FlushFails(c) ==
    /\ phase[c] = "tools"
    /\ faults < MaxFaults
    /\ faults' = faults + 1
    /\ RollbackRow(c)
    /\ IF c \in Workers THEN Release(c) ELSE UNCHANGED <<free, active>>
    /\ Leave(c)

\* The client goes away while its call waits for a slot.  CancelledError is
\* no Exception: the handlers of acquire do not run and the slots taken so
\* far are lost.
CancelWait(c) ==
    /\ c \in Calls
    /\ phase[c] = "acquire"
    /\ faults < MaxFaults
    /\ faults' = faults + 1
    /\ RollbackRow(c)
    /\ Leave(c)
    /\ UNCHANGED <<free, active>>

-----------------------------------------------------------------------------
Step(c) ==
    \/ ReadJob(c)
    \/ Flush(c)
    \/ AcquireSlot(c)
    \/ ToolCommit(c)
    \/ Finish(c)

Fault(c) == Abort(c) \/ FlushFails(c) \/ CancelWait(c)

Next ==
    \E c \in Callers :
        \/ \E j \in Jobs : Start(c, j)
        \/ Step(c)
        \/ Fault(c)

Spec == Init /\ [][Next]_vars

(* Statements return and tools have timeouts.  A waiter for a slot or for  *)
(* a row is served in its turn: if what it waits for becomes available     *)
(* again and again, it gets it.                                            *)
Fairness ==
    \A c \in Callers :
        /\ WF_vars(ReadJob(c))
        /\ SF_vars(Flush(c))
        /\ SF_vars(AcquireSlot(c))
        /\ WF_vars(Finish(c))

FairSpec == Spec /\ Fairness

-----------------------------------------------------------------------------
(* Properties.                                                             *)

\* The type invariant.
TypeOK ==
    /\ phase \in [Callers -> Phases]
    /\ jobOf \in [Callers -> Jobs \cup {NoJob}]
    /\ level \in [Callers -> 0..4]
    /\ free \in [Sems -> Nat]
    /\ active \in [Sems -> Nat]
    /\ jobStatus \in [Jobs -> {"pending", "running"}]
    /\ rowLock \in [Jobs -> Callers \cup {NoCaller}]
    /\ faults \in 0..MaxFaults

Holders(s) == {c \in Callers : s \in Held(c)}

\* The batches that have all their slots and are counted.
Inside(s) == {c \in Holders(s) : level[c] = 4}

\* Slots are neither invented nor lost: the free slots of a semaphore and the
\* ones callers hold add up to its limit, but for at most one slot for every
\* batch that failed or was cancelled.
SlotsAccounted ==
    \A s \in Sems :
        /\ free[s] + Cardinality(Holders(s)) <= Limit(s)
        /\ free[s] + Cardinality(Holders(s)) + faults >= Limit(s)

\* However calls and workers interleave, never more batches execute tools
\* than the limit of the city, of a family, of a district or of a job.
CapsRespected ==
    \A s \in Sems :
        Cardinality({c \in Callers : /\ phase[c] = "tools"
                                     /\ \E i \in 1..4 : SemOf(jobOf[c], i) = s})
            <= Limit(s)

\* What snapshot reports as active are the batches that hold their slots,
\* and at most one more for every failed batch.
CountersTruthful ==
    \A s \in Sems :
        /\ active[s] >= Cardinality(Inside(s))
        /\ active[s] <= Cardinality(Inside(s)) + faults

\* Nobody is held up by the row of a job.
NoRowWait == \A c \in Callers : phase[c] = "flush" => rowLock[jobOf[c]] = NoCaller

\* Taking the four slots in one order cannot deadlock: as long as no slot is
\* lost with a failed batch, the one thing that can hold a batch up for ever
\* is the row of its job.  (An HTTP call locks the row and then waits for
\* slots, a worker takes slots and then waits for the row: that circle is
\* real, and nothing in the code or in PostgreSQL breaks it.)
BatchesEnd ==
    [](faults = 0 /\ NoRowWait) =>
        \A c \in Callers : phase[c] # "idle" ~> phase[c] = "idle"

-----------------------------------------------------------------------------
\* The slots a caller holds follow from where it is.
SlotsMatchPhase ==
    \A c \in Callers :
        /\ phase[c] = "idle" <=> jobOf[c] = NoJob
        /\ phase[c] = "idle" => level[c] = 0
        /\ phase[c] = "acquire" => level[c] < 4
        /\ phase[c] = "tools" => level[c] = 4
        /\ phase[c] \in {"read", "flush"} => level[c] = IF c \in Workers THEN 4 ELSE 0

GovernorInv == SlotsMatchPhase /\ SlotsAccounted /\ CountersTruthful

=============================================================================
