---------------------------- MODULE WorkQueueProofs ----------------------------
(***************************************************************************)
(* Proofs about the work queue, for every set of tasks, roles, daemons,    *)
(* tick requests and clients and for every bound on the faults.            *)
(***************************************************************************)
EXTENDS WorkQueueBoard, TLAPS

USE DEF NoTask, NoRole, Workers

-----------------------------------------------------------------------------
(* Counting an event of a task keeps a counter per task: an update outside *)
(* the domain (a worker without a task) changes nothing.                   *)
LEMMA CounterStep ==
    ASSUME NEW f \in [Tasks -> Nat], NEW t
    PROVE  [f EXCEPT ![t] = @ + 1] \in [Tasks -> Nat]
<1> DEFINE g == [f EXCEPT ![t] = @ + 1]
<1>1. \A u \in Tasks : g[u] \in Nat
  <2> TAKE u \in Tasks
  <2>1. CASE u = t
    BY <2>1
  <2>2. CASE u # t
    BY <2>2
  <2> QED
    BY <2>1, <2>2
<1>2. g = [u \in Tasks |-> g[u]]
  OBVIOUS
<1> HIDE DEF g
<1>3. g \in [Tasks -> Nat]
  BY <1>1, <1>2
<1> QED
  BY <1>3 DEF g

-----------------------------------------------------------------------------
(* Type correctness.                                                       *)

\* The empty table and the idle workers have their types.
LEMMA InitType == Init => TypeOK
  BY FaultsAssumption DEF Init, TypeOK, Statuses, Open, Settled, Phases, InTick

\* Every step of the queue keeps the types: one case per action.
LEMMA NextType == TypeOK /\ [Next]_vars => TypeOK'
<1> SUFFICES ASSUME TypeOK, [Next]_vars PROVE TypeOK'
  OBVIOUS
<1> USE FaultsAssumption, TasksAssumption
     DEF TypeOK, rows, history, Statuses, Open, Settled, Phases, InTick
<1>1. ASSUME NEW t \in Tasks, NEW r \in Roles, EnqueueTask(t, r)
      PROVE  TypeOK'
  BY <1>1 DEF EnqueueTask, CreateTask
<1>2. ASSUME NEW w \in Workers, NEW t \in Tasks, NEW r \in Roles, Delegate(w, t, r)
      PROVE  TypeOK'
  BY <1>2 DEF Delegate, CreateTask
<1>3. ASSUME NEW d \in Daemons, Poll(d) \/ Restart(d) PROVE TypeOK'
  BY <1>3 DEF Poll, Restart
<1>4. ASSUME NEW q \in Requests, NEW t \in Tasks, TickRequest(q, t) PROVE TypeOK'
  BY <1>4 DEF TickRequest
<1>5. ASSUME NEW w \in Workers, RecoverStale(w) PROVE TypeOK'
  BY <1>5 DEF RecoverStale, StaleClaims
<1>6. ASSUME NEW w \in Workers, ClaimNext(w) PROVE TypeOK'
  BY <1>6 DEF ClaimNext, Claimable
<1>7. ASSUME NEW w \in Workers, NothingToClaim(w) PROVE TypeOK'
  BY <1>7 DEF NothingToClaim, EndTransaction
<1>8. ASSUME NEW w \in Workers, BeginRun(w) PROVE TypeOK'
  <2>1. instructed' \in [Tasks -> Nat]
    BY <1>8, CounterStep DEF BeginRun
  <2> QED
    BY <1>8, <2>1 DEF BeginRun
<1>9. ASSUME NEW w \in Workers, NEW s \in {"done", "failed"}, Commit(w, s)
      PROVE  TypeOK'
  <2>1. outcomes' \in [Tasks -> Nat]
    BY <1>9, CounterStep DEF Commit
  <2>2. status' \in [Tasks -> Statuses \cup {"absent"}]
    BY <1>9 DEF Commit
  <2>3. claimedAt' \in [Tasks -> {"never", "recent", "old"}]
    BY <1>9 DEF Commit
  <2>4. /\ pc' \in [Workers -> Phases]
        /\ locks' \in [Workers -> SUBSET Tasks]
        /\ recovered' \in [Workers -> SUBSET Tasks]
        /\ cur' \in [Workers -> Tasks \cup {NoTask}]
    BY <1>9 DEF Commit, EndTransaction
  <2> QED
    BY <1>9, <2>1, <2>2, <2>3, <2>4 DEF Commit
<1>10. ASSUME NEW w \in Workers, DbError(w) \/ Crash(w) PROVE TypeOK'
  <2>1. interrupted' \in [Tasks -> Nat]
    BY <1>10, CounterStep DEF DbError, Crash, Rollback
  <2>2. faults' \in 0..MaxFaults
    BY <1>10 DEF DbError, Crash
  <2>3. /\ pc' \in [Workers -> Phases]
        /\ locks' \in [Workers -> SUBSET Tasks]
        /\ recovered' \in [Workers -> SUBSET Tasks]
        /\ cur' \in [Workers -> Tasks \cup {NoTask}]
    BY <1>10 DEF DbError, Crash, Rollback, EndTransaction
  <2> QED
    BY <1>10, <2>1, <2>2, <2>3 DEF DbError, Crash, Rollback
<1>11. ASSUME LlmOutage \/ LlmBack PROVE TypeOK'
  <2>1. llmUp' \in BOOLEAN
    BY <1>11, Zenon DEF LlmOutage, LlmBack
  <2>2. faults' \in 0..MaxFaults
    BY <1>11 DEF LlmOutage, LlmBack
  <2>3. UNCHANGED <<rows, pc, want, locks, recovered, cur, hold, history>>
    BY <1>11, Zenon DEF LlmOutage, LlmBack
  <2> QED
    BY <2>1, <2>2, <2>3
<1>12. ASSUME NEW c \in Clients, ClientClaim(c) PROVE TypeOK'
  BY <1>12 DEF ClientClaim
<1>13. ASSUME NEW c \in Clients,
              MarkInProgress(c) \/ (\E s \in Settled : ClientSettle(c, s)) \/ ClientVanish(c)
       PROVE  TypeOK'
  BY <1>13 DEF MarkInProgress, ClientSettle, UpdateStatus, ClientVanish
<1>14. ASSUME NEW t \in Tasks, Expire(t) PROVE TypeOK'
  BY <1>14 DEF Expire
<1>15. CASE UNCHANGED vars
  BY <1>15 DEF vars
<1>16. ASSUME NEW w \in Workers, ReadBack(w) PROVE TypeOK'
  BY <1>16 DEF ReadBack
<1>17. ASSUME NEW w \in Workers, FailAfterCommit(w) PROVE TypeOK'
  <2>1. outcomes' \in [Tasks -> Nat]
    BY <1>17, CounterStep DEF FailAfterCommit
  <2>2. status' \in [Tasks -> Statuses \cup {"absent"}]
    BY <1>17 DEF FailAfterCommit, UpdateStatus
  <2>3. disputed' \in [Tasks -> BOOLEAN]
    BY <1>17, Zenon DEF FailAfterCommit
  <2>4. faults' \in 0..MaxFaults
    BY <1>17 DEF FailAfterCommit
  <2>5. pc' \in [Workers -> Phases] /\ cur' \in [Workers -> Tasks \cup {NoTask}]
    BY <1>17 DEF FailAfterCommit
  <2> QED
    BY <1>17, <2>1, <2>2, <2>3, <2>4, <2>5 DEF FailAfterCommit, UpdateStatus
<1> QED
  BY <1>1, <1>2, <1>3, <1>4, <1>5, <1>6, <1>7, <1>8, <1>9, <1>10, <1>11, <1>12,
     <1>13, <1>14, <1>15, <1>16, <1>17
  DEF Next, Producer, Tick, Fault, Client, CompleteTask, FailTask

\* The type invariant: the committed columns stay in their enumerations and
\* the workers in their phases, in every reachable state.
THEOREM TypeCorrect == Spec => []TypeOK
<1>1. Init => TypeOK
  BY InitType
<1>2. TypeOK /\ [Next]_vars => TypeOK'
  BY NextType
<1> QED
  BY <1>1, <1>2, PTL DEF Spec

-----------------------------------------------------------------------------
(* The lock discipline and the ownership of claims.                        *)

\* The lock discipline holds of an empty table without transactions.
LEMMA InitQueue == Init => QueueInv
<1> SUFFICES ASSUME Init PROVE QueueInv
  OBVIOUS
<1> USE TasksAssumption DEF Init
<1>1. LocksDisjoint
  BY DEF LocksDisjoint
<1>2. LockedRows
  BY DEF LockedRows
<1>3. TickHoldsTask
  BY DEF TickHoldsTask
<1>4. ClientOwnsRow
  BY DEF ClientOwnsRow
<1> QED
  BY <1>1, <1>2, <1>3, <1>4 DEF QueueInv, LockInv

\* A step that leaves locked rows and the locks alone keeps what is known of
\* the locked rows.
LEMMA LockedRowsKept ==
    ASSUME LockedRows, UNCHANGED <<claimedAt, locks, recovered>>,
           \A v \in Workers : \A t \in locks[v] : status'[t] = status[t]
    PROVE  LockedRows'
<1>1. ASSUME NEW v \in Workers, NEW t \in recovered[v]
      PROVE  t \in StaleClaims'
  <2>1. t \in locks[v] /\ t \in StaleClaims
    BY <1>1 DEF LockedRows
  <2>2. status'[t] = status[t] /\ claimedAt' = claimedAt
    BY <2>1
  <2> QED
    BY <2>1, <2>2 DEF StaleClaims
<1>2. \A v \in Workers : \A t \in locks[v] \ recovered[v] : status'[t] = "queued"
  BY DEF LockedRows
<1> QED
  BY <1>1, <1>2 DEF LockedRows

\* Every step of workers, requests and clients keeps the lock discipline.
LEMMA NextQueue == TypeOK /\ QueueInv /\ [Next]_vars => QueueInv'
<1> SUFFICES ASSUME TypeOK, QueueInv, [Next]_vars PROVE QueueInv'
  OBVIOUS
<1> USE TasksAssumption, WorkersAssumption DEF TypeOK, QueueInv, LockInv, rows, history
<1>1. ASSUME NEW t \in Tasks, NEW r \in Roles, CreateTask(t, r),
             UNCHANGED <<pc, locks, recovered, cur, hold, disputed>>
      PROVE  QueueInv'
  <2>1. LocksDisjoint'
    BY <1>1 DEF LocksDisjoint
  <2>2. LockedRows'
    BY <1>1 DEF LockedRows, CreateTask, StaleClaims
  <2>3. TickHoldsTask'
    BY <1>1 DEF TickHoldsTask
  <2>4. ClientOwnsRow'
    BY <1>1 DEF ClientOwnsRow, CreateTask
  <2> QED
    BY <2>1, <2>2, <2>3, <2>4
<1>2. ASSUME NEW w \in Workers, UNCHANGED <<status, claimedAt, hold, disputed>>,
             locks' = [locks EXCEPT ![w] = {}],
             recovered' = [recovered EXCEPT ![w] = {}],
             cur' = [cur EXCEPT ![w] = NoTask],
             \E p \in {"idle", "recover", "dead", "down"} : pc' = [pc EXCEPT ![w] = p]
      PROVE  QueueInv'
  <2>1. LocksDisjoint'
    BY <1>2 DEF LocksDisjoint
  <2>2. LockedRows'
    BY <1>2 DEF LockedRows, StaleClaims
  <2>3. TickHoldsTask'
    BY <1>2 DEF TickHoldsTask
  <2>4. ClientOwnsRow'
    BY <1>2 DEF ClientOwnsRow
  <2> QED
    BY <2>1, <2>2, <2>3, <2>4
<1>3. ASSUME NEW w \in Workers, RecoverStale(w) PROVE QueueInv'
  <2>1. LocksDisjoint'
    BY <1>3 DEF LocksDisjoint, RecoverStale, LockedByOthers, StaleClaims
  <2>2. LockedRows'
    BY <1>3 DEF LockedRows, RecoverStale, StaleClaims
  <2>3. TickHoldsTask'
    BY <1>3 DEF TickHoldsTask, RecoverStale
  <2>4. ClientOwnsRow'
    BY <1>3 DEF ClientOwnsRow, RecoverStale
  <2> QED
    BY <2>1, <2>2, <2>3, <2>4
<1>4. ASSUME NEW w \in Workers, ClaimNext(w) PROVE QueueInv'
  <2>1. LocksDisjoint'
    BY <1>4 DEF LocksDisjoint, LockedRows, ClaimNext, Claimable, LockedByOthers
  <2>2. LockedRows'
    BY <1>4 DEF LockedRows, ClaimNext, Claimable, StaleClaims
  <2>3. TickHoldsTask'
    BY <1>4 DEF TickHoldsTask, ClaimNext, IsOldest
  <2>4. ClientOwnsRow'
    <3>1. UNCHANGED <<status, claimedAt, hold, disputed>>
      BY <1>4 DEF ClaimNext
    <3> QED
      BY <3>1 DEF ClientOwnsRow
  <2> QED
    BY <2>1, <2>2, <2>3, <2>4
<1>5. ASSUME NEW w \in Workers, BeginRun(w) PROVE QueueInv'
  <2>1. LocksDisjoint'
    BY <1>5 DEF LocksDisjoint, BeginRun
  <2>2. LockedRows'
    BY <1>5 DEF LockedRows, BeginRun, StaleClaims
  <2>3. TickHoldsTask'
    BY <1>5 DEF TickHoldsTask, BeginRun
  <2>4. ClientOwnsRow'
    BY <1>5 DEF ClientOwnsRow, BeginRun
  <2> QED
    BY <2>1, <2>2, <2>3, <2>4
<1>6. ASSUME NEW w \in Workers, NEW s \in {"done", "failed"}, Commit(w, s),
             pc[w] \in {"claimed", "running"}
      PROVE  QueueInv'
  <2>1. LocksDisjoint'
    BY <1>6 DEF LocksDisjoint, Commit, EndTransaction
  <2>2. LockedRows'
    BY <1>6 DEF LockedRows, LocksDisjoint, TickHoldsTask, Commit, EndTransaction, StaleClaims
  <2>3. TickHoldsTask'
    BY <1>6 DEF TickHoldsTask, Commit, EndTransaction
  <2>4. ClientOwnsRow'
    BY <1>6 DEF ClientOwnsRow, LockedRows, TickHoldsTask, StaleClaims, Commit
  <2> QED
    BY <2>1, <2>2, <2>3, <2>4
<1>7. ASSUME NEW c \in Clients, ClientClaim(c) PROVE QueueInv'
  <2>1. LocksDisjoint'
    BY <1>7 DEF LocksDisjoint, ClientClaim
  <2>2. LockedRows'
    BY <1>7 DEF LockedRows, ClientClaim, StaleClaims, Locked, IsOldest
  <2>3. TickHoldsTask'
    BY <1>7 DEF TickHoldsTask, ClientClaim
  <2>4. ClientOwnsRow'
    <3> SUFFICES ASSUME NEW t \in Tasks, ~disputed[t], NEW b \in Clients, hold'[b] = t
                 PROVE  /\ status'[t] \in {"claimed", "in_progress"}
                        /\ claimedAt'[t] = "recent"
                        /\ \A a \in Clients : hold'[a] = t => a = b
      BY <1>7 DEF ClientOwnsRow, ClientClaim
    <3>1. PICK u \in Tasks :
             /\ status[u] = "queued" \/ u \in StaleClaims
             /\ status' = [v \in Tasks |-> IF v = u THEN "claimed"
                                            ELSE IF v \in StaleClaims THEN "queued"
                                            ELSE status[v]]
             /\ claimedAt' = [claimedAt EXCEPT ![u] = "recent"]
             /\ hold' = [hold EXCEPT ![c] = u]
      BY <1>7 DEF ClientClaim, IsOldest
    <3>2. hold[c] = NoTask
      BY <1>7 DEF ClientClaim
    <3>3. \A a \in Clients : hold[a] = t =>
             /\ status[t] \in {"claimed", "in_progress"}
             /\ claimedAt[t] = "recent"
             /\ \A e \in Clients : hold[e] = t => e = a
      BY DEF ClientOwnsRow
    <3>4. CASE t = u
      BY <3>1, <3>2, <3>3, <3>4 DEF StaleClaims
    <3>5. CASE t # u
      BY <3>1, <3>2, <3>3, <3>5 DEF StaleClaims
    <3> QED
      BY <3>4, <3>5
  <2> QED
    BY <2>1, <2>2, <2>3, <2>4
<1>8. ASSUME NEW c \in Clients,
             MarkInProgress(c) \/ \E s \in Settled : ClientSettle(c, s)
      PROVE  QueueInv'
  <2>1. LocksDisjoint'
    BY <1>8 DEF LocksDisjoint, MarkInProgress, ClientSettle
  <2>2. LockedRows'
    <3>1. /\ \A w \in Workers : hold[c] \notin locks[w]
          /\ \A t \in Tasks : t # hold[c] => status'[t] = status[t]
          /\ UNCHANGED <<claimedAt, locks, recovered>>
      BY <1>8 DEF MarkInProgress, ClientSettle, UpdateStatus, Locked
    <3>2. \A w \in Workers : \A t \in locks[w] : status'[t] = status[t]
      BY <3>1
    <3> QED
      BY <3>1, <3>2, LockedRowsKept
  <2>3. TickHoldsTask'
    BY <1>8 DEF TickHoldsTask, MarkInProgress, ClientSettle
  <2>4. ClientOwnsRow'
    BY <1>8 DEF ClientOwnsRow, MarkInProgress, ClientSettle, UpdateStatus
  <2> QED
    BY <2>1, <2>2, <2>3, <2>4
<1>9. ASSUME NEW c \in Clients, ClientVanish(c) PROVE QueueInv'
  BY <1>9 DEF ClientVanish, LocksDisjoint, LockedRows, TickHoldsTask, ClientOwnsRow, StaleClaims
<1>10. ASSUME NEW t \in Tasks, Expire(t) PROVE QueueInv'
  <2>1. LocksDisjoint' /\ TickHoldsTask'
    BY <1>10 DEF LocksDisjoint, TickHoldsTask, Expire
  <2>2. LockedRows'
    BY <1>10 DEF LockedRows, Expire, StaleClaims
  <2>3. ClientOwnsRow'
    <3> SUFFICES ASSUME NEW u \in Tasks, ~disputed'[u], NEW b \in Clients, hold'[b] = u
                 PROVE  /\ status'[u] \in {"claimed", "in_progress"}
                        /\ claimedAt'[u] = "recent"
                        /\ \A a \in Clients : hold'[a] = u => a = b
      BY DEF ClientOwnsRow
    <3>1. u # t
      BY <1>10 DEF Expire
    <3>2. ~disputed[u] /\ hold[b] = u /\ UNCHANGED <<status, hold>> /\ claimedAt'[u] = claimedAt[u]
      BY <1>10, <3>1 DEF Expire
    <3> QED
      BY <3>2 DEF ClientOwnsRow
  <2> QED
    BY <2>1, <2>2, <2>3
<1>11. ASSUME UNCHANGED <<status, claimedAt, pc, locks, recovered, cur, hold, disputed>>
       PROVE  QueueInv'
  BY <1>11 DEF LocksDisjoint, LockedRows, TickHoldsTask, ClientOwnsRow, StaleClaims
<1>12. ASSUME NEW d \in Daemons, Poll(d) \/ Restart(d) PROVE QueueInv'
  <2>1. UNCHANGED <<status, claimedAt, locks, recovered, cur, hold, disputed>>
    BY <1>12 DEF Poll, Restart
  <2>2. TickHoldsTask'
    BY <1>12 DEF Poll, Restart, TickHoldsTask
  <2> QED
    BY <2>1, <2>2 DEF LocksDisjoint, LockedRows, ClientOwnsRow, StaleClaims
<1>13. ASSUME NEW q \in Requests, NEW t \in Tasks, TickRequest(q, t) PROVE QueueInv'
  BY <1>13 DEF TickRequest, LocksDisjoint, LockedRows, TickHoldsTask, ClientOwnsRow, StaleClaims
<1>14. ASSUME NEW t \in Tasks, NEW r \in Roles,
              EnqueueTask(t, r) \/ \E w \in Workers : Delegate(w, t, r)
       PROVE  QueueInv'
  BY <1>1, <1>14 DEF EnqueueTask, Delegate
<1>15. ASSUME NEW w \in Workers, NothingToClaim(w) \/ DbError(w) \/ Crash(w)
       PROVE  QueueInv'
  <2>1. NothingToClaim(w) => cur' = [cur EXCEPT ![w] = NoTask]
    BY DEF NothingToClaim, TickHoldsTask
  <2> QED
    BY <1>2, <1>15, <2>1 DEF NothingToClaim, DbError, Crash, Rollback, EndTransaction
<1>16. ASSUME NEW w \in Workers, CompleteTask(w) \/ FailTask(w) PROVE QueueInv'
  BY <1>6, <1>16 DEF CompleteTask, FailTask
<1>17. ASSUME LlmOutage \/ LlmBack \/ UNCHANGED vars PROVE QueueInv'
  BY <1>11, <1>17 DEF LlmOutage, LlmBack, vars
<1>18. ASSUME NEW w \in Workers, ReadBack(w) PROVE QueueInv'
  <2>1. locks[w] = {} /\ recovered[w] = {}
    BY <1>18 DEF ReadBack, TickHoldsTask, LockedRows
  <2> QED
    BY <1>2, <1>18, <2>1 DEF ReadBack
<1>19. ASSUME NEW w \in Workers, FailAfterCommit(w) PROVE QueueInv'
  <2>1. LocksDisjoint'
    BY <1>19 DEF LocksDisjoint, FailAfterCommit
  <2>2. LockedRows'
    <3>1. /\ \A v \in Workers : cur[w] \notin locks[v]
          /\ \A t \in Tasks : t # cur[w] => status'[t] = status[t]
          /\ UNCHANGED <<claimedAt, locks, recovered>>
      BY <1>19 DEF FailAfterCommit, UpdateStatus, Locked
    <3>2. \A v \in Workers : \A t \in locks[v] : status'[t] = status[t]
      BY <3>1
    <3> QED
      BY <3>1, <3>2, LockedRowsKept
  <2>3. TickHoldsTask'
    BY <1>19 DEF TickHoldsTask, FailAfterCommit
  <2>4. ClientOwnsRow'
    <3> SUFFICES ASSUME NEW t \in Tasks, ~disputed'[t], NEW c \in Clients, hold'[c] = t
                 PROVE  /\ status'[t] \in {"claimed", "in_progress"}
                        /\ claimedAt'[t] = "recent"
                        /\ \A b \in Clients : hold'[b] = t => b = c
      BY DEF ClientOwnsRow
    <3>1. t # cur[w]
      BY <1>19 DEF FailAfterCommit
    <3>2. ~disputed[t] /\ status'[t] = status[t] /\ UNCHANGED <<claimedAt, hold>>
      BY <1>19, <3>1 DEF FailAfterCommit, UpdateStatus
    <3> QED
      BY <3>2 DEF ClientOwnsRow
  <2> QED
    BY <2>1, <2>2, <2>3, <2>4
<1> QED
  BY <1>3, <1>4, <1>5, <1>7, <1>8, <1>9, <1>10, <1>12, <1>13, <1>14, <1>15, <1>16, <1>17,
     <1>18, <1>19
  DEF Next, Producer, Tick, Fault, Client

\* The lock discipline and the ownership of undisputed claims hold in every
\* reachable state, for any number of workers and clients.
THEOREM QueueCorrect == Spec => [](TypeOK /\ QueueInv)
<1>1. Init => TypeOK /\ QueueInv
  BY InitType, InitQueue
<1>2. TypeOK /\ QueueInv /\ [Next]_vars => (TypeOK /\ QueueInv)'
  BY NextType, NextQueue
<1> QED
  BY <1>1, <1>2, PTL DEF Spec

\* A task has one owner at a time: two ticks never execute the same task,
\* and a client shares its task with nobody before its claim has disputed.
THEOREM TasksHaveOneOwner == Spec => []OneOwner
<1>1. TypeOK /\ QueueInv => OneOwner
  <2> SUFFICES ASSUME TypeOK, QueueInv, NEW t \in Tasks
               PROVE  /\ \A v, w \in Workers : Executing(v, t) /\ Executing(w, t) => v = w
                      /\ ~disputed[t] =>
                           /\ \A b, c \in Clients : hold[b] = t /\ hold[c] = t => b = c
                           /\ \A c \in Clients, w \in Workers :
                                 ~(hold[c] = t /\ Executing(w, t))
    BY DEF OneOwner
  <2>1. \A v, w \in Workers : Executing(v, t) /\ Executing(w, t) => v = w
    BY DEF QueueInv, LockInv, LocksDisjoint, TickHoldsTask, Executing
  <2>2. ASSUME ~disputed[t]
        PROVE  \A b, c \in Clients : hold[b] = t /\ hold[c] = t => b = c
    BY <2>2 DEF QueueInv, ClientOwnsRow
  <2>3. ASSUME ~disputed[t], NEW c \in Clients, NEW w \in Workers,
               hold[c] = t, Executing(w, t)
        PROVE  FALSE
    <3>1. status[t] \in {"claimed", "in_progress"} /\ claimedAt[t] = "recent"
      BY <2>3 DEF QueueInv, ClientOwnsRow
    <3>2. t \in locks[w]
      BY <2>3 DEF QueueInv, LockInv, TickHoldsTask, Executing
    <3>3. status[t] = "queued" \/ t \in StaleClaims
      BY <3>2 DEF QueueInv, LockInv, LockedRows
    <3> QED
      BY <3>1, <3>3 DEF StaleClaims
  <2> QED
    BY <2>1, <2>2, <2>3
<1> QED
  BY <1>1, QueueCorrect, PTL

-----------------------------------------------------------------------------
(* What a step does to the committed status of a row.                      *)

\* The rows a tick may touch are queued or stale: the task it commits is
\* open, and so are the rows it re-queues.
LEMMA CommitTouchesOpenRows ==
    ASSUME TypeOK, QueueInv, NEW w \in Workers, pc[w] \in {"claimed", "running"}
    PROVE  /\ cur[w] \in Tasks
           /\ status[cur[w]] \in Open
           /\ \A t \in recovered[w] : t \in Tasks /\ status[t] \in Open
<1>1. cur[w] \in locks[w]
  BY DEF QueueInv, LockInv, TickHoldsTask
<1> QED
  BY <1>1 DEF TypeOK, QueueInv, LockInv, LockedRows, StaleClaims, Open

\* disputed is a history variable: it is never cleared.
LEMMA DisputedStays ==
    ASSUME TypeOK, [Next]_vars, NEW t \in Tasks, ~disputed'[t]
    PROVE  ~disputed[t]
<1>1. ASSUME NEW u \in Tasks, Expire(u) PROVE ~disputed[t]
  BY <1>1 DEF Expire, TypeOK
<1>2. ASSUME NEW w \in Workers, FailAfterCommit(w) PROVE ~disputed[t]
  BY <1>2 DEF FailAfterCommit, TypeOK
<1>3. CASE UNCHANGED disputed
  BY <1>3
<1> QED
  BY <1>1, <1>2, <1>3
  DEF Next, Producer, EnqueueTask, Delegate, Poll, Restart, TickRequest, Tick,
      RecoverStale, ClaimNext, NothingToClaim, BeginRun, CompleteTask, FailTask, ReadBack,
      Commit, Fault, DbError, Crash, Rollback, LlmOutage, LlmBack, Client,
      ClientClaim, MarkInProgress, ClientSettle, ClientVanish, vars, history

\* A settled row is final unless the claim of a working client lapsed or the
\* step is the except branch of a completed tick.
LEMMA SettledStep ==
    ASSUME TypeOK, QueueInv, [Next]_vars, NEW t \in Tasks, ~disputed'[t],
           status[t] \in Settled
    PROVE  status'[t] = status[t]
<1> USE DEF rows, history, Settled, Open
<1>0. ~disputed[t]
  BY DisputedStays
<1>1. ASSUME NEW u \in Tasks, NEW r \in Roles, CreateTask(u, r)
      PROVE  status'[t] = status[t]
  BY <1>1 DEF CreateTask, TypeOK
<1>2. ASSUME NEW w \in Workers, NEW s, Commit(w, s), pc[w] \in {"claimed", "running"}
      PROVE  status'[t] = status[t]
  BY <1>2, CommitTouchesOpenRows DEF Commit
<1>3. ASSUME NEW c \in Clients, ClientClaim(c) PROVE status'[t] = status[t]
  BY <1>3 DEF ClientClaim, IsOldest, StaleClaims
<1>4. ASSUME NEW c \in Clients, NEW s, UpdateStatus(hold[c], s), hold[c] # NoTask
      PROVE  status'[t] = status[t]
  <2>1. hold[c] # t
    BY <1>0 DEF QueueInv, ClientOwnsRow
  <2> QED
    BY <1>4, <2>1 DEF UpdateStatus, TypeOK
<1>5. CASE UNCHANGED status
  BY <1>5
<1>6. CASE Producer
  BY <1>1, <1>6 DEF Producer, EnqueueTask, Delegate
<1>9. ASSUME NEW w \in Workers, FailAfterCommit(w) PROVE status'[t] = status[t]
  BY <1>9 DEF FailAfterCommit, UpdateStatus, TypeOK
<1>7. ASSUME NEW w \in Workers, Tick(w) \/ Fault(w) PROVE status'[t] = status[t]
  BY <1>2, <1>7, <1>9 DEF Tick, Fault, RecoverStale, ClaimNext, NothingToClaim, BeginRun,
     ReadBack, CompleteTask, FailTask, DbError, Crash, Rollback
<1>8. ASSUME NEW c \in Clients, Client(c) PROVE status'[t] = status[t]
  BY <1>3, <1>4, <1>8 DEF Client, MarkInProgress, ClientSettle, ClientVanish
<1> QED
  BY <1>5, <1>6, <1>7, <1>8
  DEF Next, Poll, Restart, TickRequest, LlmOutage, LlmBack, Expire, vars

\* done, failed and blocked rows are never moved again, except after the
\* lapse of a claim whose owner still works or a failed read-back.
THEOREM SettledRowsAreFinal == Spec => SettledIsFinal
<1>1. TypeOK /\ QueueInv /\ [Next]_vars =>
        [\A t \in Tasks : status[t] \in Settled /\ status'[t] # status[t] => disputed'[t]]_vars
  BY SettledStep
<1> QED
  BY <1>1, QueueCorrect, PTL DEF Spec, SettledIsFinal

-----------------------------------------------------------------------------
(* One outcome.                                                            *)

\* The outcome counter of a task moves in the commit of a tick only.
LEMMA OutcomeStep ==
    ASSUME TypeOK, QueueInv, [Next]_vars
    PROVE  \/ UNCHANGED outcomes
           \/ \E w \in Workers, s \in {"done", "failed"} :
                 pc[w] \in {"claimed", "running"} /\ Commit(w, s)
           \/ \E w \in Workers : FailAfterCommit(w)
  BY DEF Next, Producer, EnqueueTask, Delegate, Poll, Restart, TickRequest, Tick,
      RecoverStale, ClaimNext, NothingToClaim, BeginRun, CompleteTask, FailTask, ReadBack,
      Fault, DbError, Crash, Rollback, LlmOutage, LlmBack, Client, Expire,
      ClientClaim, MarkInProgress, ClientSettle, ClientVanish, vars, history

\* Only the commit of a tick records an outcome, and it settles the row.
LEMMA NextOutcome == TypeOK /\ QueueInv /\ OneOutcome /\ [Next]_vars => OneOutcome'
<1> SUFFICES ASSUME TypeOK, QueueInv, OneOutcome, [Next]_vars,
                    NEW t \in Tasks, ~disputed'[t]
             PROVE  /\ outcomes'[t] <= 1
                    /\ outcomes'[t] = 1 => status'[t] \in {"done", "failed"}
  BY DEF OneOutcome
<1>1. ~disputed[t]
  BY DisputedStays
<1>2. /\ outcomes[t] \in Nat
      /\ outcomes[t] <= 1
      /\ outcomes[t] = 1 => status[t] \in {"done", "failed"}
  BY <1>1 DEF OneOutcome, TypeOK
<1>3. CASE UNCHANGED outcomes
  BY <1>1, <1>2, <1>3, SettledStep DEF Settled
<1>4. ASSUME NEW w \in Workers, NEW s \in {"done", "failed"},
             pc[w] \in {"claimed", "running"}, Commit(w, s)
      PROVE  /\ outcomes'[t] <= 1
             /\ outcomes'[t] = 1 => status'[t] \in {"done", "failed"}
  <2>1. CASE t = cur[w]
    <3>1. outcomes[t] = 0
      BY <1>2, <1>4, <2>1, CommitTouchesOpenRows DEF Open
    <3>2. outcomes'[t] = 1 /\ status'[t] = s
      BY <1>4, <2>1, <3>1 DEF Commit, TypeOK
    <3> QED
      BY <3>2
  <2>2. CASE t # cur[w]
    <3>1. outcomes'[t] = outcomes[t]
      BY <1>4, <2>2 DEF Commit, TypeOK
    <3> QED
      BY <1>1, <1>2, <3>1, SettledStep DEF Settled
  <2> QED
    BY <2>1, <2>2
<1>5. ASSUME NEW w \in Workers, FailAfterCommit(w)
      PROVE  /\ outcomes'[t] <= 1
             /\ outcomes'[t] = 1 => status'[t] \in {"done", "failed"}
  <2>1. t # cur[w]
    BY <1>5 DEF FailAfterCommit, TypeOK
  <2>2. outcomes'[t] = outcomes[t] /\ status'[t] = status[t]
    BY <1>5, <2>1 DEF FailAfterCommit, UpdateStatus, TypeOK
  <2> QED
    BY <1>2, <2>2
<1> QED
  BY <1>3, <1>4, <1>5, OutcomeStep

\* The outcome of a task is decided and recorded at most once, with the
\* settled status, whatever faults its executions met.
THEOREM TasksHaveOneOutcome == Spec => []OneOutcome
<1>1. Init => OneOutcome
  BY DEF Init, OneOutcome
<1>2. TypeOK /\ QueueInv /\ OneOutcome /\ [Next]_vars => OneOutcome'
  BY NextOutcome
<1> QED
  BY <1>1, <1>2, QueueCorrect, PTL DEF Spec

-----------------------------------------------------------------------------
(* Instructions and attempts.                                              *)

Running(t) == \E w \in Workers : cur[w] = t /\ pc[w] = "running"

\* Only the start of an execution instructs the team on a task.
LEMMA NextInstructed ==
    TypeOK /\ QueueInv /\ InstructedOncePerAttempt /\ [Next]_vars
        => InstructedOncePerAttempt'
<1> SUFFICES ASSUME TypeOK, QueueInv, InstructedOncePerAttempt, [Next]_vars,
                    NEW t \in Tasks
             PROVE  instructed'[t] <= interrupted'[t] + outcomes'[t]
                                      + (IF Running(t)' THEN 1 ELSE 0)
  BY DEF InstructedOncePerAttempt, Running
<1> DEFINE Goal == instructed'[t] <= interrupted'[t] + outcomes'[t]
                                     + (IF Running(t)' THEN 1 ELSE 0)
<1> USE DEF history
<1>1. /\ instructed[t] \in Nat /\ interrupted[t] \in Nat /\ outcomes[t] \in Nat
      /\ instructed[t] <= interrupted[t] + outcomes[t] + (IF Running(t) THEN 1 ELSE 0)
  BY DEF InstructedOncePerAttempt, Running, TypeOK
<1>2. ASSUME UNCHANGED <<instructed, interrupted, outcomes>>, Running(t) => Running(t)'
      PROVE  Goal
  BY <1>1, <1>2
<1>3. ASSUME NEW w \in Workers, BeginRun(w) PROVE Goal
  <2>1. cur[w] \in locks[w] /\ pc[w] = "claimed"
    BY <1>3 DEF BeginRun, QueueInv, LockInv, TickHoldsTask
  <2>2. CASE t = cur[w]
    <3>1. ~Running(t)
      BY <2>1, <2>2 DEF Running, QueueInv, LockInv, LocksDisjoint, TickHoldsTask
    <3>2. Running(t)'
      BY <1>3, <2>2 DEF BeginRun, Running, TypeOK
    <3>3. /\ instructed'[t] = instructed[t] + 1
          /\ interrupted' = interrupted /\ outcomes' = outcomes
      BY <1>3, <2>2 DEF BeginRun, TypeOK
    <3> QED
      BY <1>1, <3>1, <3>2, <3>3
  <2>3. CASE t # cur[w]
    <3>1. instructed'[t] = instructed[t] /\ interrupted' = interrupted /\ outcomes' = outcomes
      BY <1>3, <2>3 DEF BeginRun, TypeOK
    <3>2. Running(t) => Running(t)'
      BY <1>3 DEF BeginRun, Running, TypeOK
    <3> QED
      BY <1>1, <3>1, <3>2
  <2> QED
    BY <2>2, <2>3
<1>4. ASSUME NEW w \in Workers, pc' = [pc EXCEPT ![w] = pc'[w]],
             cur' = [cur EXCEPT ![w] = cur'[w]],
             ~(pc[w] = "running" /\ t = cur[w]), Running(t)
      PROVE  Running(t)'
  <2>1. PICK v \in Workers : cur[v] = t /\ pc[v] = "running"
    BY <1>4 DEF Running
  <2>2. v # w
    BY <1>4, <2>1
  <2>3. cur'[v] = t /\ pc'[v] = "running"
    BY <1>4, <2>1, <2>2 DEF TypeOK
  <2> QED
    BY <2>3 DEF Running
<1>5. ASSUME NEW w \in Workers, NEW s \in {"done", "failed"}, Commit(w, s),
             pc[w] \in {"claimed", "running"}
      PROVE  Goal
  <2>1. instructed' = instructed /\ interrupted' = interrupted
    BY <1>5 DEF Commit
  <2>2. CASE t = cur[w]
    <3>1. outcomes'[t] = outcomes[t] + 1
      BY <1>5, <2>2 DEF Commit, TypeOK
    <3> QED
      BY <1>1, <2>1, <3>1
  <2>3. CASE t # cur[w]
    <3>1. outcomes'[t] = outcomes[t]
      BY <1>5, <2>3 DEF Commit, TypeOK
    <3>2. Running(t) => Running(t)'
      BY <1>4, <1>5, <2>3 DEF Commit, TypeOK
    <3> QED
      BY <1>1, <2>1, <3>1, <3>2
  <2> QED
    BY <2>2, <2>3
<1>6. ASSUME NEW w \in Workers, DbError(w) \/ Crash(w) PROVE Goal
  <2>1. /\ instructed' = instructed /\ outcomes' = outcomes
        /\ cur' = [cur EXCEPT ![w] = cur'[w]]
        /\ interrupted' = IF pc[w] = "running"
                          THEN [interrupted EXCEPT ![cur[w]] = @ + 1] ELSE interrupted
        /\ pc' = [pc EXCEPT ![w] = pc'[w]] /\ pc'[w] # "running"
    BY <1>6 DEF DbError, Crash, Rollback, TypeOK
  <2>2. CASE pc[w] = "running" /\ t = cur[w]
    <3>1. interrupted'[t] = interrupted[t] + 1
      BY <2>1, <2>2 DEF TypeOK
    <3> QED
      BY <1>1, <2>1, <3>1
  <2>3. CASE ~(pc[w] = "running" /\ t = cur[w])
    <3>1. interrupted'[t] = interrupted[t]
      BY <2>1, <2>3 DEF TypeOK
    <3>2. Running(t) => Running(t)'
      BY <1>4, <2>1, <2>3
    <3> QED
      BY <1>1, <2>1, <3>1, <3>2
  <2> QED
    BY <2>2, <2>3
<1>7. ASSUME NEW w \in Workers, NothingToClaim(w) \/ RecoverStale(w) \/ ClaimNext(w)
      PROVE  Goal
  <2>1. UNCHANGED <<instructed, interrupted, outcomes>>
    BY <1>7 DEF NothingToClaim, RecoverStale, ClaimNext
  <2>2. \A v \in Workers : pc[v] = "running" => pc'[v] = "running" /\ cur'[v] = cur[v]
    BY <1>7 DEF NothingToClaim, RecoverStale, ClaimNext, EndTransaction, TypeOK
  <2> QED
    BY <1>2, <2>1, <2>2 DEF Running
<1>8. CASE UNCHANGED <<instructed, interrupted, outcomes, cur, pc>>
  BY <1>2, <1>8 DEF Running
<1>9. ASSUME NEW w \in Workers, NEW p, pc[w] # "running", pc' = [pc EXCEPT ![w] = p],
             UNCHANGED <<instructed, interrupted, outcomes, cur>>
      PROVE  Goal
  <2>1. \A v \in Workers : pc[v] = "running" => pc'[v] = "running" /\ cur'[v] = cur[v]
    BY <1>9 DEF TypeOK
  <2> QED
    BY <1>2, <1>9, <2>1 DEF Running
<1>10. ASSUME NEW d \in Daemons, Poll(d) \/ Restart(d) PROVE Goal
  BY <1>9, <1>10 DEF Poll, Restart
<1>11. ASSUME NEW q \in Requests, NEW u \in Tasks, TickRequest(q, u) PROVE Goal
  BY <1>9, <1>11 DEF TickRequest
<1>15. ASSUME NEW w \in Workers, ReadBack(w) \/ FailAfterCommit(w) PROVE Goal
  <2>1. UNCHANGED <<instructed, interrupted>>
    BY <1>15 DEF ReadBack, FailAfterCommit
  <2>2. outcomes'[t] \in Nat /\ outcomes'[t] >= outcomes[t]
    BY <1>1, <1>15 DEF ReadBack, FailAfterCommit, TypeOK
  <2>3. \A v \in Workers : pc[v] = "running" => pc'[v] = "running" /\ cur'[v] = cur[v]
    BY <1>15 DEF ReadBack, FailAfterCommit, TypeOK
  <2>4. Running(t) => Running(t)'
    BY <2>3 DEF Running
  <2> QED
    BY <1>1, <2>1, <2>2, <2>4
<1>12. ASSUME NEW w \in Workers, Tick(w) \/ Fault(w) PROVE Goal
  BY <1>3, <1>5, <1>6, <1>7, <1>12, <1>15 DEF Tick, Fault, CompleteTask, FailTask
<1>13. ASSUME \/ Producer \/ LlmOutage \/ LlmBack \/ UNCHANGED vars
              \/ (\E c \in Clients : Client(c)) \/ (\E u \in Tasks : Expire(u))
       PROVE  Goal
  <2>1. UNCHANGED <<instructed, interrupted, outcomes, cur, pc>>
    BY <1>13 DEF Producer, EnqueueTask, Delegate, LlmOutage, LlmBack, Client, Expire,
       ClientClaim, MarkInProgress, ClientSettle, ClientVanish, vars
  <2> QED
    BY <1>8, <2>1
<1> HIDE DEF Goal
<1>14. Goal
  BY <1>10, <1>11, <1>12, <1>13 DEF Next
<1> QED
  BY <1>14 DEF Goal

\* The team is instructed again on a task only after an execution of it was
\* rolled back: retries do not happen for any other reason.
THEOREM InstructionsAreAttempts == Spec => []InstructedOncePerAttempt
<1>1. Init => InstructedOncePerAttempt
  <2> SUFFICES ASSUME Init, NEW t \in Tasks
               PROVE  instructed[t] <= interrupted[t] + outcomes[t]
                                       + (IF Running(t) THEN 1 ELSE 0)
    BY DEF InstructedOncePerAttempt, Running
  <2>1. instructed[t] = 0 /\ interrupted[t] = 0 /\ outcomes[t] = 0
    BY DEF Init
  <2> QED
    BY <2>1
<1>2. TypeOK /\ QueueInv /\ InstructedOncePerAttempt /\ [Next]_vars
        => InstructedOncePerAttempt'
  BY NextInstructed
<1> QED
  BY <1>1, <1>2, QueueCorrect, PTL DEF Spec

-----------------------------------------------------------------------------
(* Refinement.                                                             *)

\* Without clients a tick that has committed a completed task is the only one
\* to hand it back, and finds it done.
AnswersAreDone ==
    \A w \in Workers : pc[w] = "answer" =>
        /\ status[cur[w]] = "done"
        /\ \A v \in Workers : pc[v] = "answer" /\ cur[v] = cur[w] => v = w

\* A step after which the same ticks, or fewer, hand the same tasks back and
\* those tasks are still done.
LEMMA AnswersKept ==
    ASSUME AnswersAreDone,
           \A w \in Workers : pc'[w] = "answer" =>
              pc[w] = "answer" /\ cur'[w] = cur[w] /\ status'[cur[w]] = status[cur[w]]
    PROVE  AnswersAreDone'
  BY DEF AnswersAreDone

\* Without clients no row that is done is changed but by the tick that
\* completed it.
LEMMA NextAnswers ==
    ASSUME Clients = {}, TypeOK, QueueInv, AnswersAreDone, [Next]_vars
    PROVE  AnswersAreDone'
<1> USE DEF rows, history
<1>1. ASSUME NEW u \in Tasks, NEW r \in Roles, CreateTask(u, r), UNCHANGED <<pc, cur>>
      PROVE  AnswersAreDone'
  <2>1. \A w \in Workers : pc[w] = "answer" => status'[cur[w]] = status[cur[w]]
    BY <1>1 DEF CreateTask, AnswersAreDone, TypeOK
  <2> QED
    BY <1>1, <2>1, AnswersKept
<1>2. ASSUME NEW w \in Workers, NEW s \in {"done", "failed"}, Commit(w, s),
             pc[w] \in {"claimed", "running"}
      PROVE  AnswersAreDone'
  <2>1. /\ cur[w] \in Tasks
        /\ status[cur[w]] \in Open
        /\ \A t \in recovered[w] : t \in Tasks /\ status[t] \in Open
    BY <1>2, CommitTouchesOpenRows
  <2>2. \A v \in Workers : v # w => pc'[v] = pc[v] /\ cur'[v] = cur[v]
    BY <1>2 DEF Commit, TypeOK
  <2>3. \A v \in Workers : pc[v] = "answer" =>
           cur[v] \in Tasks /\ cur[v] # cur[w] /\ cur[v] \notin recovered[w]
    BY <2>1 DEF AnswersAreDone, Open, QueueInv, LockInv, TickHoldsTask
  <2>4. \A v \in Workers : pc[v] = "answer" => status'[cur[v]] = status[cur[v]]
    BY <1>2, <2>3 DEF Commit
  <2>5. pc'[w] = "answer" => cur'[w] = cur[w] /\ status'[cur[w]] = "done"
    BY <1>2, <2>1 DEF Commit, TypeOK
  <2> QED
    BY <1>2, <2>2, <2>3, <2>4, <2>5 DEF AnswersAreDone
<1>3. ASSUME NEW w \in Workers, FailAfterCommit(w) PROVE AnswersAreDone'
  <2>1. \A v \in Workers : pc'[v] = "answer" => v # w
    BY <1>3 DEF FailAfterCommit, TypeOK
  <2>2. \A v \in Workers : v # w => pc'[v] = pc[v] /\ cur'[v] = cur[v]
    BY <1>3 DEF FailAfterCommit, TypeOK
  <2>3. \A v \in Workers : v # w /\ pc[v] = "answer" => status'[cur[v]] = status[cur[v]]
    BY <1>3 DEF FailAfterCommit, UpdateStatus, AnswersAreDone
  <2> QED
    BY <2>1, <2>2, <2>3, AnswersKept
<1>4. ASSUME UNCHANGED status,
             \A w \in Workers : pc'[w] = "answer" => pc[w] = "answer" /\ cur'[w] = cur[w]
      PROVE  AnswersAreDone'
  BY <1>4, AnswersKept
<1>5. CASE Producer
  BY <1>1, <1>5 DEF Producer, EnqueueTask, Delegate
<1>6. ASSUME NEW d \in Daemons, Poll(d) \/ Restart(d) PROVE AnswersAreDone'
  BY <1>4, <1>6 DEF Poll, Restart, TypeOK
<1>7. ASSUME NEW q \in Requests, NEW t \in Tasks, TickRequest(q, t) PROVE AnswersAreDone'
  BY <1>4, <1>7 DEF TickRequest, TypeOK
<1>8. ASSUME NEW w \in Workers,
             RecoverStale(w) \/ ClaimNext(w) \/ NothingToClaim(w) \/ BeginRun(w) \/ ReadBack(w)
      PROVE  AnswersAreDone'
  BY <1>4, <1>8 DEF RecoverStale, ClaimNext, NothingToClaim, BeginRun, ReadBack, TypeOK
<1>9. ASSUME NEW w \in Workers, CompleteTask(w) \/ FailTask(w) PROVE AnswersAreDone'
  BY <1>2, <1>9 DEF CompleteTask, FailTask
<1>10. ASSUME NEW w \in Workers, DbError(w) \/ Crash(w) PROVE AnswersAreDone'
  BY <1>4, <1>10 DEF DbError, Crash, Rollback, TypeOK
<1>11. CASE LlmOutage \/ LlmBack \/ (\E t \in Tasks : Expire(t)) \/ UNCHANGED vars
  BY <1>4, <1>11 DEF LlmOutage, LlmBack, Expire, vars
<1> QED
  BY <1>3, <1>5, <1>6, <1>7, <1>8, <1>9, <1>10, <1>11 DEF Next, Tick, Fault

\* One step of the queue is one step of the board, or none.
LEMMA BoardStep ==
    ASSUME Clients = {}, TypeOK, QueueInv, AnswersAreDone, [Next]_vars
    PROVE  [Board!Next]_(Board!boardVars)
<1> USE DEF Board!boardVars, columnOf, Open
<1>1. ASSUME NEW u \in Tasks, NEW r \in Roles, CreateTask(u, r), UNCHANGED outcomes
      PROVE  Board!Add(u)
  BY <1>1 DEF CreateTask, TypeOK, Board!Add
<1>2. ASSUME NEW w \in Workers, NEW s \in {"done", "failed"}, Commit(w, s),
             pc[w] \in {"claimed", "running"}
      PROVE  Board!Settle(cur[w], s) /\ cur[w] \in Tasks
  <2>1. /\ cur[w] \in Tasks
        /\ status[cur[w]] \in Open
        /\ \A t \in recovered[w] : t \in Tasks /\ status[t] \in Open
    BY <1>2, CommitTouchesOpenRows
  <2> QED
    BY <1>2, <2>1 DEF Commit, Board!Settle
<1>3. ASSUME UNCHANGED <<status, outcomes>>
      PROVE  UNCHANGED Board!boardVars
  BY <1>3
<1>4. CASE Producer
  BY <1>1, <1>4 DEF Producer, EnqueueTask, Delegate, history, Board!Next
<1>5. ASSUME NEW w \in Workers, CompleteTask(w) \/ FailTask(w)
      PROVE  Board!Next
  BY <1>2, <1>5 DEF CompleteTask, FailTask, Board!Next
<1>6. ASSUME NEW w \in Workers, FailAfterCommit(w)
      PROVE  Board!Next
  <2>1. cur[w] \in Tasks /\ status[cur[w]] = "done"
    BY <1>6 DEF FailAfterCommit, AnswersAreDone, QueueInv, LockInv, TickHoldsTask
  <2>2. status' = [status EXCEPT ![cur[w]] = "failed"]
        /\ outcomes' = [outcomes EXCEPT ![cur[w]] = @ + 1]
    BY <1>6 DEF FailAfterCommit, UpdateStatus
  <2>3. columnOf[cur[w]] = "done"
    BY <2>1
  <2>4. columnOf' = [columnOf EXCEPT ![cur[w]] = "failed"]
    BY <2>1, <2>2 DEF TypeOK
  <2>5. PICK t \in Tasks : t = cur[w]
    BY <2>1
  <2>6. Board!Overturn(t)
    BY <2>2, <2>3, <2>4, <2>5 DEF Board!Overturn
  <2> QED
    BY <2>6 DEF Board!Next
<1> HIDE DEF Board!boardVars, columnOf
<1> QED
  BY <1>3, <1>4, <1>5, <1>6
  DEF Next, Poll, Restart, TickRequest, Tick, RecoverStale, ClaimNext,
      NothingToClaim, BeginRun, ReadBack, Fault, DbError, Crash, Rollback, LlmOutage,
      LlmBack, Expire, vars, rows, history

\* The queue of the server (no self-committing client) implements the board:
\* every task is added once and settled with one record, and only a task
\* whose result is being handed back is overturned, through any number of
\* daemons, tick requests, crashes and database errors.
THEOREM QueueImplementsBoard == Clients = {} /\ Spec => ImplementsBoard
<1> SUFFICES ASSUME Clients = {} PROVE Spec => ImplementsBoard
  OBVIOUS
<1>1. Init => Board!Init /\ AnswersAreDone
  BY DEF Init, Board!Init, columnOf, AnswersAreDone, Open
<1>2. TypeOK /\ QueueInv /\ AnswersAreDone /\ [Next]_vars => AnswersAreDone'
  BY NextAnswers
<1>3. TypeOK /\ QueueInv /\ AnswersAreDone /\ [Next]_vars
        => [Board!Next]_(Board!boardVars)
  BY BoardStep
<1> QED
  BY <1>1, <1>2, <1>3, QueueCorrect, PTL DEF Spec, ImplementsBoard, Board!Spec
=============================================================================
