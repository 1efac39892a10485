-------------------------- MODULE TeamRunsProofs --------------------------
(***************************************************************************)
(* Proofs about TeamRuns, for any runs, roles, plans and bounds.           *)
(*                                                                         *)
(* The properties speak of what is stored and of answers.  What makes them *)
(* inductive is                                                            *)
(*   - where a run is (RunInv): the outputs it has are those of the roles  *)
(*     that have answered, without repetition, the coordinator's last;     *)
(*   - what is in the audit log by then (AuditInv);                        *)
(*   - what a run has written but not committed, whom it has met, and what *)
(*     it loaded (StoreInv): runs open at a time have always met, a count  *)
(*     that is not the stored one is behind a run it has met, and an entry *)
(*     it inserts is new or that of a run it has met;                      *)
(*   - for the memory of a key whose stores do not overlap or fail, that   *)
(*     Redis is at most one store ahead of the process (MemoryInv).        *)
(***************************************************************************)
EXTENDS TeamRuns, FiniteSetTheorems, SequenceTheorems, TLAPS

-----------------------------------------------------------------------------
(* The inductive invariant.                                                *)

\* The outputs of a run are those of its plan and last the coordinator's.
Complete(r) ==
    /\ IsInjective(order[r])
    /\ ToSet(order[r]) = Plan(r) \cup {Coordinator}
    /\ order[r] # <<>> /\ Last(order[r]) = Coordinator

\* What a run has, by where it is.
Control(r) ==
    /\ pc[r] # "idle" => r \in DOMAIN ask
    /\ ~Open(r) => writer # r
    /\ pc[r] \notin {"persist", "update"} => wrote[r] = {}
    /\ pc[r] \in {"idle", "create", "persona", "instruct"} =>
          \A k \in Roles : phase[r][k] = "out"
    /\ pc[r] \notin {"team", "coordinate", "persist", "update"} => order[r] = <<>>
    /\ pc[r] \notin {"coordinate", "persist", "update"} => at[r] = 1

\* How far its roles are.
Outputs(r) ==
    /\ pc[r] = "team" =>
          /\ IsInjective(order[r])
          /\ ToSet(order[r]) = {k \in Plan(r) : phase[r][k] # "llm"}
          /\ \A k \in Roles : phase[r][k] = "out" <=> k \notin Plan(r)
    /\ pc[r] = "coordinate" =>
          /\ \A k \in Specialists : phase[r][k] \in {"out", "done"}
          /\ phase[r][Coordinator] = "llm" =>
                IsInjective(order[r]) /\ ToSet(order[r]) = Plan(r) /\ at[r] = 1
          /\ phase[r][Coordinator] # "llm" => Complete(r) /\ at[r] \in 1..Len(order[r])
    /\ pc[r] \in {"persist", "update"} =>
          /\ \A k \in Roles : phase[r][k] \in {"out", "done"}
          /\ Complete(r) /\ at[r] \in 1..Len(order[r]) + 1
    /\ pc[r] = "update" => at[r] \in 1..Len(order[r]) /\ target[r] \in Runs

RunInv == TypeOK /\ \A r \in Runs : Control(r) /\ Outputs(r)

\* Of a key that is not split at most one store is under way, and what it has
\* put in Redis is still there.
MemoryInv ==
    \A k \in Roles \ split :
        /\ \A r, q \in Storing(k) : r = q
        /\ \A r \in Storing(k) : redis[k] \in {r, None}
        /\ Storing(k) = {} => redis[k] = None \/ local[k] = None \/ redis[k] = local[k]

\* What is in the audit log.
Audited(r) ==
    /\ pc[r] \in {"team", "coordinate", "persist", "update"}
         \/ (\E k \in Roles : phase[r][k] # "out") =>
       Event(r, "instruction", "user") \in audit
    /\ pc[r] = "coordinate" => \A i \in 1..Len(order[r]) : i < at[r] =>
          Event(r, IF order[r][i] = Coordinator THEN "reply" ELSE "decision", order[r][i])
              \in audit
    /\ pc[r] \in {"persist", "update"} => Told(r, order[r]) \subseteq audit

Effective ==
    /\ \A t \in tasks : Event(t[1], "instruction", "user") \in audit
    /\ \A k \in Roles :
          /\ redis[k] # None => Event(redis[k], "instruction", "user") \in audit
          /\ local[k] \notin {None, Worker} => Event(local[k], "instruction", "user") \in audit

AuditInv == Effective /\ \A r \in Runs : Audited(r)

\* What a run is about to write: one entry for each output so far, its own or
\* one that is there.
Written(r) ==
    /\ \A w \in wrote[r] :
          /\ w.val = r
          /\ \E i \in 1..Len(order[r]) : i < at[r] /\ w.key = order[r][i]
          /\ w.by # r => \E v \in rows : v.key = w.key /\ v.by = w.by
          /\ w.by = r => \A v \in rows : v.key = w.key => {v.by, r} \in met
    /\ \A v, w \in wrote[r] : v.key = w.key => v = w
    /\ pc[r] \in {"persist", "update"} => \A i \in 1..Len(order[r]) : i < at[r] =>
          \E w \in wrote[r] : w.key = order[r][i]
    /\ pc[r] = "update" =>
          \E v \in rows : v.key = order[r][at[r]] /\ v.by = target[r]

\* The entries that are there.
Kept ==
    /\ \A v \in rows : pc[v.val] = "ok" /\ pc[v.by] = "ok"
    /\ \A v, w \in rows : v.key = w.key =>
          /\ v.by = w.by => v = w
          /\ v.by # w.by => {v.by, w.by} \in met

\* The workflows that are there.
Done ==
    /\ \A w \in workflows :
          /\ pc[w.run] = "ok"
          /\ Len(w.steps) = Len(ask[w.run].plan) + 1
          /\ ToSet(w.steps) = Plan(w.run) \cup {Coordinator}
          /\ Last(w.steps) = Coordinator
          /\ Told(w.run, w.steps) \subseteq audit
          /\ \A k \in ToSet(w.steps) : \E v \in rows : v.key = k
    /\ \A v, w \in workflows : v.run = w.run => v = w
    /\ \A r \in Runs : pc[r] = "ok" => \E w \in workflows : w.run = r

\* What runs have to do with each other.
Meets(r) ==
    /\ Open(r) => \A q \in Runs : q # r /\ Open(q) => {r, q} \in met
    /\ Open(r) => seen[r] = count \/ \E w \in workflows : {w.run, r} \in met
    /\ pc[r] = "deadlock" => \E q \in Runs \ {r} : {r, q} \in met
    /\ pc[r] = "ambiguous" =>
          \E v, w \in rows : /\ v.key \in Plan(r) \cup {Coordinator}
                             /\ v.key = w.key /\ v.by # w.by

Counts ==
    /\ session => count >= 2
    /\ count # 2 * Cardinality(workflows) =>
          \E v, w \in workflows : v # w /\ {v.run, w.run} \in met

StoreInv == Kept /\ Done /\ Counts /\ \A r \in Runs : Written(r) /\ Meets(r)

-----------------------------------------------------------------------------
(* Sequences without repetition.                                           *)

\* A sequence with one more element that is not in it yet.
LEMMA AppendFresh ==
    ASSUME NEW S, NEW s \in Seq(S), NEW k \in S
    PROVE  /\ Append(s, k) \in Seq(S) /\ Append(s, k) # <<>>
           /\ Len(Append(s, k)) = Len(s) + 1 /\ Last(Append(s, k)) = k
           /\ ToSet(Append(s, k)) = ToSet(s) \cup {k}
           /\ IsInjective(s) /\ k \notin ToSet(s) => IsInjective(Append(s, k))
<1> DEFINE t == Append(s, k)
<1>1. Len(s) \in Nat /\ DOMAIN s = 1..Len(s)
  BY LenProperties
<1>2. /\ t \in Seq(S) /\ t # <<>> /\ Len(t) = Len(s) + 1 /\ t[Len(t)] = k
      /\ DOMAIN t = 1..Len(s) + 1
      /\ \A i \in 1..Len(s) : t[i] = s[i]
      /\ t[Len(s) + 1] = k
  BY <1>1
<1> HIDE DEF t
<1>3. \A i \in DOMAIN t : i \in DOMAIN s \/ i = Len(s) + 1
  BY <1>1, <1>2
<1>4. \A i \in DOMAIN s : i \in DOMAIN t /\ i # Len(s) + 1 /\ t[i] = s[i]
  BY <1>1, <1>2
<1>5. Len(s) + 1 \in DOMAIN t
  BY <1>1, <1>2
<1>6. ToSet(t) = ToSet(s) \cup {k}
  BY <1>2, <1>3, <1>4, <1>5 DEF ToSet
<1>7. ASSUME IsInjective(s), k \notin ToSet(s) PROVE IsInjective(t)
  <2> SUFFICES ASSUME NEW i \in DOMAIN t, NEW j \in DOMAIN t, t[i] = t[j]
               PROVE  i = j
    BY DEF IsInjective
  <2>1. \A m \in DOMAIN s : s[m] # k
    BY <1>7 DEF ToSet
  <2>2. CASE i \in DOMAIN s /\ j \in DOMAIN s
    BY <1>4, <1>7, <2>2 DEF IsInjective
  <2>3. QED
    BY <1>2, <1>3, <1>4, <2>1, <2>2
<1>8. QED
  BY <1>2, <1>6, <1>7 DEF t, Last

\* Its length is the number of its elements.
LEMMA InjectiveLength ==
    ASSUME NEW S, NEW s \in Seq(S), IsInjective(s)
    PROVE  IsFiniteSet(ToSet(s)) /\ Cardinality(ToSet(s)) = Len(s)
<1>1. Len(s) \in Nat /\ DOMAIN s = 1..Len(s) /\ s \in [1..Len(s) -> S]
  BY LenProperties
<1>2. s \in [1..Len(s) -> ToSet(s)] /\ \A x \in ToSet(s) : \E i \in 1..Len(s) : s[i] = x
  BY <1>1 DEF ToSet
<1>3. s \in Bijection(1..Len(s), ToSet(s))
  BY <1>1, <1>2 DEF Bijection, Injection, Surjection, IsInjective
<1>4. ExistsBijection(1..Len(s), ToSet(s))
  BY <1>3 DEF ExistsBijection
<1>5. IsFiniteSet(1..Len(s)) /\ Cardinality(1..Len(s)) = Len(s)
  BY <1>1, FS_Interval
<1>6. QED
  BY <1>4, <1>5, FS_Bijection

\* What is known of a request.
LEMMA Asked ==
    ASSUME ask \in Mixes, NEW r \in DOMAIN ask
    PROVE  /\ r \in Runs /\ ask[r] \in Requests
           /\ ask[r].plan \in Seq(Specialists) /\ ask[r].plan \in Seq(Roles)
           /\ ask[r].plan # <<>> /\ IsInjective(ask[r].plan)
           /\ Plan(r) \subseteq Specialists /\ Coordinator \notin Plan(r)
<1>1. /\ r \in Runs /\ ask[r] \in Requests
      /\ ask[r].plan # <<>> /\ IsInjective(ask[r].plan)
  BY MixesAssumption
<1>2. ask[r].plan \in Seq(Specialists)
  BY <1>1 DEF Requests
<1>3. ask[r].plan \in Seq(Roles)
  BY <1>2, SeqMonotonic DEF Roles
<1>4. Plan(r) \subseteq Specialists
  BY <1>2, LenProperties DEF Plan, ToSet
<1>5. QED
  BY <1>1, <1>2, <1>3, <1>4, RolesAssumption

-----------------------------------------------------------------------------
(* The type invariant.                                                     *)

Phases == {"out", "llm", "tool", "local", "done"}
Places == Ended \cup {"idle", "create", "persona", "instruct", "team",
                      "coordinate", "persist", "update"}

\* One role of one run moves on.
LEMMA PhaseTypes ==
    ASSUME TypeOK, NEW r \in Runs, NEW k \in Roles, NEW p \in Phases, Phase(r, k, p)
    PROVE  phase' \in [Runs -> [Roles -> Phases]]
  BY DEF Phase, TypeOK, Phases

\* A run moves on.
LEMMA GoTypes ==
    ASSUME TypeOK, NEW r \in Runs, NEW p \in Places, Go(r, p)
    PROVE  pc' \in [Runs -> Places]
  BY DEF Go, TypeOK, Places

\* Faults are bounded.
LEMMA FaultTypes ==
    ASSUME TypeOK, Fault
    PROVE  faults' \in 0..MaxFaults
<1>1. faults \in 0..MaxFaults /\ faults < MaxFaults /\ faults' = faults + 1
  BY DEF TypeOK, Fault
<1>2. QED
  BY <1>1, FaultsAssumption

\* A run ends with a rollback.
LEMMA FailTypes ==
    ASSUME TypeOK, NEW r \in Runs, NEW answer \in Ended, Fail(r, answer), UNCHANGED effects,
           phase' \in [Runs -> [Roles -> Phases]], faults' \in 0..MaxFaults
    PROVE  TypeOK'
<1>1. pc' \in [Runs -> Places]
  BY GoTypes DEF Fail, Places
<1>2. /\ wrote' \in [Runs -> SUBSET [key : Roles, by : Runs, val : Runs]]
      /\ writer' \in Runs \cup {None}
      /\ seen' \in [Runs -> Nat] /\ at' \in [Runs -> Nat]
      /\ target' \in [Runs -> Runs \cup {None}]
  BY DEF Fail, Forget, TypeOK
<1>3. order' \in [Runs -> Seq(Roles)]
  <2>1. <<>> \in Seq(Roles)
    BY EmptySeq
  <2>2. QED
    BY <2>1 DEF Fail, Forget, TypeOK
<1>4. UNCHANGED <<session, count, persona, rows, workflows, ask, met, audit, tasks, redis,
                  local, split>>
  BY DEF Fail, database, effects, memory
<1>5. QED
  BY <1>1, <1>2, <1>3, <1>4 DEF TypeOK, Places, Phases

\* The element of the order that a run is at.
LEMMA OrderAt ==
    ASSUME TypeOK, NEW r \in Runs, at[r] \in 1..Len(order[r])
    PROVE  /\ order[r][at[r]] \in Roles /\ order[r][at[r]] \in ToSet(order[r])
           /\ at[r] + 1 \in 1..Len(order[r]) + 1
<1>1. order[r] \in Seq(Roles)
  BY DEF TypeOK
<1>2. Len(order[r]) \in Nat /\ order[r] \in [1..Len(order[r]) -> Roles]
  BY <1>1, LenProperties
<1>3. QED
  BY <1>2 DEF ToSet

\* The session is found or inserted, the specialists start.
LEMMA StartTypes ==
    ASSUME TypeOK, NEW r \in Runs,
           Resolve(r) \/ CreateSession(r) \/ SetPersona(r) \/ Instruct(r)
    PROVE  TypeOK'
<1>1. ASSUME Load(r) PROVE seen' \in [Runs -> Nat] /\ met' \in SUBSET (SUBSET Runs)
  BY <1>1 DEF Load, TypeOK
<1>2. CASE Resolve(r)
  <2>1. seen' \in [Runs -> Nat] /\ met' \in SUBSET (SUBSET Runs)
    BY <1>1, <1>2 DEF Resolve, TypeOK
  <2>2. \E p \in {"instruct", "persona", "create"} : Go(r, p)
    BY <1>2 DEF Resolve
  <2>3. pc' \in [Runs -> Places]
    BY <2>2, GoTypes DEF Places
  <2>4. UNCHANGED <<session, count, persona, rows, workflows, audit, tasks, redis, local, split,
                    ask, writer, phase, order, at, target, wrote, faults>>
    BY <1>2 DEF Resolve, database, effects, memory, cursor
  <2>5. QED
    BY <2>1, <2>3, <2>4 DEF TypeOK, Places
<1>3. CASE CreateSession(r)
  <2>1. CASE session
    <3>1. Fail(r, "conflict") /\ UNCHANGED effects /\ phase' = phase /\ faults' = faults
      BY <1>3, <2>1 DEF CreateSession
    <3>2. QED
      BY <3>1, FailTypes DEF TypeOK, Phases, Ended
  <2>2. CASE ~session
    <3>1. Load(r) /\ Go(r, "instruct") /\ writer' = r
      BY <1>3, <2>2 DEF CreateSession
    <3>2. pc' \in [Runs -> Places]
      BY <3>1, GoTypes DEF Places
    <3>3. UNCHANGED <<session, count, persona, rows, workflows, audit, tasks, redis, local,
                      split, ask, phase, order, at, target, wrote, faults>>
      BY <1>3, <2>2 DEF CreateSession, database, effects, memory, cursor
    <3>4. QED
      BY <1>1, <3>1, <3>2, <3>3 DEF TypeOK, Places
  <2>3. QED
    BY <2>1, <2>2
<1>4. CASE SetPersona(r)
  <2>1. pc' \in [Runs -> Places] /\ writer' = r
    BY <1>4, GoTypes DEF SetPersona, Places
  <2>2. UNCHANGED <<session, count, persona, rows, workflows, audit, tasks, redis, local,
                    split, ask, seen, phase, order, at, target, wrote, faults, met>>
    BY <1>4 DEF SetPersona, database, effects, memory, cursor
  <2>3. QED
    BY <2>1, <2>2 DEF TypeOK, Places
<1>5. CASE Instruct(r)
  <2>1. pc' \in [Runs -> Places]
    BY <1>5, GoTypes DEF Instruct, Places
  <2>2. audit' \subseteq [run : Runs, type : {"instruction", "decision", "reply"},
                          actor : Roles \cup {"user"}]
    BY <1>5 DEF Instruct, Event, TypeOK
  <2>3. phase' \in [Runs -> [Roles -> Phases]]
    BY <1>5 DEF Instruct, TypeOK, Phases
  <2>4. UNCHANGED <<session, count, persona, rows, workflows, tasks, redis, local,
                    split, ask, seen, writer, order, at, target, wrote, faults, met>>
    BY <1>5 DEF Instruct, database, memory, cursor
  <2>5. QED
    BY <2>1, <2>2, <2>3, <2>4 DEF TypeOK, Places, Phases
<1>6. QED
  BY <1>2, <1>3, <1>4, <1>5

\* Specialists and coordinator speak, their tools run.
LEMMA SpeakTypes ==
    ASSUME TypeOK, NEW r \in Runs, NEW k \in Roles,
           \/ Answered(r, k) \/ LlmFails(r, k) \/ Delegate(r, k)
           \/ StoreRedis(r, k) \/ StoreLocal(r, k) \/ ToolFails(r, k)
    PROVE  TypeOK'
<1>1. phase' \in [Runs -> [Roles -> Phases]]
  <2>1. \E p \in Phases : Phase(r, k, p)
    BY DEF Answered, LlmFails, Delegate, StoreRedis, StoreLocal, ToolFails, Phases
  <2>2. QED
    BY <2>1, PhaseTypes
<1>2. faults' \in 0..MaxFaults
  <2>1. Fault \/ faults' = faults
    BY DEF Answered, LlmFails, Delegate, StoreRedis, StoreLocal, ToolFails, NoFault
  <2>2. QED
    BY <2>1, FaultTypes DEF TypeOK
<1>3. CASE Answered(r, k)
  <2>1. order' \in [Runs -> Seq(Roles)]
    <3>1. order[r] \in Seq(Roles)
      BY DEF TypeOK
    <3>2. Append(order[r], k) \in Seq(Roles)
      BY <3>1, AppendFresh
    <3>3. QED
      BY <1>3, <3>1, <3>2 DEF Answered, TypeOK
  <2>2. UNCHANGED <<session, count, persona, rows, workflows, audit, tasks, redis, local,
                    split, ask, pc, seen, writer, at, target, wrote, faults, met>>
    BY <1>3 DEF Answered, database, effects, memory
  <2>3. QED
    BY <1>1, <2>1, <2>2 DEF TypeOK, Phases
<1>4. CASE LlmFails(r, k)
  <2>1. UNCHANGED effects
    BY <1>4 DEF LlmFails
  <2>2. CASE Fail(r, "error")
    BY <1>1, <1>2, <2>1, <2>2, FailTypes DEF Ended
  <2>3. CASE ~Fail(r, "error")
    <3>1. UNCHANGED <<session, count, persona, rows, workflows, audit, tasks, redis, local,
                      split, ask, pc, seen, writer, order, at, target, wrote, met>>
      BY <1>4, <2>3 DEF LlmFails, database, effects, memory, cursor
    <3>2. QED
      BY <1>1, <1>2, <3>1 DEF TypeOK, Phases
  <2>4. QED
    BY <2>2, <2>3
<1>5. CASE Delegate(r, k)
  <2>1. tasks' \subseteq Runs \X Roles
    BY <1>5 DEF Delegate, TypeOK
  <2>2. UNCHANGED <<session, count, persona, rows, workflows, audit, redis, local,
                    split, ask, pc, seen, writer, order, at, target, wrote, faults, met>>
    BY <1>5 DEF Delegate, database, memory, cursor
  <2>3. QED
    BY <1>1, <2>1, <2>2 DEF TypeOK, Phases
<1>6. CASE StoreRedis(r, k) \/ StoreLocal(r, k) \/ ToolFails(r, k)
  <2>1. /\ redis' \in [Roles -> Runs \cup {None}] /\ local' \in [Roles -> Runs \cup {None, Worker}]
        /\ split' \subseteq Roles
    <3>1. CASE StoreRedis(r, k)
      <4>1. redis' = redis \/ redis' = [redis EXCEPT ![k] = r]
        BY <3>1 DEF StoreRedis
      <4>2. split' = split \/ split' = split \ {k} \/ split' = split \cup {k}
        BY <3>1 DEF StoreRedis
      <4>3. split' \subseteq Roles
        BY <4>2 DEF TypeOK
      <4>4. redis' \in [Roles -> Runs \cup {None}]
        BY <4>1 DEF TypeOK
      <4>5. QED
        BY <3>1, <4>3, <4>4 DEF StoreRedis, TypeOK
    <3>2. CASE StoreLocal(r, k)
      BY <3>2 DEF StoreLocal, TypeOK
    <3>3. CASE ToolFails(r, k)
      BY <3>3 DEF ToolFails, TypeOK
    <3>4. QED
      BY <1>6, <3>1, <3>2, <3>3
  <2>2. UNCHANGED <<session, count, persona, rows, workflows, audit, tasks,
                    ask, pc, seen, writer, order, at, target, wrote, met>>
    BY <1>6 DEF StoreRedis, StoreLocal, ToolFails, database, cursor
  <2>3. QED
    BY <1>1, <1>2, <2>1, <2>2 DEF TypeOK, Phases
<1>7. QED
  BY <1>3, <1>4, <1>5, <1>6

\* Entries are looked up and written, the run is committed.
LEMMA PersistTypes ==
    ASSUME RunInv, NEW r \in Runs, SelectEntry(r) \/ UpdateEntry(r) \/ Store(r)
    PROVE  TypeOK'
<1>1. TypeOK /\ Control(r) /\ Outputs(r)
  BY DEF RunInv
<1>2. ASSUME NEW k \in Roles, NEW b \in Runs, Put(r, k, b)
      PROVE  /\ wrote' \in [Runs -> SUBSET [key : Roles, by : Runs, val : Runs]]
             /\ at' \in [Runs -> Nat]
  <2>1. Row(k, b, r) \in [key : Roles, by : Runs, val : Runs]
    BY DEF Row
  <2>2. at[r] + 1 \in Nat
    BY <1>1 DEF TypeOK
  <2>3. QED
    BY <1>1, <1>2, <2>1, <2>2 DEF Put, TypeOK
<1>3. CASE SelectEntry(r)
  <2>1. order[r][at[r]] \in Roles
    <3>1. at[r] \in 1..Len(order[r])
      <4>1. at[r] \in 1..Len(order[r]) + 1 /\ at[r] <= Len(order[r])
        BY <1>1, <1>3 DEF SelectEntry, Outputs
      <4>2. Len(order[r]) \in Nat
        BY <1>1, LenProperties DEF TypeOK
      <4>3. QED
        BY <4>1, <4>2
    <3>2. QED
      BY <1>1, <3>1, OrderAt
  <2>2. UNCHANGED effects /\ phase' = phase /\ faults' = faults
    BY <1>3 DEF SelectEntry
  <2>3. CASE Fail(r, "ambiguous")
    BY <1>1, <2>2, <2>3, FailTypes DEF TypeOK, Phases, Ended
  <2>4. CASE Put(r, order[r][at[r]], r)
               /\ UNCHANGED <<database, ask, pc, seen, writer, order, target, met>>
    <3>1. UNCHANGED <<session, count, persona, rows, workflows, audit, tasks, redis, local,
                      split, ask, pc, seen, writer, phase, order, target, faults, met>>
      BY <2>2, <2>4 DEF database, effects, memory
    <3>2. QED
      BY <1>1, <1>2, <2>1, <2>4, <3>1 DEF TypeOK
  <2>5. CASE (\E w \in Entries(order[r][at[r]]) : target' = [target EXCEPT ![r] = w.by])
               /\ Go(r, "update")
               /\ UNCHANGED <<database, ask, seen, writer, order, at, wrote, met>>
    <3>1. UNCHANGED <<session, count, persona, rows, workflows, audit, tasks, redis, local,
                      split, ask, seen, writer, phase, order, at, wrote, faults, met>>
      BY <2>2, <2>5 DEF database, effects, memory
    <3>2. pc' \in [Runs -> Places]
      BY <1>1, <2>5, GoTypes DEF Places
    <3>3. \E b \in Runs : target' = [target EXCEPT ![r] = b]
      BY <1>1, <2>5 DEF Entries, TypeOK
    <3>4. target' \in [Runs -> Runs \cup {None}]
      BY <1>1, <3>3 DEF TypeOK
    <3>5. QED
      BY <1>1, <3>1, <3>2, <3>4 DEF TypeOK, Places
  <2>6. QED
    BY <1>3, <2>3, <2>4, <2>5 DEF SelectEntry
<1>4. CASE UpdateEntry(r)
  <2>1. at[r] \in 1..Len(order[r]) /\ target[r] \in Runs
    BY <1>1, <1>4 DEF UpdateEntry, Outputs
  <2>2. order[r][at[r]] \in Roles
    BY <1>1, <2>1, OrderAt
  <2>3. Put(r, order[r][at[r]], target[r]) /\ Go(r, "persist")
    BY <1>4 DEF UpdateEntry
  <2>4. pc' \in [Runs -> Places] /\ target' \in [Runs -> Runs \cup {None}]
    BY <1>1, <1>4, <2>3, GoTypes DEF UpdateEntry, Places, TypeOK
  <2>5. UNCHANGED <<session, count, persona, rows, workflows, audit, tasks, redis, local,
                    split, ask, seen, writer, phase, order, faults, met>>
    BY <1>4 DEF UpdateEntry, database, effects, memory
  <2>6. QED
    BY <1>1, <1>2, <2>1, <2>2, <2>3, <2>4, <2>5 DEF TypeOK, Places
<1>5. CASE Store(r)
  <2>1. pc' \in [Runs -> Places]
    BY <1>1, <1>5, GoTypes DEF Store, Places, Ended
  <2>2. rows' \subseteq [key : Roles, by : Runs, val : Runs]
    BY <1>1, <1>5 DEF Store, TypeOK
  <2>3. workflows' \subseteq [run : Runs, status : {"completed"}, steps : Seq(Roles)]
    <3>1. order[r] \in Seq(Roles)
      BY <1>1 DEF TypeOK
    <3>2. QED
      BY <1>1, <1>5, <3>1 DEF Store, Workflow, TypeOK
  <2>4. count' \in Nat /\ session' \in BOOLEAN
    <3>1. seen[r] \in Nat
      BY <1>1 DEF TypeOK
    <3>2. QED
      BY <1>5, <3>1 DEF Store
  <2>5. /\ wrote' \in [Runs -> SUBSET [key : Roles, by : Runs, val : Runs]]
        /\ writer' \in Runs \cup {None}
        /\ seen' \in [Runs -> Nat] /\ at' \in [Runs -> Nat]
        /\ target' \in [Runs -> Runs \cup {None}]
    BY <1>1, <1>5 DEF Store, Forget, TypeOK
  <2>6. order' \in [Runs -> Seq(Roles)]
    <3>1. <<>> \in Seq(Roles)
      BY EmptySeq
    <3>2. QED
      BY <1>1, <1>5, <3>1 DEF Store, Forget, TypeOK
  <2>7. UNCHANGED <<audit, tasks, redis, local, split, ask, phase, faults, met>>
    BY <1>5 DEF Store, effects, memory
  <2>8. QED
    BY <1>1, <2>1, <2>2, <2>3, <2>4, <2>5, <2>6, <2>7 DEF TypeOK, Places
<1>6. QED
  BY <1>3, <1>4, <1>5

\* The coordinator starts, outputs are audited.
LEMMA ReportTypes ==
    ASSUME RunInv, NEW r \in Runs, Gathered(r) \/ Report(r)
    PROVE  TypeOK'
<1>1. TypeOK /\ Control(r) /\ Outputs(r)
  BY DEF RunInv
<1>2. CASE Gathered(r)
  <2>1. pc' \in [Runs -> Places] /\ phase' \in [Runs -> [Roles -> Phases]]
    BY <1>1, <1>2, GoTypes, PhaseTypes DEF Gathered, Places, Phases, Roles
  <2>2. order' \in [Runs -> Seq(Roles)]
    <3>1. ask[r].plan \in Seq(Roles)
      BY <1>1, <1>2, Asked DEF Gathered, Control, TypeOK
    <3>2. QED
      BY <1>1, <1>2, <3>1 DEF Gathered, TypeOK
  <2>3. UNCHANGED <<session, count, persona, rows, workflows, audit, tasks, redis, local,
                    split, ask, seen, writer, at, target, wrote, faults, met>>
    BY <1>2 DEF Gathered, database, effects, memory
  <2>4. QED
    BY <1>1, <2>1, <2>2, <2>3 DEF TypeOK, Places, Phases
<1>3. CASE Report(r)
  <2>1. order[r][at[r]] \in Roles
    BY <1>1, <1>3, OrderAt DEF Report, Outputs
  <2>2. audit' \subseteq [run : Runs, type : {"instruction", "decision", "reply"},
                          actor : Roles \cup {"user"}]
    BY <1>1, <1>3, <2>1 DEF Report, Event, TypeOK
  <2>3. at' \in [Runs -> Nat]
    <3>1. at[r] + 1 \in Nat
      BY <1>1 DEF TypeOK
    <3>2. at' = [at EXCEPT ![r] = at[r] + 1] \/ at' = [at EXCEPT ![r] = 1]
      BY <1>1, <1>3 DEF Report
    <3>3. QED
      BY <1>1, <3>1, <3>2 DEF TypeOK
  <2>4. pc' \in [Runs -> Places]
    <3>1. pc' = pc \/ Go(r, "persist")
      BY <1>3 DEF Report
    <3>2. QED
      BY <1>1, <3>1, GoTypes DEF TypeOK, Places
  <2>5. UNCHANGED <<session, count, persona, rows, workflows, tasks, redis, local,
                    split, ask, seen, writer, phase, order, target, wrote, faults, met>>
    BY <1>3 DEF Report, database, memory
  <2>6. QED
    BY <1>1, <2>2, <2>3, <2>4, <2>5 DEF TypeOK, Places
<1>4. QED
  BY <1>2, <1>3

\* What happens from outside, to any run or to none.
External == Crash \/ Expire \/ \E k \in WorkerRoles : WorkerStores(k)

\* A step from outside keeps the types.
LEMMA FaultyTypes ==
    ASSUME TypeOK, (\E r \in Runs : Deadlock(r) \/ Abandon(r)) \/ External
    PROVE  TypeOK'
<1>1. ASSUME NEW r \in Runs, Deadlock(r) \/ Abandon(r) PROVE TypeOK'
  <2>1. (Fail(r, "deadlock") \/ Fail(r, "error")) /\ UNCHANGED effects /\ phase' = phase
    BY <1>1 DEF Deadlock, Abandon
  <2>2. Fault \/ faults' = faults
    BY <1>1 DEF Deadlock, Abandon
  <2>3. faults' \in 0..MaxFaults /\ phase' \in [Runs -> [Roles -> Phases]]
    BY <2>1, <2>2, FaultTypes DEF TypeOK, Phases
  <2>4. QED
    BY <2>1, <2>3, FailTypes DEF Ended
<1>2. CASE Crash
  <2>1. faults' \in 0..MaxFaults
    BY <1>2, FaultTypes DEF Crash
  <2>2. pc' \in [Runs -> Places]
    BY <1>2 DEF Crash, TypeOK, Places, Ended
  <2>3. <<>> \in Seq(Roles)
    BY EmptySeq
  <2>4. /\ phase' \in [Runs -> [Roles -> Phases]]
        /\ local' \in [Roles -> Runs \cup {None, Worker}]
        /\ wrote' \in [Runs -> SUBSET [key : Roles, by : Runs, val : Runs]]
        /\ writer' \in Runs \cup {None}
        /\ seen' \in [Runs -> Nat] /\ at' \in [Runs -> Nat]
        /\ order' \in [Runs -> Seq(Roles)]
        /\ target' \in [Runs -> Runs \cup {None}]
    BY <1>2, <2>3 DEF Crash, Phases
  <2>5. UNCHANGED <<session, count, persona, rows, workflows, audit, tasks, redis, split,
                    ask, met>>
    BY <1>2 DEF Crash, database
  <2>6. QED
    BY <2>1, <2>2, <2>4, <2>5 DEF TypeOK, Places, Phases
<1>3. CASE Expire
  <2>1. faults' \in 0..MaxFaults
    BY <1>3, FaultTypes DEF Expire
  <2>2. redis' \in [Roles -> Runs \cup {None}]
    BY <1>3 DEF Expire
  <2>3. UNCHANGED <<session, count, persona, rows, workflows, audit, tasks, local, split,
                    ask, pc, seen, writer, phase, order, at, target, wrote, met>>
    BY <1>3 DEF Expire, database, cursor
  <2>4. QED
    BY <2>1, <2>2, <2>3 DEF TypeOK
<1>4. ASSUME NEW k \in WorkerRoles, WorkerStores(k) PROVE TypeOK'
  <2>1. k \in Roles
    BY WorkerAssumption
  <2>2. local' \in [Roles -> Runs \cup {None, Worker}] /\ split' \subseteq Roles
    BY <1>4, <2>1 DEF WorkerStores, TypeOK
  <2>3. UNCHANGED <<session, count, persona, rows, workflows, audit, tasks, redis, ask, pc,
                    seen, writer, phase, order, at, target, wrote, faults, met>>
    BY <1>4 DEF WorkerStores, database, cursor
  <2>4. QED
    BY <2>2, <2>3 DEF TypeOK
<1>5. QED
  BY <1>1, <1>2, <1>3, <1>4 DEF External

-----------------------------------------------------------------------------
(* Where runs are and what they have.                                      *)

\* Nothing of the runs other than r changes.
Others(r) ==
    \A q \in Runs : q # r =>
        /\ pc'[q] = pc[q] /\ seen'[q] = seen[q] /\ phase'[q] = phase[q]
        /\ order'[q] = order[q] /\ at'[q] = at[q] /\ target'[q] = target[q]
        /\ wrote'[q] = wrote[q]

\* What holds of the runs that do not move still holds.
LEMMA OthersRun ==
    ASSUME RunInv, ask' = ask, NEW r \in Runs, Others(r),
           writer' \in {writer, r, None}, NEW q \in Runs, q # r
    PROVE  Control(q)' /\ Outputs(q)'
<1>1. /\ pc'[q] = pc[q] /\ phase'[q] = phase[q] /\ order'[q] = order[q]
      /\ at'[q] = at[q] /\ target'[q] = target[q] /\ wrote'[q] = wrote[q]
  BY DEF Others
<1>2. Control(q) /\ Outputs(q)
  BY DEF RunInv
<1>3. Plan(q)' = Plan(q) /\ Complete(q)' = Complete(q)
  BY <1>1 DEF Plan, Complete
<1>4. writer' = q => writer = q
  BY RunsAssumption
<1>5. Control(q)'
  BY <1>1, <1>2, <1>4 DEF Control, Open
<1>6. Outputs(q)'
  <2>1. pc'[q] = "team" =>
          /\ IsInjective(order'[q])
          /\ ToSet(order'[q]) = {k \in Plan(q)' : phase'[q][k] # "llm"}
          /\ \A k \in Roles : phase'[q][k] = "out" <=> k \notin Plan(q)'
    BY <1>1, <1>2, <1>3 DEF Outputs
  <2>2. pc'[q] = "coordinate" =>
          /\ \A k \in Specialists : phase'[q][k] \in {"out", "done"}
          /\ phase'[q][Coordinator] = "llm" =>
                IsInjective(order'[q]) /\ ToSet(order'[q]) = Plan(q)' /\ at'[q] = 1
          /\ phase'[q][Coordinator] # "llm" => Complete(q)' /\ at'[q] \in 1..Len(order'[q])
    BY <1>1, <1>2, <1>3 DEF Outputs
  <2>3. pc'[q] \in {"persist", "update"} =>
          /\ \A k \in Roles : phase'[q][k] \in {"out", "done"}
          /\ Complete(q)' /\ at'[q] \in 1..Len(order'[q]) + 1
    BY <1>1, <1>2, <1>3 DEF Outputs
  <2>4. pc'[q] = "update" => at'[q] \in 1..Len(order'[q]) /\ target'[q] \in Runs
    BY <1>1, <1>2 DEF Outputs
  <2>5. QED
    BY <2>1, <2>2, <2>3, <2>4 DEF Outputs
<1>7. QED
  BY <1>5, <1>6

\* The invariant of all runs from that of the one that moved.
LEMMA OneRun ==
    ASSUME RunInv, TypeOK', ask' = ask, NEW r \in Runs, Others(r),
           writer' \in {writer, r, None}, Control(r)', Outputs(r)'
    PROVE  RunInv'
<1>1. ASSUME NEW q \in Runs PROVE Control(q)' /\ Outputs(q)'
  BY OthersRun
<1>2. QED
  BY <1>1 DEF RunInv

\* The functions and their domains.
LEMMA TeamDomains ==
    ASSUME TypeOK
    PROVE  /\ DOMAIN pc = Runs /\ DOMAIN seen = Runs /\ DOMAIN phase = Runs
           /\ DOMAIN order = Runs /\ DOMAIN at = Runs /\ DOMAIN target = Runs
           /\ DOMAIN wrote = Runs
           /\ \A r \in Runs : DOMAIN phase[r] = Roles
           /\ DOMAIN redis = Roles /\ DOMAIN local = Roles
  BY DEF TypeOK

\* A run that is over has forgotten what it had.
LEMMA FailFrame ==
    ASSUME TypeOK, NEW r \in Runs, NEW answer \in Ended, Fail(r, answer),
           \A q \in Runs : q # r => phase'[q] = phase[q]
    PROVE  /\ Others(r) /\ pc'[r] = answer /\ wrote'[r] = {} /\ order'[r] = <<>> /\ at'[r] = 1
           /\ writer' \in {writer, None} /\ writer' # r
           /\ ask' = ask /\ met' = met
           /\ session' = session /\ count' = count /\ rows' = rows /\ workflows' = workflows
<1>1. /\ pc' = [pc EXCEPT ![r] = answer] /\ wrote' = [wrote EXCEPT ![r] = {}]
      /\ seen' = [seen EXCEPT ![r] = 0] /\ order' = [order EXCEPT ![r] = <<>>]
      /\ at' = [at EXCEPT ![r] = 1] /\ target' = [target EXCEPT ![r] = None]
      /\ writer' = IF writer = r THEN None ELSE writer
      /\ UNCHANGED <<session, count, rows, workflows, ask, met>>
  BY DEF Fail, Go, Forget, database
<1>2. Others(r)
  BY <1>1, TeamDomains DEF Others
<1>3. QED
  BY <1>1, <1>2, TeamDomains, RunsAssumption

\* A run that ended has nothing left.
LEMMA FailRun ==
    ASSUME RunInv, TypeOK', NEW r \in Runs, NEW answer \in Ended, Fail(r, answer),
           r \in DOMAIN ask,
           \A q \in Runs : q # r => phase'[q] = phase[q]
    PROVE  RunInv'
<1>1. TypeOK
  BY DEF RunInv
<1>2. /\ Others(r) /\ pc'[r] = answer /\ wrote'[r] = {} /\ order'[r] = <<>> /\ at'[r] = 1
      /\ writer' \in {writer, None} /\ writer' # r /\ ask' = ask
  BY <1>1, FailFrame
<1>3. Control(r)'
  BY <1>2 DEF Control, Ended
<1>4. Outputs(r)'
  BY <1>2 DEF Outputs, Ended
<1>5. QED
  BY <1>2, <1>3, <1>4, OneRun

\* The first statements of a run.
LEMMA StartRun ==
    ASSUME RunInv, NEW r \in Runs,
           Resolve(r) \/ CreateSession(r) \/ SetPersona(r) \/ Instruct(r)
    PROVE  RunInv'
<1>1. TypeOK /\ TypeOK' /\ Control(r)
  BY StartTypes DEF RunInv
<1>2. r \in DOMAIN ask
  BY <1>1 DEF Resolve, CreateSession, SetPersona, Instruct, Control
<1>3. CASE Resolve(r)
  <2>1. PICK p \in {"instruct", "persona", "create"} : pc' = [pc EXCEPT ![r] = p]
    BY <1>3 DEF Resolve, Go
  <2>2. seen' = seen \/ seen' = [seen EXCEPT ![r] = count]
    BY <1>3 DEF Resolve, Load
  <2>3. /\ pc[r] = "idle" /\ ask' = ask
        /\ UNCHANGED <<writer, phase, order, at, target, wrote>>
    BY <1>3 DEF Resolve, cursor
  <2>4. Others(r) /\ pc'[r] = p
    BY <1>1, <2>1, <2>2, <2>3, TeamDomains DEF Others
  <2>5. Control(r)' /\ Outputs(r)'
    BY <1>1, <1>2, <2>3, <2>4 DEF Control, Outputs, Open, Ended
  <2>6. QED
    BY <1>1, <2>3, <2>4, <2>5, OneRun
<1>4. CASE CreateSession(r)
  <2>1. pc[r] = "create" /\ phase' = phase
    BY <1>4 DEF CreateSession
  <2>2. CASE session
    <3>1. Fail(r, "conflict")
      BY <1>4, <2>2 DEF CreateSession
    <3>2. QED
      BY <1>1, <1>2, <2>1, <3>1, FailRun DEF Ended
  <2>3. CASE ~session
    <3>1. /\ pc' = [pc EXCEPT ![r] = "instruct"] /\ seen' = [seen EXCEPT ![r] = count]
          /\ writer' = r /\ ask' = ask
          /\ UNCHANGED <<phase, order, at, target, wrote>>
      BY <1>4, <2>3 DEF CreateSession, Go, Load, cursor
    <3>2. Others(r) /\ pc'[r] = "instruct"
      BY <1>1, <3>1, TeamDomains DEF Others
    <3>3. Control(r)' /\ Outputs(r)'
      BY <1>1, <1>2, <2>1, <3>1, <3>2 DEF Control, Outputs, Open, Ended
    <3>4. QED
      BY <1>1, <3>1, <3>2, <3>3, OneRun
  <2>4. QED
    BY <2>2, <2>3
<1>5. CASE SetPersona(r)
  <2>1. /\ pc[r] = "persona" /\ pc' = [pc EXCEPT ![r] = "instruct"]
        /\ writer' = r /\ ask' = ask
        /\ UNCHANGED <<seen, phase, order, at, target, wrote>>
    BY <1>5 DEF SetPersona, Go, cursor
  <2>2. Others(r) /\ pc'[r] = "instruct"
    BY <1>1, <2>1, TeamDomains DEF Others
  <2>3. Control(r)' /\ Outputs(r)'
    BY <1>1, <1>2, <2>1, <2>2 DEF Control, Outputs, Open, Ended
  <2>4. QED
    BY <1>1, <2>1, <2>2, <2>3, OneRun
<1>6. CASE Instruct(r)
  <2>1. /\ pc[r] = "instruct" /\ pc' = [pc EXCEPT ![r] = "team"] /\ ask' = ask
        /\ phase' = [phase EXCEPT ![r] =
                        [k \in Roles |-> IF k \in Plan(r) THEN "llm" ELSE "out"]]
        /\ UNCHANGED <<seen, writer, order, at, target, wrote>>
    BY <1>6 DEF Instruct, Go, cursor
  <2>2. /\ Others(r) /\ pc'[r] = "team"
        /\ \A k \in Roles : phase'[r][k] = IF k \in Plan(r) THEN "llm" ELSE "out"
    BY <1>1, <2>1, TeamDomains DEF Others
  <2>3. order'[r] = <<>> /\ wrote'[r] = {} /\ at'[r] = 1
    BY <1>1, <2>1 DEF Control
  <2>4. Control(r)'
    BY <1>1, <1>2, <2>1, <2>2, <2>3 DEF Control, Open, Ended
  <2>5. Plan(r)' = Plan(r) /\ Plan(r) \subseteq Roles
    BY <1>1, <1>2, <2>1, Asked DEF Plan, TypeOK, Roles
  <2>6. IsInjective(<<>>) /\ ToSet(<<>>) = {}
    BY DEF IsInjective, ToSet
  <2>7. Outputs(r)'
    BY <2>2, <2>3, <2>5, <2>6 DEF Outputs
  <2>8. QED
    BY <1>1, <2>1, <2>2, <2>4, <2>7, OneRun
<1>7. QED
  BY <1>3, <1>4, <1>5, <1>6

\* One role of one run moves on.
LEMMA PhaseFrame ==
    ASSUME TypeOK, NEW r \in Runs, NEW k \in Roles, NEW p, Phase(r, k, p),
           UNCHANGED <<pc, seen, at, target, wrote>>,
           \A q \in Runs : q # r => order'[q] = order[q]
    PROVE  /\ Others(r) /\ phase'[r][k] = p
           /\ \A j \in Roles : j # k => phase'[r][j] = phase[r][j]
<1>1. phase' = [phase EXCEPT ![r][k] = p]
  BY DEF Phase
<1>2. Others(r)
  BY <1>1, TeamDomains DEF Others
<1>3. QED
  BY <1>1, <1>2, TeamDomains

\* A role that is past its answer, or one of a run that is over, changes nothing
\* of what is known of the run.
LEMMA AsideRun ==
    ASSUME RunInv, TypeOK', NEW r \in Runs, NEW k \in Roles, NEW p \in {"tool", "local", "done"},
           Phase(r, k, p),
           UNCHANGED <<ask, pc, seen, writer, order, at, target, wrote>>,
           \/ phase[r][k] \in {"tool", "local"} /\ p # "tool"
           \/ phase[r][k] = "llm" /\ ~Open(r)
    PROVE  RunInv'
<1>1. TypeOK /\ Control(r) /\ Outputs(r)
  BY DEF RunInv
<1>2. /\ Others(r) /\ phase'[r][k] = p
      /\ \A j \in Roles : j # k => phase'[r][j] = phase[r][j]
  BY <1>1, PhaseFrame
<1>3. pc[r] \notin {"idle", "create", "persona", "instruct", "persist", "update"}
  BY <1>1 DEF Control, Outputs
<1>4. Control(r)'
  BY <1>1, <1>3 DEF Control, Open
<1>5. Plan(r)' = Plan(r) /\ Complete(r)' = Complete(r)
  BY DEF Plan, Complete
<1>6. Outputs(r)'
  <2>1. CASE pc[r] \in {"team", "coordinate"}
    <3>1. Open(r) /\ phase[r][k] \in {"tool", "local"} /\ p \in {"local", "done"}
      BY <2>1 DEF Open, Ended
    <3>2. CASE pc[r] = "team"
      <4>1. r \in DOMAIN ask
        BY <1>1, <3>2 DEF Control
      <4>2. Plan(r) \subseteq Roles
        BY <1>1, <4>1, Asked DEF Roles, TypeOK
      <4>3. \A j \in Roles : /\ phase'[r][j] = "llm" <=> phase[r][j] = "llm"
                             /\ phase'[r][j] = "out" <=> phase[r][j] = "out"
        BY <1>2, <3>1
      <4>4. {j \in Plan(r) : phase'[r][j] # "llm"} = {j \in Plan(r) : phase[r][j] # "llm"}
        BY <4>2, <4>3
      <4>5. QED
        BY <1>1, <1>5, <3>2, <4>3, <4>4 DEF Outputs
    <3>3. CASE pc[r] = "coordinate"
      <4>1. k = Coordinator /\ Coordinator \notin Specialists
        BY <1>1, <3>1, <3>3, RolesAssumption DEF Outputs, Roles
      <4>2. \A j \in Specialists : phase'[r][j] = phase[r][j]
        BY <1>2, <4>1 DEF Roles
      <4>3. Complete(r) /\ at[r] \in 1..Len(order[r])
        BY <1>1, <3>1, <3>3, <4>1 DEF Outputs
      <4>4. QED
        BY <1>1, <1>2, <1>5, <3>1, <3>3, <4>1, <4>2, <4>3 DEF Outputs
    <3>4. QED
      BY <2>1, <3>2, <3>3
  <2>2. CASE pc[r] \notin {"team", "coordinate"}
    BY <1>3, <2>2 DEF Outputs
  <2>3. QED
    BY <2>1, <2>2
<1>7. QED
  BY <1>2, <1>4, <1>6, OneRun

\* An answer is the next output: of a role of the plan that has none yet, or of
\* the coordinator after all of the plan.
LEMMA AnsweredRun ==
    ASSUME RunInv, NEW r \in Runs, NEW k \in Roles, Answered(r, k)
    PROVE  RunInv'
<1>1. TypeOK /\ TypeOK' /\ Control(r) /\ Outputs(r)
  BY SpeakTypes DEF RunInv
<1>2. /\ UNCHANGED <<ask, pc, seen, writer, at, target, wrote>>
      /\ order' = [order EXCEPT ![r] = IF Open(r) THEN Append(order[r], k) ELSE order[r]]
      /\ phase[r][k] = "llm"
  BY DEF Answered
<1>3. PICK p \in {"done", "tool"} : Phase(r, k, p)
  BY DEF Answered
<1>4. \A q \in Runs : q # r => order'[q] = order[q]
  BY <1>1, <1>2, TeamDomains
<1>5. /\ Others(r) /\ phase'[r][k] = p
      /\ \A j \in Roles : j # k => phase'[r][j] = phase[r][j]
  BY <1>1, <1>2, <1>3, <1>4, PhaseFrame
<1>6. CASE ~Open(r)
  <2>1. order' = order
    BY <1>1, <1>2, <1>6 DEF TypeOK
  <2>2. QED
    BY <1>1, <1>2, <1>3, <1>6, <2>1, AsideRun
<1>7. CASE Open(r)
  <2>1. order'[r] = Append(order[r], k)
    BY <1>1, <1>2, <1>7, TeamDomains
  <2>2. pc[r] \in {"team", "coordinate"} /\ r \in DOMAIN ask
    <3>1. pc[r] \notin {"idle", "create", "persona", "instruct", "persist", "update"}
      BY <1>1, <1>2 DEF Control, Outputs
    <3>2. pc[r] \in Places
      BY <1>1 DEF TypeOK, Places
    <3>3. QED
      BY <1>1, <1>7, <3>1, <3>2 DEF Control, Open, Places
  <2>3. Control(r)'
    BY <1>1, <1>2, <2>2 DEF Control, Open
  <2>4. order[r] \in Seq(Roles) /\ Plan(r) \subseteq Specialists /\ Coordinator \notin Plan(r)
    BY <1>1, <2>2, Asked DEF TypeOK
  <2>5. /\ order'[r] # <<>> /\ Len(order'[r]) = Len(order[r]) + 1 /\ Last(order'[r]) = k
        /\ ToSet(order'[r]) = ToSet(order[r]) \cup {k}
        /\ IsInjective(order[r]) /\ k \notin ToSet(order[r]) => IsInjective(order'[r])
    BY <2>1, <2>4, AppendFresh
  <2>6. Plan(r)' = Plan(r)
    BY <1>2 DEF Plan
  <2>7. CASE pc[r] = "team"
    <3>1. /\ IsInjective(order[r])
          /\ ToSet(order[r]) = {j \in Plan(r) : phase[r][j] # "llm"}
          /\ \A j \in Roles : phase[r][j] = "out" <=> j \notin Plan(r)
      BY <1>1, <2>7 DEF Outputs
    <3>2. k \in Plan(r) /\ k \notin ToSet(order[r])
      BY <1>2, <3>1
    <3>3. ToSet(order'[r]) = {j \in Plan(r) : phase'[r][j] # "llm"}
      BY <1>5, <2>4, <2>5, <3>1, <3>2 DEF Roles
    <3>4. \A j \in Roles : phase'[r][j] = "out" <=> j \notin Plan(r)
      BY <1>5, <3>1, <3>2
    <3>5. Outputs(r)'
      BY <1>2, <2>5, <2>6, <2>7, <3>1, <3>2, <3>3, <3>4 DEF Outputs
    <3>6. QED
      BY <1>1, <1>2, <1>5, <2>3, <3>5, OneRun
  <2>8. CASE pc[r] = "coordinate"
    <3>1. k = Coordinator
      BY <1>1, <1>2, <2>8 DEF Outputs, Roles
    <3>2. IsInjective(order[r]) /\ ToSet(order[r]) = Plan(r) /\ at[r] = 1
      BY <1>1, <1>2, <2>8, <3>1 DEF Outputs
    <3>3. Complete(r)'
      BY <2>4, <2>5, <2>6, <3>1, <3>2 DEF Complete
    <3>4. at'[r] \in 1..Len(order'[r])
      <4>1. Len(order[r]) \in Nat
        BY <2>4, LenProperties
      <4>2. QED
        BY <1>2, <2>5, <3>2, <4>1
    <3>5. \A j \in Specialists : phase'[r][j] \in {"out", "done"}
      BY <1>1, <1>5, <2>8, <3>1, RolesAssumption DEF Outputs, Roles
    <3>6. Outputs(r)'
      BY <1>2, <1>5, <2>8, <3>1, <3>3, <3>4, <3>5 DEF Outputs
    <3>7. QED
      BY <1>1, <1>2, <1>5, <2>3, <3>6, OneRun
  <2>9. QED
    BY <2>2, <2>7, <2>8
<1>8. QED
  BY <1>6, <1>7

\* All that specialists and coordinator do.
LEMMA SpeakRun ==
    ASSUME RunInv, NEW r \in Runs, NEW k \in Roles,
           \/ Answered(r, k) \/ LlmFails(r, k) \/ Delegate(r, k)
           \/ StoreRedis(r, k) \/ StoreLocal(r, k) \/ ToolFails(r, k)
    PROVE  RunInv'
<1>1. TypeOK /\ TypeOK' /\ Control(r)
  BY SpeakTypes DEF RunInv
<1>2. CASE LlmFails(r, k)
  <2>1. phase[r][k] = "llm" /\ Phase(r, k, "done")
    BY <1>2 DEF LlmFails
  <2>2. CASE Open(r)
    <3>1. Fail(r, "error")
      BY <1>2, <2>2 DEF LlmFails
    <3>2. \A q \in Runs : q # r => phase'[q] = phase[q]
      BY <1>1, <2>1, TeamDomains DEF Phase
    <3>3. r \in DOMAIN ask
      BY <1>1, <2>2 DEF Control, Open
    <3>4. QED
      BY <1>1, <3>1, <3>2, <3>3, FailRun DEF Ended
  <2>3. CASE ~Open(r)
    <3>1. UNCHANGED <<ask, pc, seen, writer, order, at, target, wrote>>
      BY <1>2, <2>3 DEF LlmFails, cursor
    <3>2. QED
      BY <1>1, <2>1, <2>3, <3>1, AsideRun
  <2>4. QED
    BY <2>2, <2>3
<1>3. CASE Delegate(r, k) \/ StoreRedis(r, k) \/ StoreLocal(r, k) \/ ToolFails(r, k)
  <2>1. UNCHANGED <<ask, pc, seen, writer, order, at, target, wrote>>
    BY <1>3 DEF Delegate, StoreRedis, StoreLocal, ToolFails, cursor
  <2>2. phase[r][k] \in {"tool", "local"}
    BY <1>3 DEF Delegate, StoreRedis, StoreLocal, ToolFails
  <2>3. Phase(r, k, "local") \/ Phase(r, k, "done")
    BY <1>3 DEF Delegate, StoreRedis, StoreLocal, ToolFails
  <2>4. CASE Phase(r, k, "local")
    BY <1>1, <2>1, <2>2, <2>4, AsideRun
  <2>5. CASE Phase(r, k, "done")
    BY <1>1, <2>1, <2>2, <2>5, AsideRun
  <2>6. QED
    BY <2>3, <2>4, <2>5
<1>4. QED
  BY <1>2, <1>3, AnsweredRun

\* The outputs of the plan are complete when the coordinator starts, and its own
\* is the last one when they are audited.
LEMMA ReportRun ==
    ASSUME RunInv, NEW r \in Runs, Gathered(r) \/ Report(r)
    PROVE  RunInv'
<1>1. TypeOK /\ TypeOK' /\ Control(r) /\ Outputs(r)
  BY ReportTypes DEF RunInv
<1>2. r \in DOMAIN ask /\ ask' = ask /\ Plan(r)' = Plan(r)
  BY <1>1 DEF Gathered, Report, Control, Plan
<1>3. CASE Gathered(r)
  <2>1. /\ pc[r] = "team" /\ pc' = [pc EXCEPT ![r] = "coordinate"]
        /\ phase' = [phase EXCEPT ![r][Coordinator] = "llm"]
        /\ \A k \in Plan(r) : phase[r][k] = "done"
        /\ UNCHANGED <<seen, writer, at, target, wrote>>
    BY <1>3 DEF Gathered, Go, Phase
  <2>2. order' = order \/ order' = [order EXCEPT ![r] = ask[r].plan]
    BY <1>1, <1>3 DEF Gathered, TypeOK
  <2>3. /\ Others(r) /\ pc'[r] = "coordinate" /\ phase'[r][Coordinator] = "llm"
        /\ \A k \in Specialists : phase'[r][k] = phase[r][k]
        /\ order'[r] = order[r] \/ order'[r] = ask[r].plan
    BY <1>1, <2>1, <2>2, TeamDomains, RolesAssumption DEF Others, Roles
  <2>4. IsInjective(order'[r]) /\ ToSet(order'[r]) = Plan(r)
    <3>1. IsInjective(order[r]) /\ ToSet(order[r]) = Plan(r)
      BY <1>1, <2>1 DEF Outputs
    <3>2. IsInjective(ask[r].plan) /\ ToSet(ask[r].plan) = Plan(r)
      BY <1>1, <1>2, Asked DEF Plan, TypeOK
    <3>3. QED
      BY <2>3, <3>1, <3>2
  <2>5. at'[r] = 1 /\ wrote'[r] = {}
    BY <1>1, <2>1 DEF Control
  <2>6. Control(r)'
    BY <1>2, <2>3, <2>5 DEF Control, Open, Ended
  <2>7. \A k \in Specialists : phase'[r][k] \in {"out", "done"}
    BY <1>1, <2>1, <2>3 DEF Outputs, Roles
  <2>8. Outputs(r)'
    BY <1>2, <2>3, <2>4, <2>5, <2>7 DEF Outputs
  <2>9. QED
    BY <1>1, <1>2, <2>1, <2>3, <2>6, <2>8, OneRun
<1>4. CASE Report(r)
  <2>1. /\ pc[r] = "coordinate" /\ phase[r][Coordinator] = "done"
        /\ UNCHANGED <<seen, writer, phase, order, target, wrote>>
    BY <1>4 DEF Report
  <2>2. /\ Complete(r) /\ at[r] \in 1..Len(order[r]) /\ Len(order[r]) \in Nat
        /\ \A k \in Specialists : phase[r][k] \in {"out", "done"}
    BY <1>1, <2>1, LenProperties DEF Outputs, TypeOK
  <2>3. Complete(r)'
    BY <1>2, <2>1, <2>2 DEF Complete
  <2>4. wrote'[r] = {} /\ \A k \in Roles : phase'[r][k] \in {"out", "done"}
    BY <1>1, <2>1, <2>2 DEF Control, Roles
  <2>5. CASE at[r] < Len(order[r])
    <3>1. pc' = pc /\ at' = [at EXCEPT ![r] = at[r] + 1]
      BY <1>4, <2>5 DEF Report
    <3>2. Others(r) /\ at'[r] = at[r] + 1
      BY <1>1, <2>1, <3>1, TeamDomains DEF Others
    <3>3. at'[r] \in 1..Len(order[r])
      BY <2>2, <2>5, <3>2
    <3>4. Control(r)'
      BY <1>2, <2>1, <2>4, <3>1 DEF Control, Open, Ended
    <3>5. Outputs(r)'
      BY <2>1, <2>2, <2>3, <3>1, <3>3 DEF Outputs
    <3>6. QED
      BY <1>1, <1>2, <2>1, <3>2, <3>4, <3>5, OneRun
  <2>6. CASE ~(at[r] < Len(order[r]))
    <3>1. pc' = [pc EXCEPT ![r] = "persist"] /\ at' = [at EXCEPT ![r] = 1]
      BY <1>4, <2>6 DEF Report, Go
    <3>2. Others(r) /\ at'[r] = 1 /\ pc'[r] = "persist"
      BY <1>1, <2>1, <3>1, TeamDomains DEF Others
    <3>3. at'[r] \in 1..Len(order[r]) + 1
      BY <2>2, <3>2
    <3>4. Control(r)'
      BY <1>2, <3>2, <2>4 DEF Control, Open, Ended
    <3>5. Outputs(r)'
      BY <2>1, <2>3, <2>4, <3>2, <3>3 DEF Outputs
    <3>6. QED
      BY <1>1, <1>2, <2>1, <3>2, <3>4, <3>5, OneRun
  <2>7. QED
    BY <2>5, <2>6
<1>5. QED
  BY <1>3, <1>4

\* What the steps of the last part do to the variables.
LEMMA SelectFrame ==
    ASSUME RunInv, NEW r \in Runs, SelectEntry(r)
    PROVE  /\ pc[r] = "persist" /\ at[r] \in 1..Len(order[r])
           /\ UNCHANGED <<audit, tasks, redis, local, split, phase, faults>>
           /\ \/ Fail(r, "ambiguous") /\ Cardinality(Entries(order[r][at[r]])) > 1
              \/ /\ UNCHANGED <<session, count, rows, workflows, ask, pc, seen, writer,
                                order, target, met>>
                 /\ Entries(order[r][at[r]]) = {}
                 /\ wrote' = [wrote EXCEPT ![r] = wrote[r] \cup {Row(order[r][at[r]], r, r)}]
                 /\ at' = [at EXCEPT ![r] = at[r] + 1]
              \/ /\ UNCHANGED <<session, count, rows, workflows, ask, seen, writer,
                                order, at, wrote, met>>
                 /\ pc' = [pc EXCEPT ![r] = "update"]
                 /\ \E w \in rows : /\ w.key = order[r][at[r]]
                                    /\ target' = [target EXCEPT ![r] = w.by]
<1>1. TypeOK /\ Outputs(r)
  BY DEF RunInv
<1>2. pc[r] = "persist" /\ at[r] \in 1..Len(order[r])
  <2>1. pc[r] = "persist" /\ at[r] \in 1..Len(order[r]) + 1 /\ at[r] <= Len(order[r])
    BY <1>1 DEF SelectEntry, Outputs
  <2>2. Len(order[r]) \in Nat
    BY <1>1, LenProperties DEF TypeOK
  <2>3. QED
    BY <2>1, <2>2
<1>3. UNCHANGED <<audit, tasks, redis, local, split, phase, faults>>
  BY DEF SelectEntry, effects, memory
<1>4. CASE Cardinality(Entries(order[r][at[r]])) > 1 /\ Fail(r, "ambiguous")
  BY <1>2, <1>3, <1>4
<1>5. CASE /\ Entries(order[r][at[r]]) = {}
           /\ Put(r, order[r][at[r]], r)
           /\ UNCHANGED <<database, ask, pc, seen, writer, order, target, met>>
  BY <1>2, <1>3, <1>5 DEF Put, database
<1>6. CASE /\ \E w \in Entries(order[r][at[r]]) : target' = [target EXCEPT ![r] = w.by]
           /\ Go(r, "update")
           /\ UNCHANGED <<database, ask, seen, writer, order, at, wrote, met>>
  BY <1>2, <1>3, <1>6 DEF Entries, Go, database
<1>7. QED
  BY <1>4, <1>5, <1>6 DEF SelectEntry

\* ... of an update ...
LEMMA UpdateFrame ==
    ASSUME RunInv, NEW r \in Runs, UpdateEntry(r)
    PROVE  /\ pc[r] = "update" /\ at[r] \in 1..Len(order[r]) /\ target[r] \in Runs
           /\ \A q \in Runs : ~LockedBy(q, order[r][at[r]], target[r])
           /\ wrote' = [wrote EXCEPT ![r] = wrote[r] \cup {Row(order[r][at[r]], target[r], r)}]
           /\ at' = [at EXCEPT ![r] = at[r] + 1]
           /\ target' = [target EXCEPT ![r] = None] /\ pc' = [pc EXCEPT ![r] = "persist"]
           /\ UNCHANGED <<session, count, rows, workflows, audit, tasks, redis, local, split,
                          ask, seen, writer, phase, order, faults, met>>
<1>1. Outputs(r) /\ pc[r] = "update"
  BY DEF RunInv, UpdateEntry
<1>2. at[r] \in 1..Len(order[r]) /\ target[r] \in Runs
  BY <1>1 DEF Outputs
<1>3. QED
  BY <1>1, <1>2 DEF UpdateEntry, Put, Go, database, effects, memory

\* ... and of the commit.
LEMMA StoreFrame ==
    ASSUME RunInv, NEW r \in Runs, Store(r)
    PROVE  /\ pc[r] = "persist" /\ Complete(r) /\ at[r] = Len(order[r]) + 1
           /\ rows' = {w \in rows : ~LockedBy(r, w.key, w.by)} \cup wrote[r]
           /\ workflows' = workflows \cup {Workflow(r, order[r])}
           /\ count' = seen[r] + 2 /\ session'
           /\ Others(r) /\ pc'[r] = "ok" /\ wrote'[r] = {} /\ order'[r] = <<>> /\ at'[r] = 1
           /\ writer' \in {writer, None} /\ writer' # r
           /\ UNCHANGED <<audit, tasks, redis, local, split, ask, phase, faults, met>>
<1>1. TypeOK /\ Outputs(r)
  BY DEF RunInv
<1>2. /\ pc[r] = "persist" /\ at[r] > Len(order[r]) /\ pc' = [pc EXCEPT ![r] = "ok"]
      /\ rows' = {w \in rows : ~LockedBy(r, w.key, w.by)} \cup wrote[r]
      /\ workflows' = workflows \cup {Workflow(r, order[r])}
      /\ count' = seen[r] + 2 /\ session'
      /\ wrote' = [wrote EXCEPT ![r] = {}]
      /\ seen' = [seen EXCEPT ![r] = 0] /\ order' = [order EXCEPT ![r] = <<>>]
      /\ at' = [at EXCEPT ![r] = 1] /\ target' = [target EXCEPT ![r] = None]
      /\ writer' = IF writer = r THEN None ELSE writer
      /\ UNCHANGED <<audit, tasks, redis, local, split, ask, phase, faults, met>>
  BY DEF Store, Go, Forget, effects, memory
<1>3. Complete(r) /\ at[r] \in 1..Len(order[r]) + 1
  BY <1>1, <1>2 DEF Outputs
<1>4. at[r] = Len(order[r]) + 1
  <2>1. Len(order[r]) \in Nat
    BY <1>1, LenProperties DEF TypeOK
  <2>2. QED
    BY <1>2, <1>3, <2>1
<1>5. Others(r) /\ pc'[r] = "ok" /\ wrote'[r] = {} /\ order'[r] = <<>> /\ at'[r] = 1
  BY <1>1, <1>2, TeamDomains DEF Others
<1>6. QED
  BY <1>2, <1>3, <1>4, <1>5, RunsAssumption

\* The last part of a run.
LEMMA PersistRun ==
    ASSUME RunInv, NEW r \in Runs, SelectEntry(r) \/ UpdateEntry(r) \/ Store(r)
    PROVE  RunInv'
<1>1. TypeOK /\ TypeOK' /\ Control(r) /\ Outputs(r)
  BY PersistTypes DEF RunInv
<1>2. pc[r] \in {"persist", "update"}
  BY DEF SelectEntry, UpdateEntry, Store
<1>3. /\ r \in DOMAIN ask /\ Complete(r) /\ Len(order[r]) \in Nat
      /\ \A k \in Roles : phase[r][k] \in {"out", "done"}
  BY <1>1, <1>2, LenProperties DEF Control, Outputs, TypeOK
<1>4. ASSUME ask' = ask, order' = order, phase' = phase, Others(r), writer' = writer,
             at'[r] \in 1..Len(order[r]) + 1, pc'[r] \in {"persist", "update"},
             pc'[r] = "update" => at'[r] \in 1..Len(order[r]) /\ target'[r] \in Runs
      PROVE  RunInv'
  <2>1. Complete(r)'
    BY <1>3, <1>4 DEF Complete, Plan
  <2>2. Control(r)'
    BY <1>3, <1>4 DEF Control, Open, Ended
  <2>3. Outputs(r)'
    BY <1>3, <1>4, <2>1 DEF Outputs
  <2>4. QED
    BY <1>1, <1>4, <2>2, <2>3, OneRun
<1>5. CASE SelectEntry(r)
  <2>1. pc[r] = "persist" /\ at[r] \in 1..Len(order[r]) /\ phase' = phase
    BY <1>5, SelectFrame
  <2>2. CASE Fail(r, "ambiguous")
    BY <1>1, <1>3, <2>1, <2>2, FailRun DEF Ended
  <2>3. CASE /\ UNCHANGED <<ask, pc, seen, writer, order, target>>
             /\ wrote' = [wrote EXCEPT ![r] = wrote[r] \cup {Row(order[r][at[r]], r, r)}]
             /\ at' = [at EXCEPT ![r] = at[r] + 1]
    <3>1. Others(r) /\ at'[r] = at[r] + 1
      BY <1>1, <2>1, <2>3, TeamDomains DEF Others
    <3>2. at'[r] \in 1..Len(order[r]) + 1
      BY <1>3, <2>1, <3>1
    <3>3. QED
      BY <1>4, <2>1, <2>3, <3>1, <3>2
  <2>4. CASE /\ UNCHANGED <<ask, seen, writer, order, at, wrote>>
             /\ pc' = [pc EXCEPT ![r] = "update"]
             /\ \E w \in rows : target' = [target EXCEPT ![r] = w.by]
    <3>1. PICK w \in rows : target' = [target EXCEPT ![r] = w.by]
      BY <2>4
    <3>2. w.by \in Runs
      BY <1>1 DEF TypeOK
    <3>3. Others(r) /\ pc'[r] = "update" /\ target'[r] = w.by
      BY <1>1, <2>1, <2>4, <3>1, TeamDomains DEF Others
    <3>4. at'[r] \in 1..Len(order[r]) /\ at'[r] \in 1..Len(order[r]) + 1
      BY <1>3, <2>1, <2>4
    <3>5. QED
      BY <1>4, <2>1, <2>4, <3>2, <3>3, <3>4
  <2>5. QED
    BY <1>5, <2>2, <2>3, <2>4, SelectFrame
<1>6. CASE UpdateEntry(r)
  <2>1. /\ pc[r] = "update" /\ at[r] \in 1..Len(order[r])
        /\ wrote' = [wrote EXCEPT ![r] = wrote[r] \cup {Row(order[r][at[r]], target[r], r)}]
        /\ at' = [at EXCEPT ![r] = at[r] + 1]
        /\ target' = [target EXCEPT ![r] = None] /\ pc' = [pc EXCEPT ![r] = "persist"]
        /\ UNCHANGED <<ask, seen, writer, phase, order>>
    BY <1>6, UpdateFrame
  <2>2. Others(r) /\ at'[r] = at[r] + 1 /\ pc'[r] = "persist"
    BY <1>1, <2>1, TeamDomains DEF Others
  <2>3. at'[r] \in 1..Len(order[r]) + 1
    BY <1>3, <2>1, <2>2
  <2>4. QED
    BY <1>4, <2>1, <2>2, <2>3
<1>7. CASE Store(r)
  <2>1. /\ Others(r) /\ pc'[r] = "ok" /\ wrote'[r] = {} /\ order'[r] = <<>> /\ at'[r] = 1
        /\ writer' \in {writer, None} /\ writer' # r /\ ask' = ask
    BY <1>7, StoreFrame
  <2>2. Control(r)' /\ Outputs(r)'
    BY <1>3, <2>1 DEF Control, Outputs
  <2>3. QED
    BY <1>1, <2>1, <2>2, OneRun
<1>8. QED
  BY <1>5, <1>6, <1>7

\* Deadlock, lost connection, crash, expiry.
LEMMA FaultyRun ==
    ASSUME RunInv, (\E r \in Runs : Deadlock(r) \/ Abandon(r)) \/ External
    PROVE  RunInv'
<1>1. TypeOK /\ TypeOK'
  BY FaultyTypes DEF RunInv
<1>2. ASSUME NEW r \in Runs, Deadlock(r) \/ Abandon(r) PROVE RunInv'
  <2>1. pc[r] # "idle"
    BY <1>2 DEF Deadlock, Deadlocked, WaitsFor, Abandon
  <2>2. (Fail(r, "deadlock") \/ Fail(r, "error")) /\ phase' = phase
    BY <1>2 DEF Deadlock, Abandon
  <2>3. r \in DOMAIN ask
    BY <2>1 DEF RunInv, Control
  <2>4. QED
    BY <1>1, <2>2, <2>3, FailRun DEF Ended
<1>3. CASE Crash
  <2>1. /\ ask' = ask /\ writer' = None
        /\ \A r \in Runs : /\ pc'[r] = IF pc[r] \in Ended \cup {"idle"} THEN pc[r] ELSE "error"
                           /\ wrote'[r] = {} /\ order'[r] = <<>> /\ at'[r] = 1
                           /\ \A k \in Roles : phase'[r][k] = "out"
    BY <1>3 DEF Crash
  <2>2. ASSUME NEW r \in Runs PROVE Control(r)' /\ Outputs(r)'
    <3>1. Control(r)
      BY DEF RunInv
    <3>2. pc'[r] \in Ended \cup {"idle"} /\ (pc'[r] # "idle" => r \in DOMAIN ask)
      BY <2>1, <3>1 DEF Control, Ended
    <3>3. Control(r)'
      BY <2>1, <3>2, RunsAssumption DEF Control, Ended
    <3>4. Outputs(r)'
      BY <3>2 DEF Outputs, Ended
    <3>5. QED
      BY <3>3, <3>4
  <2>3. QED
    BY <1>1, <2>2 DEF RunInv
<1>4. CASE Expire
  <2>1. UNCHANGED <<ask, pc, writer, phase, order, at, target, wrote>>
    BY <1>4 DEF Expire, cursor
  <2>2. ASSUME NEW r \in Runs PROVE Control(r)' /\ Outputs(r)'
    BY <2>1 DEF RunInv, Control, Outputs, Complete, Plan, Open
  <2>3. QED
    BY <1>1, <2>2 DEF RunInv
<1>5. ASSUME NEW k \in WorkerRoles, WorkerStores(k) PROVE RunInv'
  <2>1. UNCHANGED <<ask, pc, writer, phase, order, at, target, wrote>>
    BY <1>5 DEF WorkerStores, cursor
  <2>2. ASSUME NEW r \in Runs PROVE Control(r)' /\ Outputs(r)'
    BY <2>1 DEF RunInv, Control, Outputs, Complete, Plan, Open
  <2>3. QED
    BY <1>1, <2>2 DEF RunInv
<1>6. QED
  BY <1>2, <1>3, <1>4, <1>5 DEF External

\* A step that changes nothing.
LEMMA StillRun ==
    ASSUME RunInv, UNCHANGED vars
    PROVE  RunInv'
<1>1. UNCHANGED <<session, count, persona, rows, workflows, audit, tasks, redis, local, split,
                  ask, pc, seen, writer, phase, order, at, target, wrote, faults, met>>
  BY DEF vars, database, effects, memory, cursor
<1>2. TypeOK'
  BY <1>1 DEF RunInv, TypeOK
<1>3. ASSUME NEW r \in Runs PROVE Control(r)' /\ Outputs(r)'
  BY <1>1 DEF RunInv, Control, Outputs, Complete, Plan, Open
<1>4. QED
  BY <1>2, <1>3 DEF RunInv

\* In the beginning at most one run is over.
LEMMA FirstRun ==
    ASSUME Init
    PROVE  /\ {r \in DOMAIN ask : ask[r].done} \subseteq Runs
           /\ \/ {r \in DOMAIN ask : ask[r].done} = {} /\ count = 0
              \/ /\ \E r \in DOMAIN ask : {q \in DOMAIN ask : ask[q].done} = {r}
                 /\ count = 2
<1> DEFINE over == {r \in DOMAIN ask : ask[r].done}
<1>1. over \subseteq Runs /\ Cardinality(over) <= 1 /\ count = 2 * Cardinality(over)
  BY MixesAssumption DEF Init
<1>2. IsFiniteSet(over)
  BY <1>1, RunsAssumption, FS_Subset
<1>3. Cardinality(over) \in Nat
  BY <1>2, FS_CardinalityType
<1>4. Cardinality(over) = 0 \/ Cardinality(over) = 1
  BY <1>1, <1>3
<1>5. CASE Cardinality(over) = 0
  BY <1>1, <1>2, <1>5, FS_EmptySet
<1>6. CASE Cardinality(over) = 1
  <2>1. PICK r : over = {r}
    BY <1>2, <1>6, FS_Singleton
  <2>2. count = 2 /\ r \in DOMAIN ask
    BY <1>1, <1>6, <2>1
  <2>3. QED
    BY <1>1, <2>1, <2>2
<1>7. QED
  BY <1>4, <1>5, <1>6

\* The steps of a run that is over, for Init.
LEMMA FirstSteps ==
    ASSUME ask \in Mixes, NEW r \in DOMAIN ask
    PROVE  /\ Append(ask[r].plan, Coordinator) \in Seq(Roles)
           /\ Append(ask[r].plan, Coordinator) # <<>>
           /\ Len(Append(ask[r].plan, Coordinator)) = Len(ask[r].plan) + 1
           /\ Last(Append(ask[r].plan, Coordinator)) = Coordinator
           /\ ToSet(Append(ask[r].plan, Coordinator)) = Plan(r) \cup {Coordinator}
           /\ Plan(r) \cup {Coordinator} \subseteq Roles
<1>1. ask[r].plan \in Seq(Roles) /\ Coordinator \in Roles /\ Plan(r) \subseteq Specialists
  BY Asked DEF Roles
<1>2. QED
  BY <1>1, AppendFresh DEF Plan, Roles

\* Runs that are over, and those that have not started.
LEMMA RunInit ==
    ASSUME Init
    PROVE  RunInv
<1> DEFINE over == {r \in DOMAIN ask : ask[r].done}
           steps(r) == Append(ask[r].plan, Coordinator)
<1>1. ask \in Mixes /\ over \subseteq Runs /\ over \subseteq DOMAIN ask
  BY FirstRun DEF Init
<1>2. count \in Nat /\ session \in BOOLEAN
  BY FirstRun DEF Init
<1>3. \A r \in over : r \in Runs /\ steps(r) \in Seq(Roles) /\ ToSet(steps(r)) \subseteq Roles
  BY <1>1, FirstSteps
<1>4. /\ rows = UNION {{Row(k, r, r) : k \in ToSet(steps(r))} : r \in over}
      /\ workflows = {Workflow(r, steps(r)) : r \in over}
      /\ audit = UNION {Told(r, steps(r)) : r \in over}
      /\ pc = [r \in Runs |-> IF r \in over THEN "ok" ELSE "idle"]
  BY DEF Init
<1> HIDE DEF steps, over
<1>5. rows \subseteq [key : Roles, by : Runs, val : Runs]
  <2>1. \A r \in over : \A k \in ToSet(steps(r)) :
           Row(k, r, r) \in [key : Roles, by : Runs, val : Runs]
    BY <1>3 DEF Row
  <2>2. QED
    BY <1>4, <2>1
<1>6. workflows \subseteq [run : Runs, status : {"completed"}, steps : Seq(Roles)]
  <2>1. \A r \in over : Workflow(r, steps(r))
                            \in [run : Runs, status : {"completed"}, steps : Seq(Roles)]
    BY <1>3 DEF Workflow
  <2>2. QED
    BY <1>4, <2>1
<1>7. audit \subseteq [run : Runs, type : {"instruction", "decision", "reply"},
                       actor : Roles \cup {"user"}]
  <2>1. \A r \in over : Told(r, steps(r)) \subseteq
            [run : Runs, type : {"instruction", "decision", "reply"}, actor : Roles \cup {"user"}]
    BY <1>3 DEF Told, Event
  <2>2. QED
    BY <1>4, <2>1
<1>8. pc \in [Runs -> Places]
  BY <1>4 DEF Places, Ended
<1>9. order \in [Runs -> Seq(Roles)]
  <2>1. <<>> \in Seq(Roles)
    BY EmptySeq
  <2>2. QED
    BY <2>1 DEF Init
<1>10. TypeOK
  <2>1. /\ tasks \subseteq Runs \X Roles
        /\ redis \in [Roles -> Runs \cup {None}] /\ local \in [Roles -> Runs \cup {None, Worker}]
        /\ seen \in [Runs -> Nat] /\ writer \in Runs \cup {None}
        /\ phase \in [Runs -> [Roles -> Phases]] /\ at \in [Runs -> Nat]
        /\ target \in [Runs -> Runs \cup {None}]
        /\ wrote \in [Runs -> SUBSET [key : Roles, by : Runs, val : Runs]]
        /\ met \subseteq SUBSET Runs /\ split \subseteq Roles
    BY DEF Init, Phases
  <2>2. faults \in 0..MaxFaults
    BY FaultsAssumption DEF Init
  <2>3. QED
    BY <1>1, <1>2, <1>5, <1>6, <1>7, <1>8, <1>9, <2>1, <2>2 DEF TypeOK, Places, Phases
<1>11. ASSUME NEW r \in Runs PROVE Control(r) /\ Outputs(r)
  <2>1. /\ pc[r] \in {"ok", "idle"} /\ (pc[r] # "idle" => r \in DOMAIN ask)
        /\ writer # r /\ wrote[r] = {} /\ order[r] = <<>> /\ at[r] = 1
        /\ \A k \in Roles : phase[r][k] = "out"
    BY <1>1, <1>4, RunsAssumption DEF Init
  <2>2. QED
    BY <2>1 DEF Control, Outputs
<1>12. QED
  BY <1>10, <1>11 DEF RunInv

\* Every step preserves the invariant of the runs.
LEMMA RunNext ==
    ASSUME RunInv, [Next]_vars
    PROVE  RunInv'
<1>1. ASSUME NEW r \in Runs, Resolve(r) PROVE RunInv'
  BY <1>1, StartRun
<1>2. ASSUME NEW r \in Runs, Work(r) PROVE RunInv'
  BY <1>2, StartRun, ReportRun, PersistRun, FaultyRun DEF Work
<1>3. ASSUME NEW r \in Runs, Speak(r) PROVE RunInv'
  BY <1>3, SpeakRun DEF Speak
<1>4. ASSUME NEW r \in Runs, NEW k \in Roles, LlmFails(r, k) \/ ToolFails(r, k)
      PROVE  RunInv'
  BY <1>4, SpeakRun
<1>5. ASSUME NEW r \in Runs, Abandon(r) PROVE RunInv'
  BY <1>5, FaultyRun
<1>6. CASE External
  BY <1>6, FaultyRun
<1>7. QED
  BY <1>1, <1>2, <1>3, <1>4, <1>5, <1>6, StillRun DEF Next, External

\* Every run is where its outputs and its locals say it is.
THEOREM RunsKeepOrder == Spec => []RunInv
<1>1. Init => RunInv
  BY RunInit
<1>2. RunInv /\ [Next]_vars => RunInv'
  BY RunNext
<1>3. QED
  BY <1>1, <1>2, PTL DEF Spec

\* The type invariant.
THEOREM RunTypes == Spec => []TypeOK
<1>1. RunInv => TypeOK
  BY DEF RunInv
<1>2. QED
  BY <1>1, RunsKeepOrder, PTL

-----------------------------------------------------------------------------
(* Team memory.                                                            *)

\* Stores under way and memory are as they were.
LEMMA SameStores ==
    ASSUME MemoryInv, UNCHANGED <<redis, local, split>>,
           \A r \in Runs : \A k \in Roles : phase'[r][k] = "local" <=> phase[r][k] = "local"
    PROVE  MemoryInv'
<1>1. \A k \in Roles : Storing(k)' = Storing(k)
  BY DEF Storing
<1>2. QED
  BY <1>1 DEF MemoryInv

\* One role of one run moves on.
LEMMA OtherStores ==
    ASSUME TypeOK, NEW r \in Runs, NEW k \in Roles, NEW p, Phase(r, k, p)
    PROVE  /\ \A j \in Roles : j # k => Storing(j)' = Storing(j)
           /\ Storing(k)' = IF p = "local" THEN Storing(k) \cup {r} ELSE Storing(k) \ {r}
<1>1. /\ \A q \in Runs : \A j \in Roles : (q # r \/ j # k) => phase'[q][j] = phase[q][j]
      /\ phase'[r][k] = p
  BY TeamDomains DEF Phase
<1>2. QED
  BY <1>1 DEF Storing

\* A store writes Redis, then the process; a store that overlaps another, or
\* does not get through, marks its key.
LEMMA StoresNext ==
    ASSUME TypeOK, MemoryInv, NEW r \in Runs, NEW k \in Roles,
           \/ Answered(r, k) \/ LlmFails(r, k) \/ Delegate(r, k)
           \/ StoreRedis(r, k) \/ StoreLocal(r, k) \/ ToolFails(r, k)
    PROVE  MemoryInv'
<1>1. r # None
  BY RunsAssumption
<1>2. ASSUME NEW j \in Roles, j # k,
             redis'[j] = redis[j], local'[j] = local[j], j \notin split,
             Storing(j)' = Storing(j)
      PROVE  /\ \A p, q \in Storing(j)' : p = q
             /\ \A p \in Storing(j)' : redis'[j] \in {p, None}
             /\ Storing(j)' = {} => redis'[j] = None \/ local'[j] = None \/ redis'[j] = local'[j]
  BY <1>2 DEF MemoryInv
<1>3. CASE Answered(r, k) \/ LlmFails(r, k) \/ Delegate(r, k)
             \/ (ToolFails(r, k) /\ phase[r][k] = "tool")
  <2>1. /\ UNCHANGED <<redis, local, split>> /\ phase[r][k] # "local"
        /\ \E p \in {"done", "tool"} : Phase(r, k, p)
    BY <1>3 DEF Answered, LlmFails, Delegate, ToolFails, effects, memory
  <2>2. \A q \in Runs : \A j \in Roles : phase'[q][j] = "local" <=> phase[q][j] = "local"
    BY <2>1, TeamDomains DEF Phase
  <2>3. QED
    BY <2>1, <2>2, SameStores
<1>4. CASE StoreRedis(r, k)
  <2>1. Phase(r, k, "local") /\ local' = local
    BY <1>4 DEF StoreRedis
  <2>2. /\ \A j \in Roles : j # k => Storing(j)' = Storing(j)
        /\ Storing(k)' = Storing(k) \cup {r}
    BY <2>1, OtherStores
  <2>3. /\ \A j \in Roles : j # k => redis'[j] = redis[j]
        /\ \A j \in Roles : j # k => (j \in split' <=> j \in split)
    <3>1. redis' = redis \/ redis' = [redis EXCEPT ![k] = r]
      BY <1>4 DEF StoreRedis
    <3>2. split' = split \/ split' = split \ {k} \/ split' = split \cup {k}
      BY <1>4 DEF StoreRedis
    <3>3. QED
      BY <3>1, <3>2, TeamDomains
  <2>4. k \notin split' => Storing(k) = {} /\ redis'[k] \in {r, None}
    BY <1>4, TeamDomains DEF StoreRedis
  <2>5. SUFFICES ASSUME NEW j \in Roles, j \notin split'
                 PROVE  /\ \A p, q \in Storing(j)' : p = q
                        /\ \A p \in Storing(j)' : redis'[j] \in {p, None}
                        /\ Storing(j)' = {} =>
                              redis'[j] = None \/ local'[j] = None \/ redis'[j] = local'[j]
    BY DEF MemoryInv
  <2>6. CASE j = k
    BY <2>2, <2>4, <2>5, <2>6
  <2>7. CASE j # k
    BY <1>2, <2>1, <2>2, <2>3, <2>5, <2>7
  <2>8. QED
    BY <2>6, <2>7
<1>5. CASE StoreLocal(r, k)
  <2>1. /\ Phase(r, k, "done") /\ UNCHANGED <<redis, split>> /\ phase[r][k] = "local"
        /\ local' = [local EXCEPT ![k] = r]
    BY <1>5 DEF StoreLocal
  <2>2. /\ \A j \in Roles : j # k => Storing(j)' = Storing(j)
        /\ Storing(k)' = Storing(k) \ {r}
    BY <2>1, OtherStores
  <2>3. local'[k] = r /\ \A j \in Roles : j # k => local'[j] = local[j]
    BY <2>1, TeamDomains
  <2>4. k \notin split => Storing(k)' = {} /\ redis[k] \in {r, None}
    <3>1. r \in Storing(k)
      BY <2>1 DEF Storing
    <3>2. QED
      BY <2>2, <3>1 DEF MemoryInv
  <2>5. SUFFICES ASSUME NEW j \in Roles, j \notin split
                 PROVE  /\ \A p, q \in Storing(j)' : p = q
                        /\ \A p \in Storing(j)' : redis'[j] \in {p, None}
                        /\ Storing(j)' = {} =>
                              redis'[j] = None \/ local'[j] = None \/ redis'[j] = local'[j]
    BY <2>1 DEF MemoryInv
  <2>6. CASE j = k
    BY <2>1, <2>3, <2>4, <2>5, <2>6
  <2>7. CASE j # k
    BY <1>2, <2>1, <2>2, <2>3, <2>5, <2>7
  <2>8. QED
    BY <2>6, <2>7
<1>6. CASE ToolFails(r, k) /\ phase[r][k] = "local"
  <2>1. Phase(r, k, "done") /\ UNCHANGED <<redis, local>> /\ split' = split \cup {k}
    BY <1>6 DEF ToolFails
  <2>2. \A j \in Roles : j # k => Storing(j)' = Storing(j)
    BY <2>1, OtherStores
  <2>3. QED
    BY <1>2, <2>1, <2>2 DEF MemoryInv
<1>7. ToolFails(r, k) => phase[r][k] = "tool" \/ phase[r][k] = "local"
  BY DEF ToolFails
<1>8. QED
  BY <1>3, <1>4, <1>5, <1>6, <1>7

\* Every step preserves the invariant of the memory.
LEMMA MemoryNext ==
    ASSUME RunInv, MemoryInv, [Next]_vars
    PROVE  MemoryInv'
<1>1. TypeOK
  BY DEF RunInv
<1>2. ASSUME phase' = phase, UNCHANGED effects PROVE MemoryInv'
  BY <1>2, SameStores DEF effects, memory
<1>3. ASSUME NEW r \in Runs, Resolve(r) \/ Work(r) \/ Abandon(r) PROVE MemoryInv'
  <2>1. CASE Instruct(r)
    <3>1. /\ pc[r] = "instruct" /\ UNCHANGED <<redis, local, split>>
          /\ phase' = [phase EXCEPT ![r] =
                          [k \in Roles |-> IF k \in Plan(r) THEN "llm" ELSE "out"]]
      BY <2>1 DEF Instruct, memory
    <3>2. \A k \in Roles : phase[r][k] = "out" /\ phase'[r][k] # "local"
      BY <1>1, <3>1, TeamDomains DEF RunInv, Control
    <3>3. \A q \in Runs : \A k \in Roles : phase'[q][k] = "local" <=> phase[q][k] = "local"
      BY <1>1, <3>1, <3>2, TeamDomains
    <3>4. QED
      BY <3>1, <3>3, SameStores
  <2>2. CASE Gathered(r)
    <3>1. /\ pc[r] = "team" /\ UNCHANGED <<redis, local, split>>
          /\ phase' = [phase EXCEPT ![r][Coordinator] = "llm"]
      BY <2>2 DEF Gathered, Phase, effects, memory
    <3>2. phase[r][Coordinator] = "out"
      <4>1. r \in DOMAIN ask /\ \A k \in Roles : phase[r][k] = "out" <=> k \notin Plan(r)
        BY <3>1 DEF RunInv, Control, Outputs
      <4>2. QED
        BY <1>1, <4>1, Asked DEF TypeOK, Roles
    <3>3. \A q \in Runs : \A k \in Roles : phase'[q][k] = "local" <=> phase[q][k] = "local"
      BY <1>1, <3>1, <3>2, TeamDomains
    <3>4. QED
      BY <3>1, <3>3, SameStores
  <2>3. CASE Report(r)
    <3>1. phase' = phase /\ UNCHANGED <<redis, local, split>>
      BY <2>3 DEF Report, memory
    <3>2. QED
      BY <3>1, SameStores
  <2>4. CASE \/ Resolve(r) \/ CreateSession(r) \/ SetPersona(r) \/ SelectEntry(r)
             \/ UpdateEntry(r) \/ Store(r) \/ Deadlock(r) \/ Abandon(r)
    BY <1>2, <2>4 DEF Resolve, CreateSession, SetPersona, SelectEntry, UpdateEntry, Store,
                      Deadlock, Abandon
  <2>5. QED
    BY <1>3, <2>1, <2>2, <2>3, <2>4 DEF Work
<1>4. ASSUME NEW r \in Runs, NEW k \in Roles,
             \/ Answered(r, k) \/ LlmFails(r, k) \/ Delegate(r, k)
             \/ StoreRedis(r, k) \/ StoreLocal(r, k) \/ ToolFails(r, k)
      PROVE  MemoryInv'
  BY <1>1, <1>4, StoresNext
<1>5. CASE Crash
  <2>1. /\ \A k \in Roles : local'[k] = None
        /\ \A q \in Runs : \A k \in Roles : phase'[q][k] = "out"
    BY <1>5 DEF Crash
  <2>2. \A k \in Roles : Storing(k)' = {}
    BY <2>1 DEF Storing
  <2>3. QED
    BY <2>1, <2>2 DEF MemoryInv
<1>6. CASE Expire
  <2>1. (\A k \in Roles : redis'[k] = None) /\ phase' = phase /\ split' = split
    BY <1>6 DEF Expire
  <2>2. \A k \in Roles : Storing(k)' = Storing(k)
    BY <2>1 DEF Storing
  <2>3. QED
    BY <2>1, <2>2 DEF MemoryInv
<1>7. ASSUME NEW k \in WorkerRoles, WorkerStores(k) PROVE MemoryInv'
  <2>1. k \in Roles /\ redis' = redis /\ phase' = phase
    BY <1>7, WorkerAssumption DEF WorkerStores
  <2>2. \A j \in Roles : Storing(j)' = Storing(j)
    BY <2>1 DEF Storing
  <2>3. \A j \in Roles : j # k => local'[j] = local[j]
    BY <1>1, <1>7, TeamDomains DEF WorkerStores
  <2>4. split \subseteq split' /\ (k \notin split' => Storing(k) # {} \/ redis[k] = None)
    BY <1>7, <2>1 DEF WorkerStores
  <2>5. QED
    BY <2>1, <2>2, <2>3, <2>4 DEF MemoryInv
<1>8. CASE UNCHANGED vars
  BY <1>2, <1>8 DEF vars
<1>9. QED
  BY <1>3, <1>4, <1>5, <1>6, <1>7, <1>8 DEF Next, Speak

\* What is not split is recalled: a run that Redis and the process agree on has
\* stored a value in the one and its text in the other.
LEMMA AgreedMemory ==
    ASSUME TypeOK, MemoryInv
    PROVE  MemoriesAgree
<1> SUFFICES ASSUME NEW k \in Roles \ split, Storing(k) = {}, local[k] # None
             PROVE  Str(Recall(k)) = Str(InProcess(k))
  BY DEF MemoriesAgree
<1>1. redis[k] = None \/ redis[k] = local[k]
  BY DEF MemoryInv
<1>2. CASE redis[k] = None
  BY <1>2 DEF Recall
<1>3. CASE redis[k] # None
  <2>1. redis[k] \in Runs /\ local[k] # Worker
    BY <1>1, <1>3, WorkerAssumption DEF TypeOK
  <2>2. Recall(k) = Value(local[k]) /\ InProcess(k) = Str(Value(local[k]))
    BY <1>1, <1>3, <2>1 DEF Recall, InRedis, InProcess
  <2>3. QED
    BY <2>2 DEF Str, Value
<1>4. QED
  BY <1>2, <1>3

\* What is recalled is what was stored last (team memory tools).
THEOREM RecallIsLast == Spec => []MemoriesAgree
<1>1. Init => MemoryInv
  BY DEF Init, MemoryInv, Storing
<1>2. RunInv /\ MemoryInv /\ [Next]_vars => MemoryInv'
  BY MemoryNext
<1>3. RunInv /\ MemoryInv => MemoriesAgree
  BY AgreedMemory DEF RunInv
<1>4. QED
  BY <1>1, <1>2, <1>3, RunsKeepOrder, PTL DEF Spec

-----------------------------------------------------------------------------
(* The audit log.                                                          *)

\* The log only grows: what was in it of the runs that do not move still is.
LEMMA OneAudited ==
    ASSUME AuditInv, NEW r \in Runs, Others(r), audit \subseteq audit', Effective', Audited(r)'
    PROVE  AuditInv'
<1>1. ASSUME NEW q \in Runs, q # r PROVE Audited(q)'
  <2>1. pc'[q] = pc[q] /\ phase'[q] = phase[q] /\ order'[q] = order[q] /\ at'[q] = at[q]
    BY <1>1 DEF Others
  <2>2. Audited(q)
    BY DEF AuditInv
  <2>3. QED
    BY <2>1, <2>2 DEF Audited
<1>2. QED
  BY <1>1 DEF AuditInv

\* Tool effects keep their instruction.
LEMMA EffectsKept ==
    ASSUME AuditInv, audit \subseteq audit', UNCHANGED <<tasks, redis, local>>
    PROVE  Effective'
  BY DEF AuditInv, Effective

\* A run that is over, or has not started.
LEMMA AuditedAway ==
    ASSUME AuditInv, NEW r \in Runs, audit \subseteq audit',
           pc'[r] \notin {"team", "coordinate", "persist", "update"},
           (\E k \in Roles : phase'[r][k] # "out") => \E k \in Roles : phase[r][k] # "out"
    PROVE  Audited(r)'
<1>1. Audited(r)
  BY DEF AuditInv
<1>2. QED
  BY <1>1 DEF Audited

\* A failed run leaves the log as it is.
LEMMA FailAudited ==
    ASSUME RunInv, AuditInv, NEW r \in Runs, NEW answer \in Ended, Fail(r, answer),
           UNCHANGED effects,
           \A q \in Runs : q # r => phase'[q] = phase[q],
           (\E k \in Roles : phase'[r][k] # "out") => \E k \in Roles : phase[r][k] # "out"
    PROVE  AuditInv'
<1>1. Others(r) /\ pc'[r] = answer
  BY FailFrame DEF RunInv
<1>2. UNCHANGED <<audit, tasks, redis, local>>
  BY DEF effects, memory
<1>3. Audited(r)' /\ Effective'
  BY <1>1, <1>2, AuditedAway, EffectsKept DEF Ended
<1>4. QED
  BY <1>1, <1>2, <1>3, OneAudited

\* The instruction is in the log before any role speaks.
LEMMA StartAudited ==
    ASSUME RunInv, AuditInv, NEW r \in Runs,
           Resolve(r) \/ CreateSession(r) \/ SetPersona(r) \/ Instruct(r)
    PROVE  AuditInv'
<1>1. TypeOK
  BY DEF RunInv
<1>2. CASE Resolve(r)
  <2>1. PICK p \in {"instruct", "persona", "create"} : pc' = [pc EXCEPT ![r] = p]
    BY <1>2 DEF Resolve, Go
  <2>2. seen' = seen \/ seen' = [seen EXCEPT ![r] = count]
    BY <1>2 DEF Resolve, Load
  <2>3. UNCHANGED <<audit, tasks, redis, local, phase, order, at, target, wrote>>
    BY <1>2 DEF Resolve, cursor, effects, memory
  <2>4. Others(r) /\ pc'[r] = p
    BY <1>1, <2>1, <2>2, <2>3, TeamDomains DEF Others
  <2>5. Audited(r)' /\ Effective'
    BY <2>3, <2>4, AuditedAway, EffectsKept
  <2>6. QED
    BY <2>3, <2>4, <2>5, OneAudited
<1>3. CASE CreateSession(r) \/ SetPersona(r)
  <2>1. UNCHANGED effects /\ phase' = phase
    BY <1>3 DEF CreateSession, SetPersona
  <2>2. CASE Fail(r, "conflict")
    BY <2>1, <2>2, FailAudited DEF Ended
  <2>3. CASE ~Fail(r, "conflict")
    <3>1. pc' = [pc EXCEPT ![r] = "instruct"]
      BY <1>3, <2>3 DEF CreateSession, SetPersona, Go
    <3>2. seen' = seen \/ seen' = [seen EXCEPT ![r] = count]
      BY <1>3, <2>3 DEF CreateSession, SetPersona, Load
    <3>3. UNCHANGED <<audit, tasks, redis, local, phase, order, at, target, wrote>>
      BY <1>3, <2>1, <2>3 DEF CreateSession, SetPersona, cursor, effects, memory
    <3>4. Others(r) /\ pc'[r] = "instruct"
      BY <1>1, <3>1, <3>2, <3>3, TeamDomains DEF Others
    <3>5. Audited(r)' /\ Effective'
      BY <3>3, <3>4, AuditedAway, EffectsKept
    <3>6. QED
      BY <3>3, <3>4, <3>5, OneAudited
  <2>4. QED
    BY <2>2, <2>3
<1>4. CASE Instruct(r)
  <2>1. /\ pc' = [pc EXCEPT ![r] = "team"]
        /\ phase' = [phase EXCEPT ![r] =
                        [k \in Roles |-> IF k \in Plan(r) THEN "llm" ELSE "out"]]
        /\ audit' = audit \cup {Event(r, "instruction", "user")}
        /\ UNCHANGED <<tasks, redis, local, seen, order, at, target, wrote>>
    BY <1>4 DEF Instruct, Go, cursor, memory
  <2>2. Others(r) /\ pc'[r] = "team"
    BY <1>1, <2>1, TeamDomains DEF Others
  <2>3. Audited(r)'
    BY <2>1, <2>2 DEF Audited
  <2>4. Effective'
    BY <2>1, EffectsKept
  <2>5. QED
    BY <2>1, <2>2, <2>3, <2>4, OneAudited
<1>5. QED
  BY <1>2, <1>3, <1>4

\* Only roles of an audited instruction speak, also after their run is over.
LEMMA SpeakAudited ==
    ASSUME RunInv, AuditInv, NEW r \in Runs, NEW k \in Roles,
           \/ Answered(r, k) \/ LlmFails(r, k) \/ Delegate(r, k)
           \/ StoreRedis(r, k) \/ StoreLocal(r, k) \/ ToolFails(r, k)
    PROVE  AuditInv'
<1>1. TypeOK /\ Outputs(r) /\ Audited(r) /\ Effective
  BY DEF RunInv, AuditInv
<1>2. phase[r][k] # "out" /\ audit' = audit
  BY DEF Answered, LlmFails, Delegate, StoreRedis, StoreLocal, ToolFails, effects
<1>3. Event(r, "instruction", "user") \in audit
  BY <1>1, <1>2 DEF Audited
<1>4. PICK p : Phase(r, k, p)
  BY DEF Answered, LlmFails, Delegate, StoreRedis, StoreLocal, ToolFails
<1>5. \A q \in Runs : q # r => phase'[q] = phase[q]
  BY <1>1, <1>4, TeamDomains DEF Phase
<1>6. Effective'
  <2>1. \A t \in tasks' : t \in tasks \/ t[1] = r
    BY DEF Answered, LlmFails, Delegate, StoreRedis, StoreLocal, ToolFails, effects
  <2>2. redis' = redis \/ redis' = [redis EXCEPT ![k] = r]
    BY DEF Answered, LlmFails, Delegate, StoreRedis, StoreLocal, ToolFails, effects, memory
  <2>3. local' = local \/ local' = [local EXCEPT ![k] = r]
    BY DEF Answered, LlmFails, Delegate, StoreRedis, StoreLocal, ToolFails, effects, memory
  <2>4. \A j \in Roles : /\ redis'[j] = redis[j] \/ redis'[j] = r
                         /\ local'[j] = local[j] \/ local'[j] = r
    BY <1>1, <2>2, <2>3, TeamDomains
  <2>5. QED
    BY <1>1, <1>2, <1>3, <2>1, <2>4 DEF Effective
<1>7. CASE Answered(r, k)
  <2>1. UNCHANGED <<pc, seen, at, target, wrote>> /\ phase[r][k] = "llm"
    BY <1>7 DEF Answered
  <2>2. \A q \in Runs : q # r => order'[q] = order[q]
    BY <1>1, <1>7, TeamDomains DEF Answered
  <2>3. Others(r)
    BY <1>1, <1>4, <2>1, <2>2, PhaseFrame
  <2>4. pc[r] \notin {"persist", "update"} /\ (pc[r] = "coordinate" => at[r] = 1)
    <3>1. pc[r] \notin {"persist", "update"}
      BY <1>1, <2>1 DEF Outputs
    <3>2. ASSUME pc[r] = "coordinate" PROVE at[r] = 1
      BY <1>1, <2>1, <3>2 DEF Outputs, Roles
    <3>3. QED
      BY <3>1, <3>2
  <2>5. \A i \in 1..Len(order'[r]) : ~(i < 1)
    OBVIOUS
  <2>6. Audited(r)'
    BY <1>2, <1>3, <2>1, <2>4, <2>5 DEF Audited
  <2>7. QED
    BY <1>2, <1>6, <2>3, <2>6, OneAudited
<1>8. CASE LlmFails(r, k) /\ Open(r)
  <2>1. Fail(r, "error") /\ UNCHANGED effects
    BY <1>8 DEF LlmFails
  <2>2. QED
    BY <1>2, <1>5, <2>1, FailAudited DEF Ended
<1>9. CASE \/ LlmFails(r, k) /\ ~Open(r)
           \/ Delegate(r, k) \/ StoreRedis(r, k) \/ StoreLocal(r, k) \/ ToolFails(r, k)
  <2>1. UNCHANGED <<pc, seen, order, at, target, wrote>>
    BY <1>9 DEF LlmFails, Delegate, StoreRedis, StoreLocal, ToolFails, cursor
  <2>2. Others(r)
    BY <1>1, <1>4, <2>1, PhaseFrame
  <2>3. Audited(r)'
    BY <1>1, <1>2, <1>3, <2>1 DEF Audited
  <2>4. QED
    BY <1>2, <1>6, <2>2, <2>3, OneAudited
<1>10. QED
  BY <1>7, <1>8, <1>9

\* At the end of the reports the whole run is in the log.
LEMMA ReportAudited ==
    ASSUME RunInv, AuditInv, NEW r \in Runs, Gathered(r) \/ Report(r)
    PROVE  AuditInv'
<1>1. TypeOK /\ Control(r) /\ Outputs(r) /\ Audited(r)
  BY DEF RunInv, AuditInv
<1>2. Event(r, "instruction", "user") \in audit
  BY <1>1 DEF Gathered, Report, Audited
<1>3. CASE Gathered(r)
  <2>1. /\ pc[r] = "team" /\ pc' = [pc EXCEPT ![r] = "coordinate"]
        /\ phase' = [phase EXCEPT ![r][Coordinator] = "llm"]
        /\ UNCHANGED <<audit, tasks, redis, local, seen, at, target, wrote>>
    BY <1>3 DEF Gathered, Go, Phase, effects, memory
  <2>2. \A q \in Runs : q # r => order'[q] = order[q]
    BY <1>1, <1>3, TeamDomains DEF Gathered
  <2>3. Others(r) /\ pc'[r] = "coordinate"
    BY <1>1, <2>1, <2>2, TeamDomains DEF Others
  <2>4. at'[r] = 1
    BY <1>1, <2>1 DEF Control
  <2>5. \A i \in 1..Len(order'[r]) : ~(i < 1)
    OBVIOUS
  <2>6. Audited(r)'
    BY <1>2, <2>1, <2>3, <2>4, <2>5 DEF Audited
  <2>7. QED
    BY <2>1, <2>3, <2>6, EffectsKept, OneAudited
<1>4. CASE Report(r)
  <2> DEFINE event(k) == Event(r, IF k = Coordinator THEN "reply" ELSE "decision", k)
  <2>1. /\ pc[r] = "coordinate" /\ phase[r][Coordinator] = "done"
        /\ audit' = audit \cup {event(order[r][at[r]])}
        /\ UNCHANGED <<tasks, redis, local, seen, phase, order, target, wrote>>
    BY <1>4 DEF Report, memory
  <2>2. \A i \in 1..Len(order[r]) : i < at[r] => event(order[r][i]) \in audit
    BY <1>1, <2>1 DEF Audited
  <2>3. /\ at[r] \in 1..Len(order[r]) /\ Len(order[r]) \in Nat
        /\ order[r] \in Seq(Roles) /\ DOMAIN order[r] = 1..Len(order[r])
    BY <1>1, <2>1, LenProperties DEF Outputs, TypeOK
  <2>4. audit \subseteq audit' /\ Effective'
    BY <2>1, EffectsKept
  <2> HIDE DEF event
  <2>5. CASE at[r] < Len(order[r])
    <3>1. pc' = pc /\ at' = [at EXCEPT ![r] = at[r] + 1]
      BY <1>4, <2>5 DEF Report
    <3>2. Others(r) /\ at'[r] = at[r] + 1
      BY <1>1, <2>1, <3>1, TeamDomains DEF Others
    <3>3. \A i \in 1..Len(order[r]) : i < at'[r] => i < at[r] \/ i = at[r]
      BY <2>3, <3>2
    <3>4. \A i \in 1..Len(order[r]) : i < at'[r] => event(order[r][i]) \in audit'
      BY <2>1, <2>2, <3>3
    <3>5. Audited(r)'
      BY <1>2, <2>1, <3>1, <3>4 DEF Audited, event
    <3>6. QED
      BY <2>4, <3>2, <3>5, OneAudited
  <2>6. CASE ~(at[r] < Len(order[r]))
    <3>1. pc' = [pc EXCEPT ![r] = "persist"] /\ at' = [at EXCEPT ![r] = 1]
      BY <1>4, <2>6 DEF Report, Go
    <3>2. Others(r) /\ pc'[r] = "persist"
      BY <1>1, <2>1, <3>1, TeamDomains DEF Others
    <3>3. \A i \in 1..Len(order[r]) : i < at[r] \/ i = at[r]
      BY <2>3, <2>6
    <3>4. \A k \in ToSet(order[r]) : event(k) \in audit'
      BY <2>1, <2>2, <2>3, <3>3 DEF ToSet
    <3>5. Told(r, order[r]) \subseteq audit'
      BY <1>2, <2>4, <3>4 DEF Told, event
    <3>6. Audited(r)'
      BY <1>2, <2>1, <3>2, <3>5 DEF Audited
    <3>7. QED
      BY <2>4, <3>2, <3>6, OneAudited
  <2>7. QED
    BY <2>5, <2>6
<1>5. QED
  BY <1>3, <1>4

\* Writing the run changes nothing of that.
LEMMA PersistAudited ==
    ASSUME RunInv, AuditInv, NEW r \in Runs, SelectEntry(r) \/ UpdateEntry(r) \/ Store(r)
    PROVE  AuditInv'
<1>1. TypeOK /\ Audited(r)
  BY DEF RunInv, AuditInv
<1>2. UNCHANGED <<audit, tasks, redis, local, split, phase>>
  BY SelectFrame, UpdateFrame, StoreFrame
<1>3. pc[r] \in {"persist", "update"}
  BY DEF SelectEntry, UpdateEntry, Store
<1>4. ASSUME Others(r), order' = order, pc'[r] \in {"persist", "update"} PROVE AuditInv'
  <2>1. Audited(r)'
    BY <1>1, <1>2, <1>3, <1>4 DEF Audited
  <2>2. QED
    BY <1>2, <1>4, <2>1, EffectsKept, OneAudited
<1>5. CASE SelectEntry(r)
  <2>1. CASE Fail(r, "ambiguous")
    <3>1. UNCHANGED effects
      BY <1>2 DEF effects, memory
    <3>2. QED
      BY <1>2, <2>1, <3>1, FailAudited DEF Ended
  <2>2. CASE ~Fail(r, "ambiguous")
    <3>1. /\ pc' = pc \/ pc' = [pc EXCEPT ![r] = "update"]
          /\ at' = at \/ at' = [at EXCEPT ![r] = at[r] + 1]
          /\ target' = target \/ \E b : target' = [target EXCEPT ![r] = b]
          /\ wrote' = wrote \/ \E x : wrote' = [wrote EXCEPT ![r] = x]
          /\ order' = order /\ seen' = seen
      BY <1>5, <2>2, SelectFrame
    <3>2. Others(r) /\ pc'[r] \in {"persist", "update"}
      BY <1>1, <1>2, <1>3, <3>1, TeamDomains DEF Others
    <3>3. QED
      BY <1>4, <3>1, <3>2
  <2>3. QED
    BY <2>1, <2>2
<1>6. CASE UpdateEntry(r)
  <2>1. /\ pc' = [pc EXCEPT ![r] = "persist"] /\ at' = [at EXCEPT ![r] = at[r] + 1]
        /\ target' = [target EXCEPT ![r] = None]
        /\ wrote' = [wrote EXCEPT ![r] = wrote[r] \cup {Row(order[r][at[r]], target[r], r)}]
        /\ order' = order /\ seen' = seen
    BY <1>6, UpdateFrame
  <2>2. Others(r) /\ pc'[r] = "persist"
    BY <1>1, <1>2, <2>1, TeamDomains DEF Others
  <2>3. QED
    BY <1>4, <2>1, <2>2
<1>7. CASE Store(r)
  <2>1. Others(r) /\ pc'[r] = "ok"
    BY <1>7, StoreFrame
  <2>2. Audited(r)' /\ Effective'
    BY <1>2, <2>1, AuditedAway, EffectsKept
  <2>3. QED
    BY <1>2, <2>1, <2>2, OneAudited
<1>8. QED
  BY <1>5, <1>6, <1>7

\* Every step preserves the invariant of the log.
LEMMA AuditNext ==
    ASSUME RunInv, AuditInv, [Next]_vars
    PROVE  AuditInv'
<1>1. ASSUME NEW r \in Runs, Deadlock(r) \/ Abandon(r) PROVE AuditInv'
  <2>1. (Fail(r, "deadlock") \/ Fail(r, "error")) /\ phase' = phase /\ UNCHANGED effects
    BY <1>1 DEF Deadlock, Abandon
  <2>2. QED
    BY <2>1, FailAudited DEF Ended
<1>2. ASSUME NEW r \in Runs, Resolve(r) \/ Work(r) \/ Abandon(r) PROVE AuditInv'
  BY <1>1, <1>2, StartAudited, ReportAudited, PersistAudited DEF Work
<1>3. ASSUME NEW r \in Runs, NEW k \in Roles,
             \/ Answered(r, k) \/ LlmFails(r, k) \/ Delegate(r, k)
             \/ StoreRedis(r, k) \/ StoreLocal(r, k) \/ ToolFails(r, k)
      PROVE  AuditInv'
  BY <1>3, SpeakAudited
<1>4. CASE Crash
  <2>1. /\ UNCHANGED <<audit, tasks, redis>>
        /\ \A k \in Roles : local'[k] = None
        /\ \A r \in Runs : /\ pc'[r] \in Ended \cup {"idle"}
                           /\ \A k \in Roles : phase'[r][k] = "out"
    BY <1>4 DEF Crash, Ended
  <2>2. \A r \in Runs : Audited(r)'
    BY <2>1 DEF Audited, Ended
  <2>3. Effective'
    BY <2>1 DEF AuditInv, Effective
  <2>4. QED
    BY <2>2, <2>3 DEF AuditInv
<1>5. CASE Expire
  <2>1. /\ UNCHANGED <<audit, tasks, local, pc, phase, order, at>>
        /\ \A k \in Roles : redis'[k] = None
    BY <1>5 DEF Expire, cursor
  <2>2. \A r \in Runs : Audited(r)'
    BY <2>1 DEF AuditInv, Audited
  <2>3. Effective'
    BY <2>1 DEF AuditInv, Effective
  <2>4. QED
    BY <2>2, <2>3 DEF AuditInv
<1>6. ASSUME NEW k \in WorkerRoles, WorkerStores(k) PROVE AuditInv'
  <2>1. UNCHANGED <<audit, tasks, redis, pc, phase, order, at>>
    BY <1>6 DEF WorkerStores, cursor
  <2>2. \A j \in Roles : local'[j] \in {local[j], Worker}
    BY <1>6, TeamDomains DEF WorkerStores, RunInv
  <2>3. \A r \in Runs : Audited(r)'
    BY <2>1 DEF AuditInv, Audited
  <2>4. Effective'
    BY <2>1, <2>2 DEF AuditInv, Effective
  <2>5. QED
    BY <2>3, <2>4 DEF AuditInv
<1>7. CASE UNCHANGED vars
  <2>1. UNCHANGED <<audit, tasks, redis, local, pc, phase, order, at>>
    BY <1>7 DEF vars, effects, memory, cursor
  <2>2. QED
    BY <2>1 DEF AuditInv, Audited, Effective
<1>8. QED
  BY <1>2, <1>3, <1>4, <1>5, <1>6, <1>7 DEF Next, Speak

\* In the beginning there are no tool effects.
LEMMA AuditInit ==
    ASSUME Init
    PROVE  AuditInv
<1>1. tasks = {} /\ \A k \in Roles : redis[k] = None /\ local[k] = None
  BY DEF Init
<1>2. \A r \in Runs : pc[r] \in {"ok", "idle"} /\ \A k \in Roles : phase[r][k] = "out"
  BY DEF Init
<1>3. QED
  BY <1>1, <1>2 DEF AuditInv, Effective, Audited

-----------------------------------------------------------------------------
(* What is stored.                                                         *)

\* A run that has written nothing.
LEMMA WrittenNothing ==
    ASSUME NEW r \in Runs, wrote'[r] = {}, pc'[r] # "update", pc'[r] = "persist" => at'[r] = 1
    PROVE  Written(r)'
<1>1. \A i \in 1..Len(order'[r]) : ~(i < 1)
  OBVIOUS
<1>2. QED
  BY <1>1 DEF Written

\* A step of a run that does not touch the database.
LEMMA AsideStore ==
    ASSUME StoreInv, NEW r \in Runs, Others(r), audit \subseteq audit',
           UNCHANGED <<session, count, rows, workflows, ask, met>>,
           TypeOK,
           pc'[r] = "ok" <=> pc[r] = "ok",
           Open(r)' => Open(r) /\ seen'[r] = seen[r],
           Written(r)',
           pc'[r] = "deadlock" => \E q \in Runs \ {r} : {r, q} \in met,
           pc'[r] = "ambiguous" =>
               \E v, w \in rows : /\ v.key \in Plan(r) \cup {Coordinator}
                                  /\ v.key = w.key /\ v.by # w.by
    PROVE  StoreInv'
<1>1. \A q \in Runs : q # r =>
         /\ pc'[q] = pc[q] /\ seen'[q] = seen[q]
         /\ order'[q] = order[q] /\ at'[q] = at[q] /\ target'[q] = target[q]
         /\ wrote'[q] = wrote[q]
  BY DEF Others
<1>2. \A q \in Runs : pc'[q] = "ok" <=> pc[q] = "ok"
  BY <1>1
<1>3. \A v \in rows : v.val \in Runs /\ v.by \in Runs
  BY DEF TypeOK
<1>4. \A w \in workflows : w.run \in Runs
  BY DEF TypeOK
<1>5. Kept'
  BY <1>2, <1>3 DEF StoreInv, Kept
<1>6. \A q : Plan(q)' = Plan(q)
  BY DEF Plan
<1>7. Done'
  <2>1. ASSUME NEW w \in workflows
        PROVE  /\ pc'[w.run] = "ok"
               /\ Len(w.steps) = Len(ask'[w.run].plan) + 1
               /\ ToSet(w.steps) = Plan(w.run)' \cup {Coordinator}
               /\ Last(w.steps) = Coordinator
               /\ Told(w.run, w.steps) \subseteq audit'
               /\ \A k \in ToSet(w.steps) : \E v \in rows' : v.key = k
    BY <1>2, <1>4, <1>6 DEF StoreInv, Done
  <2>2. QED
    BY <1>2, <2>1 DEF StoreInv, Done
<1>8. Counts'
  BY DEF StoreInv, Counts
<1>9. ASSUME NEW q \in Runs PROVE Written(q)'
  <2>1. CASE q # r
    <3>1. Written(q)
      BY DEF StoreInv
    <3>2. QED
      BY <1>1, <2>1, <3>1 DEF Written
  <2>2. QED
    BY <2>1
<1>10. ASSUME NEW q \in Runs PROVE Meets(q)'
  <2>1. \A p \in Runs : Open(p)' => Open(p) /\ seen'[p] = seen[p]
    BY <1>1 DEF Open
  <2>2. Meets(q)
    BY DEF StoreInv
  <2>3. Open(q)' => \A p \in Runs : p # q /\ Open(p)' => {q, p} \in met'
    BY <2>1, <2>2 DEF Meets
  <2>4. Open(q)' => seen'[q] = count' \/ \E w \in workflows' : {w.run, q} \in met'
    BY <2>1, <2>2 DEF Meets
  <2>5. pc'[q] = "deadlock" => \E p \in Runs \ {q} : {q, p} \in met'
    BY <1>1, <2>2 DEF Meets
  <2>6. pc'[q] = "ambiguous" =>
          \E v, w \in rows' : /\ v.key \in Plan(q)' \cup {Coordinator}
                              /\ v.key = w.key /\ v.by # w.by
    BY <1>1, <1>6, <2>2 DEF Meets
  <2>7. QED
    BY <2>3, <2>4, <2>5, <2>6 DEF Meets
<1>11. QED
  BY <1>5, <1>7, <1>8, <1>9, <1>10 DEF StoreInv

\* A failed run leaves nothing in the database.
LEMMA FailStore ==
    ASSUME RunInv, StoreInv, NEW r \in Runs, NEW answer \in Ended \ {"ok"}, Fail(r, answer),
           pc[r] # "ok", UNCHANGED audit,
           \A q \in Runs : q # r => phase'[q] = phase[q],
           answer = "deadlock" => \E q \in Runs \ {r} : {r, q} \in met,
           answer = "ambiguous" =>
               \E v, w \in rows : /\ v.key \in Plan(r) \cup {Coordinator}
                                  /\ v.key = w.key /\ v.by # w.by
    PROVE  StoreInv'
<1>1. TypeOK
  BY DEF RunInv
<1>2. UNCHANGED <<session, count, rows, workflows, ask, met>>
  BY DEF Fail, database
<1>3. Others(r) /\ pc'[r] = answer /\ wrote'[r] = {}
  BY <1>1, FailFrame
<1>4. pc'[r] \notin {"persist", "update"} /\ ~Open(r)'
  BY <1>3 DEF Open, Ended
<1>5. Written(r)'
  BY <1>3, <1>4, WrittenNothing
<1>6. QED
  BY <1>1, <1>2, <1>3, <1>4, <1>5, AsideStore

\* A run opens the session: it meets all that have it open.
LEMMA LoadStore ==
    ASSUME RunInv, StoreInv, NEW r \in Runs, ~Open(r), pc[r] # "ok", Load(r),
           NEW p \in {"instruct", "persona"}, pc' = [pc EXCEPT ![r] = p],
           UNCHANGED <<session, count, rows, workflows, ask, audit, phase, order, at,
                       target, wrote>>
    PROVE  StoreInv'
<1>1. TypeOK
  BY DEF RunInv
<1>2. /\ seen' = [seen EXCEPT ![r] = count]
      /\ met \subseteq met' /\ \A q \in Runs : Open(q) => {r, q} \in met'
  BY DEF Load
<1>3. /\ pc'[r] = p /\ seen'[r] = count
      /\ \A q \in Runs : q # r => pc'[q] = pc[q] /\ seen'[q] = seen[q]
  BY <1>1, <1>2, TeamDomains
<1>4. \A q \in Runs : pc'[q] = "ok" <=> pc[q] = "ok"
  BY <1>3
<1>5. \A v \in rows : v.val \in Runs /\ v.by \in Runs
  BY <1>1 DEF TypeOK
<1>6. \A w \in workflows : w.run \in Runs
  BY <1>1 DEF TypeOK
<1>7. Kept'
  BY <1>2, <1>4, <1>5 DEF StoreInv, Kept
<1>8. \A q : Plan(q)' = Plan(q)
  BY DEF Plan
<1>9. Done'
  <2>1. ASSUME NEW w \in workflows
        PROVE  /\ pc'[w.run] = "ok"
               /\ Len(w.steps) = Len(ask'[w.run].plan) + 1
               /\ ToSet(w.steps) = Plan(w.run)' \cup {Coordinator}
               /\ Last(w.steps) = Coordinator
               /\ Told(w.run, w.steps) \subseteq audit'
               /\ \A k \in ToSet(w.steps) : \E v \in rows' : v.key = k
    BY <1>4, <1>6, <1>8 DEF StoreInv, Done
  <2>2. QED
    BY <1>4, <2>1 DEF StoreInv, Done
<1>10. Counts'
  BY <1>2 DEF StoreInv, Counts
<1>11. ASSUME NEW q \in Runs PROVE Written(q)'
  <2>1. Written(q)
    BY DEF StoreInv
  <2>2. CASE q = r
    <3>1. wrote[r] = {}
      BY DEF RunInv, Control, Open, Ended
    <3>2. QED
      BY <1>3, <2>2, <3>1, WrittenNothing
  <2>3. CASE q # r
    <3>1. pc'[q] = pc[q]
      BY <1>3, <2>3
    <3>2. QED
      BY <1>2, <2>1, <3>1 DEF Written
  <2>4. QED
    BY <2>2, <2>3
<1>12. ASSUME NEW q \in Runs PROVE Meets(q)'
  <2>1. \A x \in Runs : x # r => (Open(x)' <=> Open(x))
    BY <1>3 DEF Open
  <2>2. Meets(q)
    BY DEF StoreInv
  <2>3. ASSUME Open(q)', NEW x \in Runs, x # q, Open(x)' PROVE {q, x} \in met'
    <3>1. CASE q = r
      BY <1>2, <2>1, <2>3, <3>1
    <3>2. CASE x = r
      <4>1. {r, q} \in met'
        BY <1>2, <2>1, <2>3, <3>2
      <4>2. {q, x} = {r, q}
        BY <3>2
      <4>3. QED
        BY <4>1, <4>2
    <3>3. CASE q # r /\ x # r
      BY <1>2, <2>1, <2>2, <2>3, <3>3 DEF Meets
    <3>4. QED
      BY <3>1, <3>2, <3>3
  <2>4. Open(q)' => seen'[q] = count' \/ \E w \in workflows' : {w.run, q} \in met'
    BY <1>2, <1>3, <2>1, <2>2 DEF Meets
  <2>5. pc'[q] = "deadlock" => \E x \in Runs \ {q} : {q, x} \in met'
    BY <1>2, <1>3, <2>2 DEF Meets
  <2>6. pc'[q] = "ambiguous" =>
          \E v, w \in rows' : /\ v.key \in Plan(q)' \cup {Coordinator}
                              /\ v.key = w.key /\ v.by # w.by
    BY <1>3, <1>8, <2>2 DEF Meets
  <2>7. QED
    BY <2>3, <2>4, <2>5, <2>6 DEF Meets
<1>13. QED
  BY <1>7, <1>9, <1>10, <1>11, <1>12 DEF StoreInv

\* The first statements write nothing anybody sees.
LEMMA StartStore ==
    ASSUME RunInv, StoreInv, NEW r \in Runs,
           Resolve(r) \/ CreateSession(r) \/ SetPersona(r) \/ Instruct(r)
    PROVE  StoreInv'
<1>1. TypeOK /\ Control(r)
  BY DEF RunInv
<1>2. CASE Resolve(r)
  <2>1. /\ pc[r] = "idle"
        /\ UNCHANGED <<session, count, rows, workflows, audit, ask, phase, order, at,
                       target, wrote>>
    BY <1>2 DEF Resolve, database, effects, cursor
  <2>2. CASE session
    <3>1. Load(r) /\ \E p \in {"instruct", "persona"} : pc' = [pc EXCEPT ![r] = p]
      BY <1>2, <2>2 DEF Resolve, Go
    <3>2. QED
      BY <2>1, <3>1, LoadStore DEF Open
  <2>3. CASE ~session
    <3>1. pc' = [pc EXCEPT ![r] = "create"] /\ seen' = seen /\ met' = met
      BY <1>2, <2>3 DEF Resolve, Go
    <3>2. Others(r) /\ pc'[r] = "create" /\ wrote'[r] = {}
      BY <1>1, <2>1, <3>1, TeamDomains DEF Others, Control
    <3>3. Written(r)' /\ ~Open(r)'
      BY <3>2, WrittenNothing DEF Open
    <3>4. QED
      BY <1>1, <2>1, <3>1, <3>2, <3>3, AsideStore
  <2>4. QED
    BY <2>2, <2>3
<1>3. CASE CreateSession(r)
  <2>1. pc[r] = "create" /\ phase' = phase /\ audit' = audit
    BY <1>3 DEF CreateSession, effects
  <2>2. CASE session
    <3>1. Fail(r, "conflict")
      BY <1>3, <2>2 DEF CreateSession
    <3>2. QED
      BY <2>1, <3>1, FailStore DEF Ended
  <2>3. CASE ~session
    <3>1. /\ pc' = [pc EXCEPT ![r] = "instruct"] /\ Load(r)
          /\ UNCHANGED <<session, count, rows, workflows, ask, order, at, target, wrote>>
      BY <1>3, <2>3 DEF CreateSession, Go, database, cursor
    <3>2. QED
      BY <2>1, <3>1, LoadStore DEF Open
  <2>4. QED
    BY <2>2, <2>3
<1>4. CASE SetPersona(r) \/ Instruct(r)
  <2>1. /\ UNCHANGED <<session, count, rows, workflows, ask, met, seen, order, at, target, wrote>>
        /\ audit \subseteq audit' /\ pc[r] \in {"persona", "instruct"}
    BY <1>4 DEF SetPersona, Instruct, database, effects, cursor
  <2>2. PICK p \in {"instruct", "team"} : pc' = [pc EXCEPT ![r] = p]
    BY <1>4 DEF SetPersona, Instruct, Go
  <2>3. \A q \in Runs : q # r => phase'[q] = phase[q]
    BY <1>1, <1>4, TeamDomains DEF SetPersona, Instruct
  <2>4. Others(r) /\ pc'[r] = p /\ wrote'[r] = {}
    BY <1>1, <2>1, <2>2, <2>3, TeamDomains DEF Others, Control
  <2>5. Written(r)' /\ Open(r)
    BY <2>1, <2>4, WrittenNothing DEF Open, Ended
  <2>6. QED
    BY <1>1, <2>1, <2>4, <2>5, AsideStore
<1>5. QED
  BY <1>2, <1>3, <1>4

\* Neither does what the roles do.
LEMMA SpeakStore ==
    ASSUME RunInv, StoreInv, NEW r \in Runs, NEW k \in Roles,
           \/ Answered(r, k) \/ LlmFails(r, k) \/ Delegate(r, k)
           \/ StoreRedis(r, k) \/ StoreLocal(r, k) \/ ToolFails(r, k)
    PROVE  StoreInv'
<1>1. TypeOK /\ Control(r) /\ Outputs(r)
  BY DEF RunInv
<1>2. phase[r][k] \in {"llm", "tool", "local"}
  BY DEF Answered, LlmFails, Delegate, StoreRedis, StoreLocal, ToolFails
<1>3. pc[r] \notin {"persist", "update"} /\ wrote[r] = {}
  BY <1>1, <1>2 DEF Control, Outputs
<1>4. PICK p : Phase(r, k, p)
  BY DEF Answered, LlmFails, Delegate, StoreRedis, StoreLocal, ToolFails
<1>5. \A q \in Runs : q # r => phase'[q] = phase[q]
  BY <1>1, <1>4, TeamDomains DEF Phase
<1>6. CASE LlmFails(r, k) /\ Open(r)
  <2>1. Fail(r, "error") /\ UNCHANGED audit /\ pc[r] # "ok"
    BY <1>6 DEF LlmFails, effects, Open, Ended
  <2>2. QED
    BY <1>5, <2>1, FailStore DEF Ended
<1>7. CASE ~(LlmFails(r, k) /\ Open(r))
  <2>1. UNCHANGED <<session, count, rows, workflows, audit, ask, met, pc, seen, at, target, wrote>>
    BY <1>7 DEF Answered, LlmFails, Delegate, StoreRedis, StoreLocal, ToolFails, database, effects,
                cursor
  <2>2. \A q \in Runs : q # r => order'[q] = order[q]
    <3>1. order' = order \/ \E s : order' = [order EXCEPT ![r] = s]
      BY <1>7 DEF Answered, LlmFails, Delegate, StoreRedis, StoreLocal, ToolFails, cursor
    <3>2. QED
      BY <1>1, <3>1, TeamDomains
  <2>3. Others(r)
    BY <1>5, <2>1, <2>2 DEF Others
  <2>4. Written(r)'
    BY <1>3, <2>1, WrittenNothing
  <2>5. Open(r)' => Open(r) /\ seen'[r] = seen[r]
    BY <2>1 DEF Open
  <2>6. Meets(r)
    BY DEF StoreInv
  <2>7. QED
    BY <1>1, <2>1, <2>3, <2>4, <2>5, <2>6, AsideStore DEF Meets
<1>8. QED
  BY <1>6, <1>7

\* Nor what is audited.
LEMMA ReportStore ==
    ASSUME RunInv, StoreInv, NEW r \in Runs, Gathered(r) \/ Report(r)
    PROVE  StoreInv'
<1>1. TypeOK /\ Control(r) /\ Outputs(r)
  BY DEF RunInv
<1>2. /\ UNCHANGED <<session, count, rows, workflows, ask, met, seen, target, wrote>>
      /\ audit \subseteq audit' /\ pc[r] \in {"team", "coordinate"}
  BY DEF Gathered, Report, database, effects
<1>3. Open(r) /\ wrote[r] = {}
  BY <1>1, <1>2 DEF Control, Open, Ended
<1>4. \A q \in Runs : q # r => phase'[q] = phase[q] /\ order'[q] = order[q]
  BY <1>1, TeamDomains DEF Gathered, Report, Phase
<1>5. /\ \A q \in Runs : q # r => pc'[q] = pc[q] /\ at'[q] = at[q]
      /\ pc'[r] \in {"coordinate", "persist"} /\ (pc'[r] = "persist" => at'[r] = 1)
  BY <1>1, TeamDomains DEF Gathered, Report, Go
<1>6. Others(r)
  BY <1>2, <1>4, <1>5 DEF Others
<1>7. Written(r)'
  BY <1>2, <1>3, <1>5, WrittenNothing
<1>8. pc'[r] \notin {"ok", "deadlock", "ambiguous"} /\ pc[r] # "ok"
  BY <1>2, <1>5
<1>9. QED
  BY <1>1, <1>2, <1>3, <1>6, <1>7, <1>8, AsideStore

\* One more entry, of the output the run is at.
LEMMA PutStore ==
    ASSUME RunInv, StoreInv, NEW r \in Runs, pc[r] \in {"persist", "update"},
           at[r] \in 1..Len(order[r]), NEW b \in Runs,
           \/ b = r /\ Entries(order[r][at[r]]) = {}
           \/ b # r /\ \E v \in rows : v.key = order[r][at[r]] /\ v.by = b,
           Others(r), wrote'[r] = wrote[r] \cup {Row(order[r][at[r]], b, r)},
           at'[r] = at[r] + 1, pc'[r] = "persist", seen'[r] = seen[r],
           UNCHANGED <<session, count, rows, workflows, audit, ask, met, order>>
    PROVE  StoreInv'
<1> DEFINE k == order[r][at[r]]
           row == Row(k, b, r)
<1>1. TypeOK /\ Outputs(r) /\ Written(r)
  BY DEF RunInv, StoreInv
<1>2. /\ order[r] \in Seq(Roles) /\ Len(order[r]) \in Nat /\ DOMAIN order[r] = 1..Len(order[r])
      /\ IsInjective(order[r])
  BY <1>1, LenProperties DEF TypeOK, Outputs, Complete
<1>3. row.key = k /\ row.by = b /\ row.val = r
  BY DEF Row
<1>4. \A i \in 1..Len(order[r]) : i < at'[r] <=> i < at[r] \/ i = at[r]
  BY <1>2
<1>5. wrote'[r] = wrote[r] \cup {row}
  OBVIOUS
<1> HIDE DEF row, k
<1>6. \A w \in wrote[r] : w.key # k
  <2> SUFFICES ASSUME NEW w \in wrote[r], w.key = k PROVE FALSE
    OBVIOUS
  <2>1. PICK i \in 1..Len(order[r]) : i < at[r] /\ w.key = order[r][i]
    BY <1>1 DEF Written
  <2>2. i = at[r]
    BY <1>2, <2>1 DEF IsInjective, k
  <2>3. at[r] \in Nat
    BY <1>1 DEF TypeOK
  <2>4. QED
    BY <2>1, <2>2, <2>3
<1>7. Written(r)'
  <2>1. ASSUME NEW w \in wrote'[r]
        PROVE  /\ w.val = r
               /\ \E i \in 1..Len(order'[r]) : i < at'[r] /\ w.key = order'[r][i]
               /\ w.by # r => \E v \in rows' : v.key = w.key /\ v.by = w.by
               /\ w.by = r => \A v \in rows' : v.key = w.key => {v.by, r} \in met'
    <3>1. CASE w \in wrote[r]
      BY <1>1, <1>4, <3>1 DEF Written
    <3>2. CASE w = row
      <4>1. w.key = k /\ at[r] \in 1..Len(order'[r]) /\ at[r] < at'[r] /\ w.key = order'[r][at[r]]
        BY <1>3, <1>4, <3>2 DEF k
      <4>2. w.by = b /\ w.val = r
        BY <1>3, <3>2
      <4>3. w.by # r => \E v \in rows' : v.key = w.key /\ v.by = w.by
        BY <4>1, <4>2 DEF k
      <4>4. w.by = r => \A v \in rows' : v.key # w.key
        BY <4>1, <4>2 DEF Entries, k
      <4>5. QED
        BY <4>1, <4>2, <4>3, <4>4
    <3>3. QED
      BY <1>5, <3>1, <3>2
  <2>2. \A v, w \in wrote'[r] : v.key = w.key => v = w
    BY <1>1, <1>3, <1>5, <1>6 DEF Written
  <2>3. \A i \in 1..Len(order'[r]) : i < at'[r] => \E w \in wrote'[r] : w.key = order'[r][i]
    <3>1. \A i \in 1..Len(order[r]) : i < at[r] => \E w \in wrote[r] : w.key = order[r][i]
      BY <1>1 DEF Written
    <3>2. row \in wrote'[r] /\ row.key = order[r][at[r]] /\ wrote[r] \subseteq wrote'[r]
      BY <1>3, <1>5 DEF k
    <3>3. QED
      BY <1>4, <3>1, <3>2
  <2>4. QED
    BY <2>1, <2>2, <2>3 DEF Written
<1>8. Open(r) /\ pc[r] # "ok"
  BY DEF Open, Ended
<1>9. QED
  BY <1>1, <1>7, <1>8, AsideStore

\* An entry is inserted, updated, or refused for being there twice.
LEMMA EntryStore ==
    ASSUME RunInv, StoreInv, NEW r \in Runs, SelectEntry(r) \/ UpdateEntry(r)
    PROVE  StoreInv'
<1>1. TypeOK /\ Control(r) /\ Outputs(r) /\ Written(r)
  BY DEF RunInv, StoreInv
<1>2. CASE SelectEntry(r)
  <2>1. /\ pc[r] = "persist" /\ at[r] \in 1..Len(order[r])
        /\ phase' = phase /\ audit' = audit
    BY <1>2, SelectFrame
  <2>2. Complete(r) /\ order[r][at[r]] \in ToSet(order[r])
    BY <1>1, <2>1, OrderAt DEF Outputs
  <2>3. CASE Fail(r, "ambiguous") /\ Cardinality(Entries(order[r][at[r]])) > 1
    <3> DEFINE E == Entries(order[r][at[r]])
    <3>1. \E v, w \in E : v # w
      <4> SUFFICES ASSUME \A v, w \in E : v = w PROVE FALSE
        OBVIOUS
      <4>1. E = {} \/ \E v : E = {v}
        OBVIOUS
      <4>2. Cardinality(E) = 0 \/ Cardinality(E) = 1
        BY <4>1, FS_EmptySet, FS_Singleton
      <4>3. QED
        BY <2>3, <4>2
    <3>2. PICK v \in E, w \in E : v # w
      BY <3>1
    <3>3. v \in rows /\ w \in rows /\ v.key = order[r][at[r]] /\ w.key = v.key
      BY <3>2 DEF Entries
    <3>4. v.by # w.by
      BY <3>2, <3>3 DEF StoreInv, Kept
    <3>5. v.key \in Plan(r) \cup {Coordinator}
      BY <2>2, <3>3 DEF Complete
    <3>6. QED
      BY <2>1, <2>3, <3>3, <3>4, <3>5, FailStore DEF Ended
  <2>4. CASE /\ UNCHANGED <<session, count, rows, workflows, ask, pc, seen, writer,
                            order, target, met>>
             /\ Entries(order[r][at[r]]) = {}
             /\ wrote' = [wrote EXCEPT ![r] = wrote[r] \cup {Row(order[r][at[r]], r, r)}]
             /\ at' = [at EXCEPT ![r] = at[r] + 1]
    <3>1. /\ Others(r) /\ wrote'[r] = wrote[r] \cup {Row(order[r][at[r]], r, r)}
          /\ at'[r] = at[r] + 1
      BY <1>1, <2>1, <2>4, TeamDomains DEF Others
    <3>2. QED
      BY <2>1, <2>4, <3>1, PutStore
  <2>5. CASE /\ UNCHANGED <<session, count, rows, workflows, ask, seen, writer,
                            order, at, wrote, met>>
             /\ pc' = [pc EXCEPT ![r] = "update"]
             /\ \E w \in rows : /\ w.key = order[r][at[r]]
                                /\ target' = [target EXCEPT ![r] = w.by]
    <3>1. PICK w \in rows : /\ w.key = order[r][at[r]]
                            /\ target' = [target EXCEPT ![r] = w.by]
      BY <2>5
    <3>2. Others(r) /\ pc'[r] = "update" /\ target'[r] = w.by
      BY <1>1, <2>1, <2>5, <3>1, TeamDomains DEF Others
    <3>3. Written(r)'
      BY <1>1, <2>1, <2>5, <3>1, <3>2 DEF Written
    <3>4. Open(r)
      BY <2>1 DEF Open, Ended
    <3>5. QED
      BY <1>1, <2>1, <2>5, <3>2, <3>3, <3>4, AsideStore
  <2>6. QED
    BY <1>2, <2>3, <2>4, <2>5, SelectFrame
<1>3. CASE UpdateEntry(r)
  <2>1. /\ pc[r] = "update" /\ at[r] \in 1..Len(order[r]) /\ target[r] \in Runs
        /\ wrote' = [wrote EXCEPT ![r] = wrote[r] \cup {Row(order[r][at[r]], target[r], r)}]
        /\ at' = [at EXCEPT ![r] = at[r] + 1]
        /\ target' = [target EXCEPT ![r] = None] /\ pc' = [pc EXCEPT ![r] = "persist"]
        /\ UNCHANGED <<session, count, rows, workflows, audit, ask, seen, phase, order, met>>
    BY <1>3, UpdateFrame
  <2>2. PICK v \in rows : v.key = order[r][at[r]] /\ v.by = target[r]
    BY <1>1, <2>1 DEF Written
  <2>3. target[r] # r
    BY <2>1, <2>2 DEF StoreInv, Kept
  <2>4. /\ Others(r) /\ wrote'[r] = wrote[r] \cup {Row(order[r][at[r]], target[r], r)}
        /\ at'[r] = at[r] + 1 /\ pc'[r] = "persist"
    BY <1>1, <2>1, TeamDomains DEF Others
  <2>5. QED
    BY <2>1, <2>2, <2>3, <2>4, PutStore
<1>4. QED
  BY <1>2, <1>3

\* A run of a circle of waits holds a lock, as does the one it waits for: both
\* are open and have met.
LEMMA FaultyStore ==
    ASSUME RunInv, StoreInv, (\E r \in Runs : Deadlock(r) \/ Abandon(r)) \/ External
    PROVE  StoreInv'
<1>1. TypeOK
  BY DEF RunInv
<1>2. ASSUME NEW r \in Runs, Abandon(r) PROVE StoreInv'
  <2>1. Fail(r, "error") /\ phase' = phase /\ audit' = audit /\ pc[r] # "ok"
    BY <1>2 DEF Abandon, effects, Ended
  <2>2. QED
    BY <2>1, FailStore DEF Ended
<1>3. ASSUME NEW r \in Runs, Deadlock(r) PROVE StoreInv'
  <2>1. Fail(r, "deadlock") /\ phase' = phase /\ audit' = audit
    BY <1>3 DEF Deadlock, effects
  <2>2. PICK p \in Runs, q \in Runs : WaitsFor(r, q) /\ WaitsFor(p, r)
    BY <1>3 DEF Deadlock, Deadlocked
  <2>3. ASSUME NEW x \in Runs, NEW y \in Runs, WaitsFor(x, y) PROVE Open(y)
    <3>1. Control(y)
      BY DEF RunInv
    <3>2. writer = y \/ wrote[y] # {}
      BY <2>3 DEF WaitsFor, LockedBy
    <3>3. QED
      BY <3>1, <3>2 DEF Control, Open, Ended
  <2>4. Open(r) /\ Open(q) /\ q # r
    BY <2>2, <2>3 DEF WaitsFor
  <2>5. {r, q} \in met
    BY <2>4 DEF StoreInv, Meets
  <2>6. pc[r] # "ok"
    BY <2>4 DEF Open, Ended
  <2>7. QED
    BY <2>1, <2>4, <2>5, <2>6, FailStore DEF Ended
<1>4. ASSUME UNCHANGED <<session, count, rows, workflows, audit, ask, met>>,
             \A r \in Runs : /\ (pc'[r] = "ok" <=> pc[r] = "ok")
                             /\ Written(r)' /\ Meets(r)'
      PROVE  StoreInv'
  <2>1. \A v \in rows : v.val \in Runs /\ v.by \in Runs
    BY <1>1 DEF TypeOK
  <2>2. \A w \in workflows : w.run \in Runs
    BY <1>1 DEF TypeOK
  <2>3. Kept'
    BY <1>4, <2>1 DEF StoreInv, Kept
  <2>4. \A q : Plan(q)' = Plan(q)
    BY <1>4 DEF Plan
  <2>5. Done'
    <3>1. ASSUME NEW w \in workflows
          PROVE  /\ pc'[w.run] = "ok"
                 /\ Len(w.steps) = Len(ask'[w.run].plan) + 1
                 /\ ToSet(w.steps) = Plan(w.run)' \cup {Coordinator}
                 /\ Last(w.steps) = Coordinator
                 /\ Told(w.run, w.steps) \subseteq audit'
                 /\ \A k \in ToSet(w.steps) : \E v \in rows' : v.key = k
      BY <1>4, <2>2, <2>4 DEF StoreInv, Done
    <3>2. QED
      BY <1>4, <3>1 DEF StoreInv, Done
  <2>6. Counts'
    BY <1>4 DEF StoreInv, Counts
  <2>7. QED
    BY <1>4, <2>3, <2>5, <2>6 DEF StoreInv
<1>5. CASE Crash
  <2>1. /\ UNCHANGED <<session, count, rows, workflows, audit, ask, met>>
        /\ \A r \in Runs : /\ pc'[r] = IF pc[r] \in Ended \cup {"idle"} THEN pc[r] ELSE "error"
                           /\ wrote'[r] = {}
    BY <1>5 DEF Crash, database
  <2>2. ASSUME NEW r \in Runs
        PROVE  (pc'[r] = "ok" <=> pc[r] = "ok") /\ Written(r)' /\ Meets(r)'
    <3>1. /\ pc'[r] = "ok" <=> pc[r] = "ok"
          /\ pc'[r] = "deadlock" <=> pc[r] = "deadlock"
          /\ pc'[r] = "ambiguous" <=> pc[r] = "ambiguous"
          /\ ~Open(r)' /\ pc'[r] \notin {"persist", "update"}
      BY <2>1 DEF Open, Ended
    <3>2. Written(r)'
      BY <2>1, <3>1, WrittenNothing
    <3>3. Meets(r) /\ Plan(r)' = Plan(r)
      BY <2>1 DEF StoreInv, Plan
    <3>4. Meets(r)'
      BY <2>1, <3>1, <3>3 DEF Meets
    <3>5. QED
      BY <3>1, <3>2, <3>4
  <2>3. QED
    BY <1>4, <2>1, <2>2
<1>6. CASE Expire
  <2>1. UNCHANGED <<session, count, rows, workflows, audit, ask, met, pc, seen, order, at,
                    target, wrote>>
    BY <1>6 DEF Expire, database, cursor
  <2>2. ASSUME NEW r \in Runs PROVE Written(r)' /\ Meets(r)'
    <3>1. Written(r) /\ Meets(r)
      BY DEF StoreInv
    <3>2. Written(r)'
      BY <2>1, <3>1 DEF Written
    <3>3. Meets(r)'
      BY <2>1, <3>1 DEF Meets, Open, Plan
    <3>4. QED
      BY <3>2, <3>3
  <2>3. QED
    BY <1>4, <2>1, <2>2
<1>7. ASSUME NEW k \in WorkerRoles, WorkerStores(k) PROVE StoreInv'
  <2>1. UNCHANGED <<session, count, rows, workflows, audit, ask, met, pc, seen, order, at,
                    target, wrote>>
    BY <1>7 DEF WorkerStores, database, cursor
  <2>2. ASSUME NEW r \in Runs PROVE Written(r)' /\ Meets(r)'
    <3>1. Written(r) /\ Meets(r)
      BY DEF StoreInv
    <3>2. Written(r)'
      BY <2>1, <3>1 DEF Written
    <3>3. Meets(r)'
      BY <2>1, <3>1 DEF Meets, Open, Plan
    <3>4. QED
      BY <3>2, <3>3
  <2>3. QED
    BY <1>4, <2>1, <2>2
<1>8. QED
  BY <1>2, <1>3, <1>5, <1>6, <1>7 DEF External

\* Runs have one workflow each, so these are finitely many.
LEMMA WorkflowsFinite ==
    ASSUME TypeOK, Done
    PROVE  IsFiniteSet(workflows) /\ Cardinality(workflows) \in Nat
<1> DEFINE f == [w \in workflows |-> w.run]
<1>1. f \in [workflows -> Runs]
  BY DEF TypeOK
<1>2. \A v, w \in workflows : f[v] = f[w] => v = w
  BY DEF Done
<1>3. f \in Injection(workflows, Runs)
  BY <1>1, <1>2 DEF Injection, IsInjective
<1>4. IsFiniteSet(workflows)
  BY <1>3, RunsAssumption, FS_Injection DEF ExistsInjection
<1>5. QED
  BY <1>4, FS_CardinalityType

\* The commit.  Of an entry that is there, the row of its key and inserting run
\* stays there.
LEMMA CommitRows ==
    ASSUME NEW r \in Runs,
           rows' = {w \in rows : ~LockedBy(r, w.key, w.by)} \cup wrote[r]
    PROVE  /\ \A v \in rows : \E w \in rows' : w.key = v.key /\ w.by = v.by
           /\ \A w \in rows' : (w \in rows /\ ~LockedBy(r, w.key, w.by)) \/ w \in wrote[r]
<1>1. ASSUME NEW v \in rows PROVE \E w \in rows' : w.key = v.key /\ w.by = v.by
  BY DEF LockedBy
<1>2. QED
  BY <1>1

\* A step for each specialist and one for the coordinator.
LEMMA StoreSteps ==
    ASSUME RunInv, NEW r \in Runs, pc[r] = "persist"
    PROVE  Len(order[r]) = Len(ask[r].plan) + 1
<1>1. TypeOK /\ Complete(r) /\ r \in DOMAIN ask
  BY DEF RunInv, Control, Outputs
<1>2. /\ order[r] \in Seq(Roles) /\ IsInjective(order[r])
      /\ ToSet(order[r]) = Plan(r) \cup {Coordinator}
  BY <1>1 DEF Complete, TypeOK
<1>3. ask[r].plan \in Seq(Roles) /\ IsInjective(ask[r].plan) /\ Coordinator \notin Plan(r)
  BY <1>1, Asked DEF TypeOK
<1>4. Cardinality(ToSet(order[r])) = Len(order[r])
  BY <1>2, InjectiveLength
<1>5. IsFiniteSet(Plan(r)) /\ Cardinality(Plan(r)) = Len(ask[r].plan)
  BY <1>3, InjectiveLength DEF Plan
<1>6. Cardinality(Plan(r) \cup {Coordinator}) = Cardinality(Plan(r)) + 1
  BY <1>3, <1>5, FS_AddElement
<1>7. QED
  BY <1>2, <1>4, <1>5, <1>6

\* The commit is where runs meet: its count is that of the load, its entries may
\* be second ones.
LEMMA CommitStore ==
    ASSUME RunInv, AuditInv, StoreInv, NEW r \in Runs, Store(r)
    PROVE  StoreInv'
<1>1. TypeOK /\ Control(r) /\ Audited(r) /\ Written(r) /\ Meets(r)
  BY DEF RunInv, AuditInv, StoreInv
<1>2. Kept /\ Done /\ Counts
  BY DEF StoreInv
<1>3. /\ pc[r] = "persist" /\ Complete(r) /\ at[r] = Len(order[r]) + 1
      /\ rows' = {w \in rows : ~LockedBy(r, w.key, w.by)} \cup wrote[r]
      /\ workflows' = workflows \cup {Workflow(r, order[r])}
      /\ count' = seen[r] + 2 /\ session'
      /\ Others(r) /\ pc'[r] = "ok" /\ wrote'[r] = {}
      /\ UNCHANGED <<audit, ask, met>>
  BY StoreFrame
<1>4. Open(r) /\ r \in DOMAIN ask /\ \A q \in Runs : q # r => pc'[q] = pc[q]
  BY <1>1, <1>3 DEF Open, Ended, Control, Others
<1>5. /\ \A v \in rows : \E w \in rows' : w.key = v.key /\ w.by = v.by
      /\ \A w \in rows' : (w \in rows /\ ~LockedBy(r, w.key, w.by)) \/ w \in wrote[r]
  BY <1>3, CommitRows
<1>6. \A q \in Runs : q # r /\ Open(q) => {r, q} \in met
  BY <1>1, <1>4 DEF Meets
<1>7. \A q \in Runs : pc[q] = "ok" => q # r /\ pc'[q] = "ok"
  BY <1>3, <1>4
<1>8. \A v \in rows \cup wrote[r] : v.by \in Runs /\ v.val \in Runs /\ v.key \in Roles
  BY <1>1 DEF TypeOK
<1>9. \A w \in workflows : w.run \in Runs
  BY <1>1 DEF TypeOK
<1>10. \A w \in wrote[r] : w.by = r \/ \E v \in rows : v.key = w.key /\ v.by = w.by
  BY <1>1 DEF Written
<1> DEFINE new == Workflow(r, order[r])
<1>11. new.run = r /\ new.steps = order[r]
  BY DEF Workflow
<1>12. Kept'
  <2>1. ASSUME NEW v \in rows' PROVE pc'[v.val] = "ok" /\ pc'[v.by] = "ok"
    <3>1. CASE v \in rows
      BY <1>2, <1>7, <1>8, <3>1 DEF Kept
    <3>2. CASE v \in wrote[r]
      <4>1. v.val = r
        BY <1>1, <3>2 DEF Written
      <4>2. pc'[v.by] = "ok"
        BY <1>2, <1>3, <1>7, <1>8, <1>10, <3>2 DEF Kept
      <4>3. QED
        BY <1>3, <4>1, <4>2
    <3>3. QED
      BY <1>5, <3>1, <3>2
  <2>2. ASSUME NEW v \in rows, ~LockedBy(r, v.key, v.by), NEW w \in wrote[r], v.key = w.key
        PROVE  v.by # w.by /\ {v.by, w.by} \in met
    <3>1. v.by # w.by
      BY <2>2 DEF LockedBy
    <3>2. CASE w.by = r
      BY <1>1, <2>2, <3>1, <3>2 DEF Written
    <3>3. CASE \E u \in rows : u.key = w.key /\ u.by = w.by
      <4>1. PICK u \in rows : u.key = w.key /\ u.by = w.by
        BY <3>3
      <4>2. {v.by, u.by} \in met
        BY <1>2, <2>2, <3>1, <4>1 DEF Kept
      <4>3. QED
        BY <3>1, <4>1, <4>2
    <3>4. QED
      BY <1>10, <3>1, <3>2, <3>3
  <2>3. ASSUME NEW v \in rows', NEW w \in rows', v.key = w.key
        PROVE  /\ v.by = w.by => v = w
               /\ v.by # w.by => {v.by, w.by} \in met
    <3>1. CASE v \in rows /\ w \in rows
      BY <1>2, <2>3, <3>1 DEF Kept
    <3>2. CASE v \in wrote[r] /\ w \in wrote[r]
      BY <1>1, <2>3, <3>2 DEF Written
    <3>3. CASE v \in rows /\ ~LockedBy(r, v.key, v.by) /\ w \in wrote[r]
      BY <2>2, <2>3, <3>3
    <3>4. CASE w \in rows /\ ~LockedBy(r, w.key, w.by) /\ v \in wrote[r]
      <4>1. w.by # v.by /\ {w.by, v.by} \in met
        BY <2>2, <2>3, <3>4
      <4>2. {v.by, w.by} = {w.by, v.by}
        OBVIOUS
      <4>3. QED
        BY <4>1, <4>2
    <3>5. QED
      BY <1>5, <3>1, <3>2, <3>3, <3>4
  <2>4. QED
    BY <1>3, <2>1, <2>3 DEF Kept
<1>13. Done'
  <2>1. \A q : Plan(q)' = Plan(q)
    BY <1>3 DEF Plan
  <2>2. ASSUME NEW w \in workflows
        PROVE  /\ pc'[w.run] = "ok" /\ w.run # r
               /\ Len(w.steps) = Len(ask'[w.run].plan) + 1
               /\ ToSet(w.steps) = Plan(w.run)' \cup {Coordinator}
               /\ Last(w.steps) = Coordinator
               /\ Told(w.run, w.steps) \subseteq audit'
               /\ \A k \in ToSet(w.steps) : \E v \in rows' : v.key = k
    <3>1. pc'[w.run] = "ok" /\ w.run # r
      BY <1>2, <1>7, <1>9 DEF Done
    <3>2. ASSUME NEW k \in ToSet(w.steps) PROVE \E v \in rows' : v.key = k
      <4>1. PICK u \in rows : u.key = k
        BY <1>2 DEF Done
      <4>2. QED
        BY <1>5, <4>1
    <3>3. QED
      BY <1>2, <1>3, <2>1, <3>1, <3>2 DEF Done
  <2>3. /\ pc'[r] = "ok"
        /\ Len(order[r]) = Len(ask'[r].plan) + 1
        /\ ToSet(order[r]) = Plan(r)' \cup {Coordinator}
        /\ Last(order[r]) = Coordinator
        /\ Told(r, order[r]) \subseteq audit'
    BY <1>1, <1>3, <2>1, StoreSteps DEF Complete, Audited
  <2>4. ASSUME NEW k \in ToSet(order[r]) PROVE \E v \in rows' : v.key = k
    <3>1. Len(order[r]) \in Nat /\ DOMAIN order[r] = 1..Len(order[r])
      BY <1>1, LenProperties DEF TypeOK
    <3>2. PICK i \in 1..Len(order[r]) : order[r][i] = k
      BY <3>1 DEF ToSet
    <3>3. i < at[r]
      BY <1>3, <3>1
    <3>4. PICK w \in wrote[r] : w.key = k
      BY <1>1, <1>3, <3>2, <3>3 DEF Written
    <3>5. QED
      BY <1>3, <3>4
  <2> HIDE DEF new
  <2>5. workflows' = workflows \cup {new}
    BY <1>3 DEF new
  <2>6. \A w \in workflows' : w \in workflows \/ w = new
    BY <2>5
  <2>7. ASSUME NEW w \in workflows'
        PROVE  /\ pc'[w.run] = "ok"
               /\ Len(w.steps) = Len(ask'[w.run].plan) + 1
               /\ ToSet(w.steps) = Plan(w.run)' \cup {Coordinator}
               /\ Last(w.steps) = Coordinator
               /\ Told(w.run, w.steps) \subseteq audit'
               /\ \A k \in ToSet(w.steps) : \E v \in rows' : v.key = k
    <3>1. CASE w \in workflows
      BY <2>2, <3>1
    <3>2. CASE w = new
      BY <1>11, <2>3, <2>4, <3>2
    <3>3. QED
      BY <2>6, <3>1, <3>2
  <2>8. \A v, w \in workflows' : v.run = w.run => v = w
    BY <1>2, <1>11, <2>2, <2>6 DEF Done
  <2>9. \A q \in Runs : pc'[q] = "ok" => \E w \in workflows' : w.run = q
    BY <1>2, <1>4, <1>11, <2>5 DEF Done
  <2>10. QED
    BY <2>7, <2>8, <2>9 DEF Done
<1>14. \A w \in workflows : w.run # r
  BY <1>2, <1>3 DEF Done
<1> HIDE DEF new
<1>15. workflows' = workflows \cup {new} /\ new \notin workflows
  BY <1>3, <1>11, <1>14 DEF new
<1>16. Counts'
  <2>1. IsFiniteSet(workflows) /\ Cardinality(workflows) \in Nat
    BY <1>1, <1>2, WorkflowsFinite
  <2>2. Cardinality(workflows') = Cardinality(workflows) + 1
    BY <1>15, <2>1, FS_AddElement
  <2>3. seen[r] \in Nat /\ count \in Nat
    BY <1>1 DEF TypeOK
  <2>4. count' >= 2
    BY <1>3, <2>3
  <2>5. CASE seen[r] = count
    <3>1. count' # 2 * Cardinality(workflows') => count # 2 * Cardinality(workflows)
      BY <1>3, <2>1, <2>2, <2>3, <2>5
    <3>2. count' # 2 * Cardinality(workflows') =>
            \E v, w \in workflows' : v # w /\ {v.run, w.run} \in met'
      BY <1>2, <1>3, <1>15, <3>1 DEF Counts
    <3>3. Cardinality(workflows)' = Cardinality(workflows')
      OBVIOUS
    <3>4. QED
      BY <2>4, <3>2, <3>3 DEF Counts
  <2>6. CASE \E w \in workflows : {w.run, r} \in met
    <3>1. PICK w \in workflows : {w.run, r} \in met
      BY <2>6
    <3>2. w \in workflows' /\ new \in workflows' /\ w # new /\ {w.run, new.run} \in met'
      BY <1>3, <1>11, <1>15, <3>1
    <3>3. QED
      BY <2>4, <3>2 DEF Counts
  <2>7. QED
    BY <1>1, <1>4, <2>5, <2>6 DEF Meets
<1>17. ASSUME NEW q \in Runs, q # r PROVE Written(q)'
  <2>1. /\ pc'[q] = pc[q] /\ order'[q] = order[q] /\ at'[q] = at[q] /\ target'[q] = target[q]
        /\ wrote'[q] = wrote[q]
    BY <1>3, <1>17 DEF Others
  <2>2. Written(q) /\ Control(q)
    BY DEF StoreInv, RunInv
  <2>3. ASSUME NEW w \in wrote[q], w.by = q, NEW v \in rows', v.key = w.key
        PROVE  {v.by, q} \in met
    <3>1. \A u \in rows : u.key = w.key => {u.by, q} \in met
      BY <2>2, <2>3 DEF Written
    <3>2. CASE v \in rows
      BY <2>3, <3>1, <3>2
    <3>3. CASE v \in wrote[r] /\ v.by = r
      <4>1. Open(q)
        BY <2>2, <2>3 DEF Control, Open, Ended
      <4>2. QED
        BY <1>6, <1>17, <3>3, <4>1
    <3>4. CASE \E u \in rows : u.key = v.key /\ u.by = v.by
      <4>1. PICK u \in rows : u.key = v.key /\ u.by = v.by
        BY <3>4
      <4>2. {u.by, q} \in met
        BY <2>3, <3>1, <4>1
      <4>3. QED
        BY <4>1, <4>2
    <3>5. QED
      BY <1>5, <1>10, <3>2, <3>3, <3>4
  <2>4. ASSUME NEW w \in wrote[q], w.by # q
        PROVE  \E v \in rows' : v.key = w.key /\ v.by = w.by
    <3>1. PICK u \in rows : u.key = w.key /\ u.by = w.by
      BY <2>2, <2>4 DEF Written
    <3>2. QED
      BY <1>5, <3>1
  <2>5. ASSUME pc[q] = "update"
        PROVE  \E v \in rows' : v.key = order[q][at[q]] /\ v.by = target[q]
    <3>1. PICK u \in rows : u.key = order[q][at[q]] /\ u.by = target[q]
      BY <2>2, <2>5 DEF Written
    <3>2. QED
      BY <1>5, <3>1
  <2>6. QED
    BY <1>3, <2>1, <2>2, <2>3, <2>4, <2>5 DEF Written
<1>18. Written(r)'
  BY <1>3, WrittenNothing
<1>19. ASSUME NEW q \in Runs, q # r PROVE Meets(q)'
  <2>1. Meets(q) /\ pc'[q] = pc[q] /\ Plan(q)' = Plan(q)
    BY <1>3, <1>4, <1>19 DEF StoreInv, Plan
  <2>2. \A p \in Runs : Open(p)' => Open(p)
    BY <1>3, <1>4 DEF Open, Ended
  <2>3. Open(q)' => \A p \in Runs : p # q /\ Open(p)' => {q, p} \in met'
    BY <1>3, <2>1, <2>2 DEF Meets
  <2>4. Open(q)' => \E w \in workflows' : {w.run, q} \in met'
    BY <1>3, <1>6, <1>11, <1>15, <1>19, <2>2
  <2>5. pc'[q] = "deadlock" => \E p \in Runs \ {q} : {q, p} \in met'
    BY <1>3, <2>1 DEF Meets
  <2>6. ASSUME pc[q] = "ambiguous"
        PROVE  \E v, w \in rows' : /\ v.key \in Plan(q)' \cup {Coordinator}
                                   /\ v.key = w.key /\ v.by # w.by
    <3>1. PICK v \in rows, w \in rows : /\ v.key \in Plan(q) \cup {Coordinator}
                                        /\ v.key = w.key /\ v.by # w.by
      BY <2>1, <2>6 DEF Meets
    <3>2. PICK x \in rows', y \in rows' : /\ x.key = v.key /\ x.by = v.by
                                          /\ y.key = w.key /\ y.by = w.by
      BY <1>5
    <3>3. QED
      BY <2>1, <3>1, <3>2
  <2>7. QED
    BY <2>1, <2>3, <2>4, <2>5, <2>6 DEF Meets
<1>20. Meets(r)'
  BY <1>3 DEF Meets, Open, Ended
<1>21. QED
  BY <1>12, <1>13, <1>16, <1>17, <1>18, <1>19, <1>20 DEF StoreInv

\* Every step preserves the invariant of the store.
LEMMA StoreNext ==
    ASSUME RunInv, AuditInv, StoreInv, [Next]_vars
    PROVE  StoreInv'
<1>1. ASSUME NEW r \in Runs, Resolve(r) \/ Work(r) \/ Abandon(r) PROVE StoreInv'
  BY <1>1, StartStore, ReportStore, EntryStore, CommitStore, FaultyStore DEF Work
<1>2. ASSUME NEW r \in Runs, NEW k \in Roles,
             \/ Answered(r, k) \/ LlmFails(r, k) \/ Delegate(r, k)
             \/ StoreRedis(r, k) \/ StoreLocal(r, k) \/ ToolFails(r, k)
      PROVE  StoreInv'
  BY <1>2, SpeakStore
<1>3. CASE External
  BY <1>3, FaultyStore
<1>4. CASE UNCHANGED vars
  <2>1. UNCHANGED <<session, count, rows, workflows, audit, ask, met, pc, seen, order, at,
                    target, wrote>>
    BY <1>4 DEF vars, database, effects, cursor
  <2>2. Kept' /\ Counts'
    BY <2>1 DEF StoreInv, Kept, Counts
  <2>3. Done'
    BY <2>1 DEF StoreInv, Done, Plan
  <2>4. ASSUME NEW r \in Runs PROVE Written(r)' /\ Meets(r)'
    <3>1. Written(r) /\ Meets(r)
      BY DEF StoreInv
    <3>2. Written(r)'
      BY <2>1, <3>1 DEF Written
    <3>3. Meets(r)'
      BY <2>1, <3>1 DEF Meets, Open, Plan
    <3>4. QED
      BY <3>2, <3>3
  <2>5. QED
    BY <2>2, <2>3, <2>4 DEF StoreInv
<1>5. QED
  BY <1>1, <1>2, <1>3, <1>4 DEF Next, Speak, External

\* A run that is over is stored.
LEMMA StoreInit ==
    ASSUME Init
    PROVE  StoreInv
<1> DEFINE over == {r \in DOMAIN ask : ask[r].done}
           steps(r) == Append(ask[r].plan, Coordinator)
<1>1. /\ ask \in Mixes /\ session = (over # {})
      /\ rows = UNION {{Row(k, r, r) : k \in ToSet(steps(r))} : r \in over}
      /\ workflows = {Workflow(r, steps(r)) : r \in over}
      /\ audit = UNION {Told(r, steps(r)) : r \in over}
      /\ \A r \in Runs : /\ pc[r] = IF r \in over THEN "ok" ELSE "idle"
                         /\ wrote[r] = {}
  BY DEF Init
<1>2. ASSUME NEW r \in Runs PROVE Written(r) /\ Meets(r)
  <2>1. pc[r] \in {"ok", "idle"} /\ wrote[r] = {}
    BY <1>1
  <2>2. QED
    BY <2>1 DEF Written, Meets, Open, Ended
<1>3. over \subseteq Runs /\ over \subseteq DOMAIN ask
  BY FirstRun
<1>4. /\ \/ over = {} /\ count = 0
         \/ (\E r \in DOMAIN ask : over = {r}) /\ count = 2
  BY FirstRun
<1>5. \A r \in over : /\ Len(steps(r)) = Len(ask[r].plan) + 1
                      /\ Last(steps(r)) = Coordinator
                      /\ ToSet(steps(r)) = Plan(r) \cup {Coordinator}
  BY <1>1, <1>3, FirstSteps
<1> HIDE DEF over, steps
<1>6. CASE over = {}
  <2>1. rows = {} /\ workflows = {} /\ \A r \in Runs : pc[r] # "ok"
    BY <1>1, <1>6
  <2>2. Kept /\ Done
    BY <2>1 DEF Kept, Done
  <2>3. Cardinality(workflows) = 0 /\ count = 0 /\ ~session
    BY <1>1, <1>4, <1>6, <2>1, FS_EmptySet
  <2>4. Counts
    BY <2>3 DEF Counts
  <2>5. QED
    BY <1>2, <2>2, <2>4 DEF StoreInv
<1>7. CASE \E r \in DOMAIN ask : over = {r}
  <2>1. PICK r \in DOMAIN ask : over = {r}
    BY <1>7
  <2>2. /\ rows = {Row(k, r, r) : k \in ToSet(steps(r))}
        /\ workflows = {Workflow(r, steps(r))}
        /\ audit = Told(r, steps(r))
        /\ r \in Runs /\ pc[r] = "ok" /\ \A q \in Runs : pc[q] = "ok" => q = r
        /\ count = 2
    BY <1>1, <1>3, <1>4, <2>1
  <2>3. \A k : Row(k, r, r).key = k /\ Row(k, r, r).by = r /\ Row(k, r, r).val = r
    BY DEF Row
  <2>4. Workflow(r, steps(r)).run = r /\ Workflow(r, steps(r)).steps = steps(r)
    BY DEF Workflow
  <2>5. Kept
    BY <2>2, <2>3 DEF Kept
  <2>6. \A k \in ToSet(steps(r)) : \E v \in rows : v.key = k
    BY <2>2, <2>3
  <2>7. Done
    BY <1>5, <2>1, <2>2, <2>4, <2>6 DEF Done
  <2>8. Cardinality(workflows) = 1
    BY <2>2, FS_Singleton
  <2>9. Counts
    BY <2>2, <2>8 DEF Counts
  <2>10. QED
    BY <1>2, <2>5, <2>7, <2>9 DEF StoreInv
<1>8. QED
  BY <1>4, <1>6, <1>7

\* The inductive invariant, all of it.
THEOREM TeamCorrect == Spec => [](RunInv /\ AuditInv /\ StoreInv)
<1>1. Init => AuditInv /\ StoreInv
  BY AuditInit, StoreInit
<1>2. RunInv /\ AuditInv /\ StoreInv /\ [Next]_vars => AuditInv' /\ StoreInv'
  BY AuditNext, StoreNext
<1>3. QED
  BY <1>1, <1>2, RunsKeepOrder, PTL DEF Spec

\* The invariants have all of RunIsWhole ...
LEMMA WholeRuns ==
    ASSUME RunInv, AuditInv, StoreInv
    PROVE  RunIsWhole
<1>1. TypeOK /\ Effective /\ Kept /\ Done
  BY DEF RunInv, AuditInv, StoreInv
<1>2. ASSUME NEW w \in workflows
      PROVE  /\ pc[w.run] = "ok"
             /\ Len(w.steps) = Len(ask[w.run].plan) + 1
             /\ ToSet(w.steps) = Plan(w.run) \cup {Coordinator}
             /\ Last(w.steps) = Coordinator
             /\ Told(w.run, w.steps) \subseteq audit
             /\ \A k \in ToSet(w.steps) : Entries(k) # {}
  <2>1. \A k \in ToSet(w.steps) : Entries(k) # {}
    BY <1>1 DEF Done, Entries
  <2>2. QED
    BY <1>1, <2>1 DEF Done
<1>3. ASSUME NEW r \in Runs, pc[r] = "ok"
      PROVE  Cardinality({w \in workflows : w.run = r}) = 1
  <2>1. PICK v \in workflows : v.run = r
    BY <1>1, <1>3 DEF Done
  <2>2. {w \in workflows : w.run = r} = {v}
    BY <1>1, <2>1 DEF Done
  <2>3. QED
    BY <2>2, FS_Singleton
<1>4. \A w \in rows : pc[w.val] = "ok" /\ pc[w.by] = "ok"
  BY <1>1 DEF Kept
<1>5. \A r \in {t[1] : t \in tasks} \cup {redis[k] : k \in Roles} \cup {local[k] : k \in Roles} :
         r \notin {None, Worker} => Event(r, "instruction", "user") \in audit
  BY <1>1 DEF Effective
<1>6. QED
  BY <1>2, <1>3, <1>4, <1>5 DEF RunIsWhole

\* A run is stored whole or not at all (_persist_run, TeamOrchestrator.run).
THEOREM StoredWhole == Spec => []RunIsWhole
<1>1. RunInv /\ AuditInv /\ StoreInv => RunIsWhole
  BY WholeRuns
<1>2. QED
  BY <1>1, TeamCorrect, PTL

\* ... and of ExactUnlessMet.
LEMMA ExactRuns ==
    ASSUME RunInv, StoreInv
    PROVE  ExactUnlessMet
<1>1. TypeOK /\ Kept /\ Counts
  BY DEF RunInv, StoreInv
<1>2. \A v, w \in rows : v.key = w.key /\ v # w => {v.by, w.by} \in met
  BY <1>1 DEF Kept
<1>3. ASSUME NEW r \in Runs, pc[r] = "ambiguous"
      PROVE  \E k \in Plan(r) \cup {Coordinator} : Cardinality(Entries(k)) > 1
  <2>1. PICK v \in rows, w \in rows : /\ v.key \in Plan(r) \cup {Coordinator}
                                      /\ v.key = w.key /\ v.by # w.by
    BY <1>3 DEF StoreInv, Meets
  <2> DEFINE E == Entries(v.key)
             f == [x \in E |-> x.by]
  <2>2. f \in [E -> Runs] /\ \A x, y \in E : f[x] = f[y] => x = y
    BY <1>1 DEF TypeOK, Entries, Kept
  <2>3. f \in Injection(E, Runs)
    BY <2>2 DEF Injection, IsInjective
  <2>4. IsFiniteSet(E)
    BY <2>3, RunsAssumption, FS_Injection DEF ExistsInjection
  <2>5. {v, w} \subseteq E /\ v # w
    BY <2>1 DEF Entries
  <2>6. IsFiniteSet({v}) /\ Cardinality({v}) = 1
    BY FS_Singleton
  <2>7. IsFiniteSet({v} \cup {w}) /\ Cardinality({v} \cup {w}) = 2
    BY <2>5, <2>6, FS_AddElement
  <2>8. Cardinality({v} \cup {w}) <= Cardinality(E) /\ Cardinality(E) \in Nat
    BY <2>4, <2>5, FS_Subset, FS_CardinalityType
  <2>9. QED
    BY <2>1, <2>7, <2>8
<1>4. \A r \in Runs : pc[r] = "deadlock" => \E q \in Runs \ {r} : {r, q} \in met
  BY DEF StoreInv, Meets
<1>5. QED
  BY <1>1, <1>2, <1>3, <1>4 DEF ExactUnlessMet, Counts

\* Trouble has one cause, runs of a session open at the same time.
THEOREM OnlyMeetingsHurt == Spec => []ExactUnlessMet
<1>1. RunInv /\ StoreInv => ExactUnlessMet
  BY ExactRuns
<1>2. QED
  BY <1>1, TeamCorrect, PTL
=============================================================================
