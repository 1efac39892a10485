----------------------------- MODULE CityProofs -----------------------------
(***************************************************************************)
(* Proofs about two parts of the city that share no state.                 *)
(*                                                                         *)
(* The ConcurrencyGovernor (Governor), for every number of callers, jobs   *)
(* and families and for every limit: slots are accounted for, no limit is  *)
(* exceeded and the reported counters follow the batches.                  *)
(*                                                                         *)
(* Deaths and successions (CityLife), for any families, members, ticks and *)
(* age limits: whatever life ticks overlap, are refused or abandoned and   *)
(* whichever agents are deleted, nobody dies without an heir and no family *)
(* dies out; and where ticks do not overlap, nobody has two heirs.         *)
(***************************************************************************)
EXTENDS Governor, CityLife, FiniteSetTheorems, TLAPS

-----------------------------------------------------------------------------
(* THE GOVERNOR                                                            *)

Inv == TypeOK /\ GovernorInv

-----------------------------------------------------------------------------
(* Counting callers.                                                       *)

\* A set of callers is finite, so its size is a number.
LEMMA CallersCount ==
    ASSUME NEW S \in SUBSET Callers
    PROVE  IsFiniteSet(S) /\ Cardinality(S) \in Nat
<1>1. IsFiniteSet(Callers)
  BY CallersAssumption, FS_Union DEF Callers
<1>2. IsFiniteSet(S)
  BY <1>1, FS_Subset
<1> QED  BY <1>2, FS_CardinalityType

\* One caller more.
LEMMA CountPlus ==
    ASSUME NEW S \in SUBSET Callers, NEW c \in Callers
    PROVE  Cardinality(S \cup {c}) = Cardinality(S) + IF c \in S THEN 0 ELSE 1
<1>1. IsFiniteSet(S) /\ Cardinality(S) \in Nat
  BY CallersCount
<1> QED  BY <1>1, FS_AddElement

\* One caller less.
LEMMA CountMinus ==
    ASSUME NEW S \in SUBSET Callers, NEW c \in Callers
    PROVE  /\ Cardinality(S \ {c}) = Cardinality(S) - IF c \in S THEN 1 ELSE 0
           /\ c \in S => Cardinality(S) > 0
<1>1. IsFiniteSet(S) /\ Cardinality(S) \in Nat
  BY CallersCount
<1>2. c \in S => Cardinality(S) # 0
  BY <1>1, FS_EmptySet
<1> QED  BY <1>1, <1>2, FS_RemoveElement

-----------------------------------------------------------------------------
(* The semaphores of a batch.                                              *)

\* The four semaphores of a batch differ, by their first component.
LEMMA SemFacts ==
    ASSUME NEW j \in Jobs, NEW i \in 1..4
    PROVE  SemOf(j, i) \in Sems /\ SemOf(j, i)[1] = i
<1>1. SemOf(j, i) \in Sems
  BY DEF Sems
<1>2. i = 1 \/ i = 2 \/ i = 3 \/ i = 4
  OBVIOUS
<1>3. SemOf(j, i)[1] = i
  BY <1>2 DEF SemOf
<1> QED  BY <1>1, <1>3

\* Each semaphore starts with one of the four configured limits.
LEMMA LimitIsNat ==
    ASSUME NEW s \in Sems
    PROVE  Limit(s) \in Nat
<1>1. PICK j \in Jobs, i \in 1..4 : s = SemOf(j, i)
  BY DEF Sems
<1>2. s[1] = 1 \/ s[1] = 2 \/ s[1] = 3 \/ s[1] = 4
  BY <1>1, SemFacts
<1> QED  BY <1>2, LimitsAssumption DEF Limit

\* Only callers hold slots, and a batch inside holds its own.
LEMMA HoldersAreCallers ==
    ASSUME NEW s
    PROVE  /\ Holders(s) \in SUBSET Callers /\ Inside(s) \in SUBSET Callers
           /\ Inside(s) \subseteq Holders(s)
           /\ Cardinality(Holders(s)) \in Nat /\ Cardinality(Inside(s)) \in Nat
<1>1. Holders(s) \in SUBSET Callers /\ Inside(s) \in SUBSET Callers
  BY DEF Holders, Inside
<1> QED  BY <1>1, CallersCount DEF Inside

-----------------------------------------------------------------------------
(* How steps change who holds what.                                        *)

\* A caller that leaves holds nothing any more; the others keep theirs.
LEMMA LeaveChanges ==
    ASSUME TypeOK, NEW c \in Callers, Leave(c), NEW s \in Sems
    PROVE  /\ Holders(s)' = Holders(s) \ {c}
           /\ Inside(s)' = Inside(s) \ {c}
<1>1. ASSUME NEW d \in Callers, d # c
      PROVE  Held(d)' = Held(d) /\ level'[d] = level[d]
  BY <1>1 DEF TypeOK, Leave, Held
<1>2. Held(c)' = {}
  <2>1. level'[c] = 0
    BY DEF TypeOK, Leave
  <2> QED  BY <2>1 DEF Held
<1>3. Holders(s)' = Holders(s) \ {c}
  BY <1>1, <1>2 DEF Holders
<1>4. Inside(s)' = {d \in Holders(s) \ {c} : level'[d] = 4}
  BY <1>3 DEF Inside
<1>5. Holders(s) \subseteq Callers
  BY DEF Holders
<1>6. Inside(s)' = Inside(s) \ {c}
  BY <1>1, <1>4, <1>5 DEF Inside
<1> QED  BY <1>3, <1>6

\* A caller that takes its next slot holds that one too, and is inside its
\* four semaphores after the last.
LEMMA AcquireChanges ==
    ASSUME TypeOK, SlotsMatchPhase, NEW c \in Callers, AcquireSlot(c)
    PROVE  /\ jobOf[c] \in Jobs /\ level[c] \in 0..3
           /\ level' = [level EXCEPT ![c] = level[c] + 1]
           /\ NextSem(c) \in Sems /\ NextSem(c) \notin Held(c)
           /\ Held(c)' = Held(c) \cup {NextSem(c)}
           /\ \A d \in Callers \ {c} : Held(d)' = Held(d)
<1>1. jobOf[c] \in Jobs /\ level[c] \in 0..3
  BY DEF TypeOK, SlotsMatchPhase, AcquireSlot
<1>2. level' = [level EXCEPT ![c] = level[c] + 1] /\ jobOf' = jobOf
  BY DEF AcquireSlot
<1>3. NextSem(c) \in Sems /\ NextSem(c)[1] = level[c] + 1
  BY <1>1, SemFacts DEF NextSem
<1>4. \A i \in 1..level[c] : SemOf(jobOf[c], i)[1] = i
  BY <1>1, SemFacts
<1>5. NextSem(c) \notin Held(c)
  BY <1>1, <1>3, <1>4 DEF Held
<1>6. 1..(level[c] + 1) = 1..level[c] \cup {level[c] + 1}
  BY <1>1
<1>7. Held(c)' = {SemOf(jobOf[c], i) : i \in 1..(level[c] + 1)}
  BY <1>2 DEF TypeOK, Held
<1>8. Held(c)' = Held(c) \cup {NextSem(c)}
  BY <1>6, <1>7 DEF Held, NextSem
<1>9. \A d \in Callers \ {c} : Held(d)' = Held(d)
  BY <1>2 DEF TypeOK, Held
<1> QED  BY <1>1, <1>2, <1>3, <1>5, <1>8, <1>9

\* The steps that neither take nor give slots.
Quiet(c) == (\E j \in Jobs : Start(c, j)) \/ ReadJob(c) \/ Flush(c) \/ ToolCommit(c)

\* They change neither who holds a slot nor who is inside.
LEMMA QuietChanges ==
    ASSUME TypeOK, SlotsMatchPhase, NEW c \in Callers, Quiet(c), NEW s \in Sems
    PROVE  Holders(s)' = Holders(s) /\ Inside(s)' = Inside(s)
<1>1. level' = level
  BY DEF Quiet, Start, ReadJob, Flush, ToolCommit
<1>2. \A d \in Callers : jobOf'[d] = jobOf[d] \/ level[d] = 0
  BY DEF TypeOK, SlotsMatchPhase, Quiet, Start, ReadJob, Flush, ToolCommit
<1>3. \A d \in Callers : level[d] = 0 => Held(d) = {} /\ Held(d)' = {}
  BY <1>1 DEF Held
<1>4. \A d \in Callers : jobOf'[d] = jobOf[d] => Held(d)' = Held(d)
  BY <1>1 DEF Held
<1>5. \A d \in Callers : Held(d)' = Held(d)
  BY <1>2, <1>3, <1>4
<1>6. Holders(s)' = Holders(s)
  BY <1>5 DEF Holders
<1> QED  BY <1>1, <1>6 DEF Inside

\* The steps that end a batch: they give its slots back, or a fault loses
\* them.
Ends(c) == Finish(c) \/ Abort(c) \/ FlushFails(c) \/ CancelWait(c)

\* Which of the two happens, and that a release finds all slots or none.
LEMMA EndsChanges ==
    ASSUME TypeOK, SlotsMatchPhase, NEW c \in Callers, Ends(c)
    PROVE  /\ Leave(c)
           /\ \/ /\ Release(c)
                 /\ level[c] \in {0, 4}
                 /\ faults' \in {faults, faults + 1}
              \/ free' = free /\ active' = active /\ faults' = faults + 1
           /\ faults' \in 0..MaxFaults
<1>1. faults \in 0..MaxFaults /\ MaxFaults \in Nat
  BY FaultsAssumption DEF TypeOK
<1>2. CASE Finish(c)
  BY <1>1, <1>2 DEF Finish, SlotsMatchPhase
<1>3. CASE Abort(c)
  BY <1>1, <1>3 DEF Abort, SlotsMatchPhase
<1>4. CASE FlushFails(c)
  BY <1>1, <1>4 DEF FlushFails, SlotsMatchPhase
<1>5. CASE CancelWait(c)
  BY <1>1, <1>5 DEF CancelWait
<1> QED  BY <1>2, <1>3, <1>4, <1>5 DEF Ends

\* Every step of a caller is of one of the three kinds.
LEMMA StepKinds ==
    ASSUME Next
    PROVE  \E c \in Callers : Quiet(c) \/ AcquireSlot(c) \/ Ends(c)
BY DEF Next, Step, Fault, Quiet, Ends

-----------------------------------------------------------------------------
(* The invariant holds initially and every step keeps each of its parts.   *)

\* Nobody holds a slot at first and every semaphore is full.
LEMMA InitInv == Init => Inv
<1> SUFFICES ASSUME Init PROVE Inv
  OBVIOUS
<1>1. TypeOK
  <2>1. free \in [Sems -> Nat]
    BY LimitIsNat DEF Init
  <2>2. jobStatus \in [Jobs -> {"pending", "running"}]
    BY StatusAssumption DEF Init
  <2> QED  BY <2>1, <2>2, FaultsAssumption DEF Init, TypeOK, Phases
<1>2. SlotsMatchPhase
  BY DEF Init, SlotsMatchPhase
<1>3. ASSUME NEW s \in Sems PROVE Holders(s) = {} /\ Inside(s) = {}
  <2>1. \A c \in Callers : Held(c) = {}
    BY DEF Init, Held
  <2> QED  BY <2>1 DEF Holders, Inside
<1>4. Cardinality({}) = 0
  BY FS_EmptySet
<1>5. SlotsAccounted
  BY <1>3, <1>4, LimitIsNat DEF SlotsAccounted, Init
<1>6. CountersTruthful
  BY <1>3, <1>4 DEF CountersTruthful, Init
<1> QED  BY <1>1, <1>2, <1>5, <1>6 DEF Inv, GovernorInv

\* Every step keeps the slots of a caller in agreement with its phase.
LEMMA PhaseStep ==
    ASSUME TypeOK, SlotsMatchPhase, NEW c \in Callers,
           Quiet(c) \/ AcquireSlot(c) \/ Ends(c)
    PROVE  SlotsMatchPhase'
<1> USE DEF SlotsMatchPhase
<1>1. CASE \E j \in Jobs : Start(c, j)
  BY <1>1, JobsAssumption DEF TypeOK, Start
<1>2. CASE ReadJob(c)
  BY <1>2, CallersAssumption DEF TypeOK, ReadJob, Onward, Callers
<1>3. CASE Flush(c)
  BY <1>3, CallersAssumption DEF TypeOK, Flush, Onward, Callers
<1>4. CASE ToolCommit(c)
  BY <1>4 DEF TypeOK, ToolCommit
<1>5. CASE AcquireSlot(c)
  BY <1>5 DEF TypeOK, AcquireSlot
<1>6. CASE Ends(c)
  <2>1. Leave(c)
    BY <1>6, EndsChanges
  <2> QED  BY <2>1 DEF TypeOK, Leave
<1> QED  BY <1>1, <1>2, <1>3, <1>4, <1>5, <1>6 DEF Quiet

\* Every step keeps the types; a semaphore is only taken above zero.
LEMMA TypeStep ==
    ASSUME TypeOK, SlotsMatchPhase, NEW c \in Callers,
           Quiet(c) \/ AcquireSlot(c) \/ Ends(c)
    PROVE  TypeOK'
<1>1. CASE Quiet(c)
  <2> USE DEF TypeOK, Phases
  <2>1. CASE \E j \in Jobs : Start(c, j)
    BY <2>1 DEF Start
  <2>2. CASE ReadJob(c)
    BY <2>2 DEF ReadJob, Onward
  <2>3. CASE Flush(c)
    BY <2>3 DEF Flush, Onward
  <2>4. CASE ToolCommit(c)
    BY <2>4 DEF ToolCommit
  <2> QED  BY <1>1, <2>1, <2>2, <2>3, <2>4 DEF Quiet
<1>2. CASE AcquireSlot(c)
  <2>1. level[c] \in 0..3 /\ NextSem(c) \in Sems
        /\ level' = [level EXCEPT ![c] = level[c] + 1]
    BY <1>2, AcquireChanges
  <2>2. free' \in [Sems -> Nat]
    BY <1>2, <2>1 DEF TypeOK, AcquireSlot, SlotFree
  <2>3. active' \in [Sems -> Nat]
    BY <1>2 DEF TypeOK, AcquireSlot
  <2>4. level' \in [Callers -> 0..4]
    BY <2>1 DEF TypeOK
  <2>5. phase' \in [Callers -> Phases]
    BY <1>2 DEF TypeOK, AcquireSlot, Phases
  <2> QED  BY <1>2, <2>2, <2>3, <2>4, <2>5 DEF TypeOK, AcquireSlot
<1>3. CASE Ends(c)
  <2>1. /\ Leave(c)
        /\ Release(c) \/ (free' = free /\ active' = active)
        /\ faults' \in 0..MaxFaults
    BY <1>3, EndsChanges
  <2>2. free' \in [Sems -> Nat] /\ active' \in [Sems -> Nat]
    BY <2>1 DEF TypeOK, Release
  <2>3. jobStatus' \in [Jobs -> {"pending", "running"}]
    BY <1>3 DEF TypeOK, Ends, Finish, Abort, FlushFails, CancelWait, RollbackRow
  <2>4. rowLock' = [j \in Jobs |-> IF rowLock[j] = c THEN NoCaller ELSE rowLock[j]]
    BY <1>3 DEF Ends, Finish, Abort, FlushFails, CancelWait, RollbackRow
  <2>5. rowLock' \in [Jobs -> Callers \cup {NoCaller}]
    BY <2>4 DEF TypeOK
  <2> QED  BY <2>1, <2>2, <2>3, <2>5 DEF TypeOK, Leave, Phases
<1> QED  BY <1>1, <1>2, <1>3

\* Every step keeps the sum of free and held slots, up to the faults.
LEMMA AccountStep ==
    ASSUME TypeOK, SlotsMatchPhase, SlotsAccounted, NEW c \in Callers,
           Quiet(c) \/ AcquireSlot(c) \/ Ends(c)
    PROVE  SlotsAccounted'
<1> SUFFICES ASSUME NEW s \in Sems
             PROVE  (/\ free[s] + Cardinality(Holders(s)) <= Limit(s)
                     /\ free[s] + Cardinality(Holders(s)) + faults >= Limit(s))'
  BY DEF SlotsAccounted
<1>1. /\ free[s] + Cardinality(Holders(s)) <= Limit(s)
      /\ free[s] + Cardinality(Holders(s)) + faults >= Limit(s)
      /\ free[s] \in Nat /\ faults \in Nat /\ Limit(s) \in Nat
      /\ Cardinality(Holders(s)) \in Nat /\ Holders(s) \in SUBSET Callers
  BY LimitIsNat, HoldersAreCallers, FaultsAssumption DEF SlotsAccounted, TypeOK
<1>2. CASE Quiet(c)
  <2>1. Holders(s)' = Holders(s)
    BY <1>2, QuietChanges
  <2>2. free' = free /\ faults' = faults
    BY <1>2 DEF Quiet, Start, ReadJob, Flush, ToolCommit
  <2> QED  BY <1>1, <2>1, <2>2
<1>3. CASE AcquireSlot(c)
  <2>1. /\ NextSem(c) \in Sems /\ NextSem(c) \notin Held(c)
        /\ Held(c)' = Held(c) \cup {NextSem(c)}
        /\ \A d \in Callers \ {c} : Held(d)' = Held(d)
    BY <1>3, AcquireChanges
  <2>2. /\ free' = [free EXCEPT ![NextSem(c)] = free[NextSem(c)] - 1]
        /\ faults' = faults
    BY <1>3 DEF AcquireSlot
  <2>3. CASE s = NextSem(c)
    <3>1. Holders(s)' = Holders(s) \cup {c} /\ c \notin Holders(s)
      BY <2>1, <2>3 DEF Holders
    <3>2. Cardinality(Holders(s)') = Cardinality(Holders(s)) + 1
      BY <1>1, <3>1, CountPlus
    <3>3. free'[s] = free[s] - 1
      BY <2>2, <2>3 DEF TypeOK
    <3> QED  BY <1>1, <2>2, <3>2, <3>3
  <2>4. CASE s # NextSem(c)
    <3>1. Holders(s)' = Holders(s)
      BY <2>1, <2>4 DEF Holders
    <3>2. free'[s] = free[s]
      BY <2>2, <2>4 DEF TypeOK
    <3> QED  BY <1>1, <2>2, <3>1, <3>2
  <2> QED  BY <2>3, <2>4
<1>4. CASE Ends(c)
  <2>1. /\ Leave(c)
        /\ \/ Release(c) /\ faults' \in {faults, faults + 1}
           \/ free' = free /\ faults' = faults + 1
    BY <1>4, EndsChanges
  <2>2. Holders(s)' = Holders(s) \ {c}
    BY <2>1, LeaveChanges
  <2>3. Cardinality(Holders(s)') =
            Cardinality(Holders(s)) - IF c \in Holders(s) THEN 1 ELSE 0
    BY <1>1, <2>2, CountMinus
  <2>4. c \in Holders(s) <=> s \in Held(c)
    BY DEF Holders
  <2>5. CASE Release(c) /\ faults' \in {faults, faults + 1}
    <3>1. free'[s] = free[s] + IF s \in Held(c) THEN 1 ELSE 0
      BY <2>5 DEF Release
    <3> QED  BY <1>1, <2>3, <2>4, <2>5, <3>1
  <2>6. CASE free' = free /\ faults' = faults + 1
    BY <1>1, <2>3, <2>6
  <2> QED  BY <2>1, <2>5, <2>6
<1> QED  BY <1>2, <1>3, <1>4

\* Every step keeps the counters in agreement with the batches inside.
LEMMA CounterStep ==
    ASSUME TypeOK, SlotsMatchPhase, CountersTruthful, NEW c \in Callers,
           Quiet(c) \/ AcquireSlot(c) \/ Ends(c)
    PROVE  CountersTruthful'
<1> SUFFICES ASSUME NEW s \in Sems
             PROVE  (/\ active[s] >= Cardinality(Inside(s))
                     /\ active[s] <= Cardinality(Inside(s)) + faults)'
  BY DEF CountersTruthful
<1>1. /\ active[s] >= Cardinality(Inside(s))
      /\ active[s] <= Cardinality(Inside(s)) + faults
      /\ active[s] \in Nat /\ faults \in Nat
      /\ Cardinality(Inside(s)) \in Nat /\ Inside(s) \in SUBSET Callers
  BY HoldersAreCallers, FaultsAssumption DEF CountersTruthful, TypeOK
<1>2. CASE Quiet(c)
  <2>1. Inside(s)' = Inside(s)
    BY <1>2, QuietChanges
  <2>2. active' = active /\ faults' = faults
    BY <1>2 DEF Quiet, Start, ReadJob, Flush, ToolCommit
  <2> QED  BY <1>1, <2>1, <2>2
<1>3. CASE AcquireSlot(c)
  <2>1. /\ level[c] \in 0..3
        /\ level' = [level EXCEPT ![c] = level[c] + 1]
        /\ Held(c)' = Held(c) \cup {NextSem(c)}
        /\ \A d \in Callers \ {c} : Held(d)' = Held(d)
    BY <1>3, AcquireChanges
  <2>2. /\ \A d \in Callers \ {c} : level'[d] = level[d]
        /\ level'[c] = level[c] + 1
    BY <2>1 DEF TypeOK
  <2>3. faults' = faults
    BY <1>3 DEF AcquireSlot
  <2>4. CASE level[c] = 3 /\ s \in Held(c)'
    <3>1. Inside(s)' = Inside(s) \cup {c} /\ c \notin Inside(s)
      BY <2>1, <2>2, <2>4 DEF Inside, Holders
    <3>2. Cardinality(Inside(s)') = Cardinality(Inside(s)) + 1
      BY <1>1, <3>1, CountPlus
    <3>3. active'[s] = active[s] + 1
      BY <1>3, <2>1, <2>4 DEF AcquireSlot
    <3> QED  BY <1>1, <2>3, <3>2, <3>3
  <2>5. CASE ~(level[c] = 3 /\ s \in Held(c)')
    <3>1. c \notin Inside(s) /\ c \notin Inside(s)'
      BY <2>1, <2>2, <2>5 DEF Inside, Holders
    <3>2. \A d \in Callers \ {c} : d \in Inside(s)' <=> d \in Inside(s)
      BY <2>1, <2>2 DEF Inside, Holders
    <3>3. Inside(s)' = Inside(s)
      BY <3>1, <3>2 DEF Inside, Holders
    <3>4. active'[s] = active[s]
      BY <1>1, <1>3, <2>1, <2>5 DEF AcquireSlot
    <3> QED  BY <1>1, <2>3, <3>3, <3>4
  <2> QED  BY <2>4, <2>5
<1>4. CASE Ends(c)
  <2>1. /\ Leave(c)
        /\ \/ /\ Release(c)
              /\ level[c] \in {0, 4}
              /\ faults' \in {faults, faults + 1}
           \/ active' = active /\ faults' = faults + 1
    BY <1>4, EndsChanges
  <2>2. Inside(s)' = Inside(s) \ {c}
    BY <2>1, LeaveChanges
  <2>3. /\ Cardinality(Inside(s)') =
              Cardinality(Inside(s)) - IF c \in Inside(s) THEN 1 ELSE 0
        /\ c \in Inside(s) => Cardinality(Inside(s)) > 0
    BY <1>1, <2>2, CountMinus
  <2>4. CASE Release(c) /\ level[c] \in {0, 4} /\ faults' \in {faults, faults + 1}
    <3>1. level[c] = 0 => Held(c) = {}
      BY DEF Held
    <3>2. s \in Held(c) <=> c \in Inside(s)
      BY <2>4, <3>1 DEF Inside, Holders
    <3>3. active'[s] = IF s \in Held(c) /\ active[s] > 0
                       THEN active[s] - 1 ELSE active[s]
      BY <2>4 DEF Release
    <3> QED  BY <1>1, <2>3, <2>4, <3>2, <3>3
  <2>5. CASE active' = active /\ faults' = faults + 1
    BY <1>1, <2>3, <2>5
  <2> QED  BY <2>1, <2>4, <2>5
<1> QED  BY <1>2, <1>3, <1>4

\* The invariant is inductive.
LEMMA InvStep == Inv /\ [Next]_vars => Inv'
<1> SUFFICES ASSUME Inv, [Next]_vars PROVE Inv'
  OBVIOUS
<1>1. TypeOK /\ SlotsMatchPhase /\ SlotsAccounted /\ CountersTruthful
  BY DEF Inv, GovernorInv
<1>2. CASE Next
  <2>1. PICK c \in Callers : Quiet(c) \/ AcquireSlot(c) \/ Ends(c)
    BY <1>2, StepKinds
  <2>2. TypeOK' /\ SlotsMatchPhase'
    BY <1>1, <2>1, TypeStep, PhaseStep
  <2>3. SlotsAccounted' /\ CountersTruthful'
    BY <1>1, <2>1, AccountStep, CounterStep
  <2> QED  BY <2>2, <2>3 DEF Inv, GovernorInv
<1>3. CASE UNCHANGED vars
  BY <1>1, <1>3 DEF vars, Inv, GovernorInv, TypeOK, SlotsMatchPhase,
     SlotsAccounted, CountersTruthful, Holders, Inside, Held
<1> QED  BY <1>2, <1>3

\* A batch that executes tools holds the slots of its four semaphores, so
\* the accounting of slots bounds the batches.
LEMMA InvImpliesCaps == Inv => CapsRespected
<1> SUFFICES ASSUME Inv, NEW s \in Sems
             PROVE  Cardinality({c \in Callers :
                                    /\ phase[c] = "tools"
                                    /\ \E i \in 1..4 : SemOf(jobOf[c], i) = s})
                        <= Limit(s)
  BY DEF CapsRespected
<1> DEFINE T == {c \in Callers : /\ phase[c] = "tools"
                                 /\ \E i \in 1..4 : SemOf(jobOf[c], i) = s}
<1>1. T \subseteq Holders(s)
  BY DEF Inv, GovernorInv, SlotsMatchPhase, Holders, Held
<1>2. IsFiniteSet(Holders(s)) /\ Cardinality(Holders(s)) \in Nat
  BY HoldersAreCallers, CallersCount
<1>3. IsFiniteSet(T) /\ Cardinality(T) \in Nat /\ T \subseteq Callers
  BY CallersCount
<1>4. Cardinality(T) <= Cardinality(Holders(s))
  BY <1>1, <1>2, FS_Subset
<1>5. free[s] \in Nat /\ Limit(s) \in Nat
      /\ free[s] + Cardinality(Holders(s)) <= Limit(s)
  BY LimitIsNat DEF Inv, TypeOK, GovernorInv, SlotsAccounted
<1>6. Cardinality(T) <= Limit(s)
  BY <1>2, <1>3, <1>4, <1>5
<1> QED  BY <1>6

-----------------------------------------------------------------------------
(* Theorems.                                                               *)

\* The inductive invariant: the types, the slots that go with each phase of
\* a caller, the accounting of slots and of the counters.
THEOREM GovernorCorrect == Spec => []Inv
BY InitInv, InvStep, PTL DEF Spec

\* Every variable of the governor keeps its type, in particular no semaphore
\* goes below zero.
THEOREM GovernorTypeCorrect == Spec => []TypeOK
<1>1. Inv => TypeOK
  BY DEF Inv
<1> QED  BY <1>1, GovernorCorrect, PTL

\* For all limits and any number of callers, a failed batch or cancelled wait
\* costs at most one slot of a semaphore, and nothing else does.
THEOREM SlotsAreAccountedFor == Spec => []SlotsAccounted
<1>1. Inv => SlotsAccounted
  BY DEF Inv, GovernorInv
<1> QED  BY <1>1, GovernorCorrect, PTL

\* For all limits and any number of callers, the batches that execute never
\* exceed max_global, max_per_family, max_per_district and max_per_job.
THEOREM CapsAreRespected == Spec => []CapsRespected
BY InvImpliesCaps, GovernorCorrect, PTL

\* The counters of snapshot are the executing batches, but for failed ones.
THEOREM CountersAreTruthful == Spec => []CountersTruthful
<1>1. Inv => CountersTruthful
  BY DEF Inv, GovernorInv
<1> QED  BY <1>1, GovernorCorrect, PTL

-----------------------------------------------------------------------------
(* LIFE TICKS                                                              *)

\* The values that stand for nobody are different from everybody.
LEMMA Nulls ==
    /\ Committed \notin Ticks /\ Deleted \notin Ticks /\ Committed # Deleted
    /\ NoFamily \notin Families
    /\ Limits \subseteq Nat
    /\ ForceAge \in Nat /\ ForceAge # 0
BY FamiliesAssumption, TicksAssumption, AgesAssumption DEF Committed, Deleted

\* The initial states, where no row exists, satisfy the invariant.
LEMMA LifeInitInv == LifeInit => LifeTypeOK /\ LifeInv
<1> SUFFICES ASSUME LifeInit PROVE LifeTypeOK /\ LifeInv
  OBVIOUS
<1>1. LifeTypeOK
  BY DEF LifeInit, LifeTypeOK, NoAge
<1>2. \A m \in Members : fam[m] = NoFamily /\ by[m] = Committed
  BY DEF LifeInit
<1>3. LifeInv
  BY <1>2, Nulls DEF LifeInit, LifeInv, UncommittedRows, DoomedAreStored, BuriedHaveHeirs,
                     DeathPassesLegacy, FamilyLives, Founded, Stored
<1> QED BY <1>1, <1>3

-----------------------------------------------------------------------------
(* Every step keeps the types.                                             *)

\* An INSERT stores values of the right types.
LEMMA InsertType ==
    ASSUME LifeTypeOK,
           NEW h \in Members, NEW f \in Families, NEW r \in {"parent", "child"},
           NEW owner \in Ticks \cup {Committed}, NEW a \in Members \cup {NoMember},
           Insert(h, f, r, owner, a),
           UNCHANGED <<todo, limit, touched, flushed, plan, doomed, overlapped>>,
           buried' \in [Ticks -> SUBSET Members]
    PROVE  LifeTypeOK'
BY DEF LifeTypeOK, Insert

\* The end of a tick leaves it as it was before its start.
LEMMA EndType ==
    ASSUME LifeTypeOK, NEW w \in Ticks, EndTick(w)
    PROVE  /\ todo' \in [Ticks -> SUBSET Families]
           /\ limit' \in [Ticks -> [Families -> Limits \cup {NoAge}]]
           /\ touched' \in [Ticks -> SUBSET Families]
           /\ flushed' \in [Ticks -> SUBSET Families]
           /\ plan' \in [Ticks -> [Members -> Nat]]
           /\ doomed' \in [Ticks -> SUBSET Members]
           /\ buried' \in [Ticks -> SUBSET Members]
BY DEF LifeTypeOK, EndTick, NoAge

\* The rows that remain after a rollback have the types they had.
LEMMA DropType ==
    ASSUME LifeTypeOK, NEW w \in Ticks, DropInserts(w), EndTick(w), UNCHANGED overlapped
    PROVE  LifeTypeOK'
<1>1. /\ fam' \in [Members -> Families \cup {NoFamily}]
      /\ by' \in [Members -> Ticks \cup {Committed, Deleted}]
      /\ role' \in [Members -> {"parent", "child"}]
      /\ alive' \in [Members -> BOOLEAN]
      /\ heirOf' \in [Members -> Members \cup {NoMember}]
  BY DEF LifeTypeOK, DropInserts
<1> QED BY <1>1, EndType DEF LifeTypeOK, DropInserts

\* Type correctness of each action.
LEMMA LifeTypeStep == LifeTypeOK /\ [LifeNext]_lifeVars => LifeTypeOK'
<1> SUFFICES ASSUME LifeTypeOK, [LifeNext]_lifeVars PROVE LifeTypeOK'
  OBVIOUS
<1>1. ASSUME NEW f \in Families, NEW m \in Members, CreateFamily(f, m) \/ SpawnChild(f, m)
      PROVE  LifeTypeOK'
  BY <1>1, InsertType DEF CreateFamily, SpawnChild, LifeTypeOK, tick
<1>2. ASSUME NEW m \in Members, DeleteAgent(m) PROVE LifeTypeOK'
  BY <1>2 DEF DeleteAgent, LifeTypeOK, tick
<1>3. ASSUME NEW f \in Families, NEW n \in Limits, UpdateFamilyPolicy(f, n) PROVE LifeTypeOK'
  BY <1>3 DEF UpdateFamilyPolicy, LifeTypeOK, tick
<1>4. ASSUME NEW w \in Ticks, NEW S \in SUBSET Families, StartTick(w, S) PROVE LifeTypeOK'
  BY <1>4 DEF StartTick, LifeTypeOK, rows
<1>5. ASSUME NEW w \in Ticks, NEW f \in Families, ReadFamily(w, f) PROVE LifeTypeOK'
  <2>1. plan' \in [Ticks -> [Members -> Nat]]
    BY <1>5, Nulls DEF ReadFamily, LifeTypeOK
  <2>2. doomed' \in [Ticks -> SUBSET Members]
    BY <1>5 DEF ReadFamily, LifeTypeOK, Ageing
  <2> QED BY <1>5, <2>1, <2>2 DEF ReadFamily, LifeTypeOK, rows
<1>6. ASSUME NEW w \in Ticks, NEW f \in Families, AgeMembers(w, f) PROVE LifeTypeOK'
  BY <1>6 DEF AgeMembers, LifeTypeOK, rows
<1>7. ASSUME NEW w \in Ticks, NEW m \in Members, NEW h \in Members, Bury(w, m, h)
      PROVE  LifeTypeOK'
  <2>1. fam[m] \in Families /\ role[m] \in {"parent", "child"}
    BY <1>7 DEF Bury, Pending, LifeTypeOK
  <2>2. buried' \in [Ticks -> SUBSET Members]
    BY <1>7 DEF Bury, LifeTypeOK
  <2> QED BY <1>7, <2>1, <2>2, InsertType DEF Bury
<1>8. ASSUME NEW w \in Ticks, CommitTick(w) PROVE LifeTypeOK'
  <2>1. /\ by' \in [Members -> Ticks \cup {Committed, Deleted}]
        /\ alive' \in [Members -> BOOLEAN]
        /\ age' \in [Members -> Nat]
    BY <1>8 DEF CommitTick, LifeTypeOK
  <2> QED BY <1>8, <2>1, EndType DEF CommitTick, LifeTypeOK
<1>9. ASSUME NEW w \in Ticks, RefuseTick(w) \/ AbandonTick(w) PROVE LifeTypeOK'
  BY <1>9, DropType DEF RefuseTick, AbandonTick
<1>10. CASE UNCHANGED lifeVars
  BY <1>10 DEF LifeTypeOK, lifeVars, rows, tick
<1> QED BY <1>1, <1>2, <1>3, <1>4, <1>5, <1>6, <1>7, <1>8, <1>9, <1>10 DEF LifeNext, LifeTick

-----------------------------------------------------------------------------
(* Steps that leave the rows of the members alone.                         *)

\* A step that changes no row and buries nobody has to keep one part of the
\* invariant only, the one about what a tick has read and locked.
LEMMA QuietInv ==
    ASSUME LifeInv, UNCHANGED <<fam, by, role, alive, heirOf, buried>>, DoomedAreStored'
    PROVE  LifeInv'
<1>1. UncommittedRows'
  BY DEF LifeInv, UncommittedRows, Founded
<1>2. BuriedHaveHeirs'
  BY DEF LifeInv, BuriedHaveHeirs
<1>3. DeathPassesLegacy'
  BY DEF LifeInv, DeathPassesLegacy, Stored
<1>4. FamilyLives'
  BY DEF LifeInv, FamilyLives, Founded
<1> QED BY <1>1, <1>2, <1>3, <1>4 DEF LifeInv

\* Reading a family dooms stored members only, and gives each of them an age.
LEMMA ReadInv ==
    ASSUME LifeTypeOK, LifeInv, NEW w \in Ticks, NEW f \in Families, ReadFamily(w, f)
    PROVE  LifeInv'
<1>1. UNCHANGED <<fam, by, role, alive, heirOf, buried, flushed>>
  BY DEF ReadFamily, rows
<1>2. \A v \in Ticks : \A m \in doomed'[v] : m \in doomed[v] \/ (v = w /\ m \in Ageing(f))
  BY DEF ReadFamily, LifeTypeOK
<1>3. \A v \in Ticks : \A m \in Members : plan[v][m] # NoAge => plan'[v][m] # NoAge
  BY Nulls DEF ReadFamily, LifeTypeOK, NoAge
<1>4. \A m \in Ageing(f) : Stored(m) /\ m \in Members /\ plan'[w][m] # NoAge
  BY Nulls DEF ReadFamily, Ageing, LifeTypeOK, NoAge
<1>5. DoomedAreStored'
  <2> SUFFICES ASSUME NEW v \in Ticks, NEW m \in doomed'[v] \cup buried'[v]
               PROVE  /\ fam'[m] # NoFamily
                      /\ by'[m] \in {Committed, Deleted}
                      /\ plan'[v][m] # NoAge
                      /\ (m \in buried'[v] => fam'[m] \in flushed'[v])
                      /\ (fam'[m] \in flushed'[v] => Stored(m)')
    BY DEF DoomedAreStored
  <2>1. CASE m \in doomed[v] \cup buried[v]
    <3>1. m \in Members
      BY <2>1 DEF LifeTypeOK
    <3> QED BY <2>1, <3>1, <1>1, <1>3 DEF LifeInv, DoomedAreStored, Stored
  <2>2. CASE v = w /\ m \in Ageing(f) /\ m \notin buried[v]
    BY <2>2, <1>1, <1>4 DEF Stored
  <2> QED BY <2>1, <2>2, <1>1, <1>2
<1> QED BY <1>1, <1>5, QuietInv

\* Ageing a family locks rows that are still there.
LEMMA AgeInv ==
    ASSUME LifeTypeOK, LifeInv, NEW w \in Ticks, NEW f \in Families, AgeMembers(w, f)
    PROVE  LifeInv'
<1>1. UNCHANGED <<fam, by, role, alive, heirOf, buried, doomed, plan>>
  BY DEF AgeMembers, rows
<1>2. \A v \in Ticks : flushed[v] \subseteq flushed'[v]
  BY DEF AgeMembers, LifeTypeOK
<1>3. \A v \in Ticks : \A g \in flushed'[v] : g \in flushed[v] \/ (v = w /\ g = f)
  BY DEF AgeMembers, LifeTypeOK
<1>4. DoomedAreStored'
  <2> SUFFICES ASSUME NEW v \in Ticks, NEW m \in doomed[v] \cup buried[v]
               PROVE  /\ fam[m] # NoFamily
                      /\ by[m] \in {Committed, Deleted}
                      /\ plan[v][m] # NoAge
                      /\ (m \in buried[v] => fam[m] \in flushed'[v])
                      /\ (fam[m] \in flushed'[v] => Stored(m))
    BY <1>1 DEF DoomedAreStored, Stored
  <2>1. /\ fam[m] # NoFamily
        /\ by[m] \in {Committed, Deleted}
        /\ plan[v][m] # NoAge
        /\ (m \in buried[v] => fam[m] \in flushed[v])
        /\ (fam[m] \in flushed[v] => Stored(m))
    BY DEF LifeInv, DoomedAreStored
  <2>2. v = w /\ fam[m] = f => Stored(m)
    BY <2>1 DEF AgeMembers, Planned, LifeTypeOK
  <2> QED BY <2>1, <2>2, <1>2, <1>3
<1> QED BY <1>1, <1>4, QuietInv

-----------------------------------------------------------------------------
(* Births.                                                                 *)

\* An insert, of a committed row or of an heir in the transaction of a tick,
\* keeps what holds of the rows that were there.
LEMMA InsertInv ==
    ASSUME LifeTypeOK, LifeInv,
           NEW h \in Members, NEW f \in Families, NEW r \in {"parent", "child"},
           NEW owner \in Ticks \cup {Committed}, NEW a \in Members \cup {NoMember},
           Insert(h, f, r, owner, a),
           Founded(f) \/ (owner = Committed /\ r = "parent"),
           UNCHANGED <<doomed, plan, flushed>>,
           \A w \in Ticks : \A m \in buried'[w] :
               \/ m \in buried[w]
               \/ /\ w = owner /\ m = a /\ m \in doomed[w]
                  /\ fam[m] = f /\ role[m] = r /\ f \in flushed[w]
    PROVE  LifeInv'
<1> USE Nulls
<1>1. fam[h] = NoFamily /\ by[h] = Committed
  BY DEF Insert, LifeInv, UncommittedRows
<1>2. \A m \in Members : m # h =>
          /\ fam'[m] = fam[m] /\ by'[m] = by[m] /\ role'[m] = role[m]
          /\ alive'[m] = alive[m] /\ heirOf'[m] = heirOf[m]
  BY DEF Insert, LifeTypeOK
<1>3. /\ fam'[h] = f /\ by'[h] = owner /\ role'[h] = r
      /\ alive'[h] = TRUE /\ heirOf'[h] = a
  BY DEF Insert, LifeTypeOK
<1>4. \A g \in Families : Founded(g) =>
          \E k \in Members : fam'[k] = g /\ by'[k] \in {Committed, Deleted}
  BY <1>1, <1>2 DEF Founded
<1>5. \A m \in Members : fam[m] # NoFamily => m # h
  BY <1>1
<1>6. UncommittedRows'
  <2> SUFFICES ASSUME NEW m \in Members
               PROVE  /\ by'[m] # Committed => fam'[m] # NoFamily
                      /\ by'[m] \in Ticks => /\ alive'[m]
                                         /\ \E k \in Members : /\ fam'[k] = fam'[m]
                                                               /\ by'[k] \in {Committed, Deleted}
    BY DEF UncommittedRows, Founded
  <2>1. CASE m = h
    <3>1. owner \in Ticks => Founded(f)
      OBVIOUS
    <3> QED BY <2>1, <3>1, <1>3, <1>4
  <2>2. CASE m # h
    <3>1. /\ by[m] # Committed => fam[m] # NoFamily
          /\ by[m] \in Ticks => alive[m] /\ Founded(fam[m])
      BY DEF LifeInv, UncommittedRows
    <3>2. by[m] \in Ticks => fam[m] \in Families
      BY <3>1 DEF LifeTypeOK
    <3> QED BY <2>2, <3>1, <3>2, <1>2, <1>4
  <2> QED BY <2>1, <2>2
<1>7. DoomedAreStored'
  <2> SUFFICES ASSUME NEW w \in Ticks, NEW m \in doomed[w] \cup buried'[w]
               PROVE  /\ fam'[m] # NoFamily
                      /\ by'[m] \in {Committed, Deleted}
                      /\ plan[w][m] # NoAge
                      /\ (m \in buried'[w] => fam'[m] \in flushed[w])
                      /\ (fam'[m] \in flushed[w] => Stored(m)')
    BY DEF DoomedAreStored
  <2>1. m \in doomed[w] \cup buried[w]
    OBVIOUS
  <2>2. /\ fam[m] # NoFamily
        /\ by[m] \in {Committed, Deleted}
        /\ plan[w][m] # NoAge
        /\ (m \in buried[w] => fam[m] \in flushed[w])
        /\ (fam[m] \in flushed[w] => Stored(m))
    BY <2>1 DEF LifeInv, DoomedAreStored
  <2>3. m \in Members /\ m # h
    BY <2>1, <2>2, <1>5 DEF LifeTypeOK
  <2>4. m \in buried'[w] => fam[m] \in flushed[w]
    BY <2>2
  <2> QED BY <2>2, <2>3, <2>4, <1>2 DEF Stored
<1>8. BuriedHaveHeirs'
  <2> SUFFICES ASSUME NEW w \in Ticks, NEW m \in buried'[w]
               PROVE  \E k \in Members : /\ by'[k] = w /\ heirOf'[k] = m
                                         /\ fam'[k] = fam'[m] /\ role'[k] = role'[m]
    BY DEF BuriedHaveHeirs
  <2>1. m \in Members /\ m # h
    BY <1>5 DEF LifeInv, DoomedAreStored, LifeTypeOK
  <2>2. CASE m \in buried[w]
    <3>1. PICK k \in Members : /\ by[k] = w /\ heirOf[k] = m
                               /\ fam[k] = fam[m] /\ role[k] = role[m]
      BY <2>2 DEF LifeInv, BuriedHaveHeirs
    <3>2. k # h
      BY <3>1, <1>1
    <3> QED BY <2>1, <3>1, <3>2, <1>2
  <2>3. CASE w = owner /\ m = a /\ fam[m] = f /\ role[m] = r
    BY <2>1, <2>3, <1>2, <1>3
  <2> QED BY <2>2, <2>3
<1>9. DeathPassesLegacy'
  <2> SUFFICES ASSUME NEW m \in Members, Stored(m)', ~alive'[m]
               PROVE  \E k \in Members : /\ by'[k] \in {Committed, Deleted} /\ heirOf'[k] = m
                                         /\ fam'[k] = fam'[m] /\ role'[k] = role'[m]
    BY DEF DeathPassesLegacy
  <2>1. m # h /\ Stored(m) /\ ~alive[m]
    BY <1>2, <1>3 DEF Stored
  <2>2. PICK k \in Members : /\ by[k] \in {Committed, Deleted} /\ heirOf[k] = m
                             /\ fam[k] = fam[m] /\ role[k] = role[m]
    BY <2>1 DEF LifeInv, DeathPassesLegacy
  <2>3. k # h
    BY <2>1, <2>2, <1>5 DEF Stored
  <2> QED BY <2>1, <2>2, <2>3, <1>2
<1>10. FamilyLives'
  <2> SUFFICES ASSUME NEW g \in Families, Founded(g)'
               PROVE  \E p \in Members : /\ by'[p] \in {Committed, Deleted}
                                         /\ fam'[p] = g /\ alive'[p] /\ role'[p] = "parent"
    BY DEF FamilyLives
  <2>1. CASE Founded(g)
    <3>1. PICK p \in Members : /\ by[p] \in {Committed, Deleted}
                               /\ fam[p] = g /\ alive[p] /\ role[p] = "parent"
      BY <2>1 DEF LifeInv, FamilyLives
    <3> QED BY <3>1, <1>1, <1>2
  <2>2. CASE ~Founded(g)
    <3>1. PICK m \in Members : fam'[m] = g /\ by'[m] \in {Committed, Deleted}
      BY DEF Founded
    <3>2. m = h
      BY <3>1, <2>2, <1>2 DEF Founded
    <3> QED BY <3>1, <3>2, <2>2, <1>3
  <2> QED BY <2>1, <2>2
<1> QED BY <1>6, <1>7, <1>8, <1>9, <1>10 DEF LifeInv

-----------------------------------------------------------------------------
(* Deletion of an agent.                                                   *)

\* The deleted row stays as history; a row that a tick has aged is locked, and
\* is not the one that is deleted.
LEMMA DeleteInv ==
    ASSUME LifeTypeOK, LifeInv, NEW d \in Members, DeleteAgent(d)
    PROVE  LifeInv'
<1> USE Nulls
<1>1. UNCHANGED <<fam, role, alive, doomed, buried, plan, flushed>>
  BY DEF DeleteAgent, tick
<1>2. /\ by[d] = Committed /\ fam[d] # NoFamily /\ by'[d] = Deleted
      /\ \A m \in Members : m # d => by'[m] = by[m]
  BY DEF DeleteAgent, Stored, LifeTypeOK
<1>3. /\ \A m \in Members : by[m] \in {Committed, Deleted} <=> by'[m] \in {Committed, Deleted}
      /\ \A m \in Members : by[m] \in Ticks <=> by'[m] \in Ticks
  BY <1>2
<1>4. \A m \in Members : heirOf[m] # d => heirOf'[m] = heirOf[m]
  BY DEF DeleteAgent, LifeTypeOK
<1>5. \A m \in Members : by[m] \in Ticks => heirOf'[m] = heirOf[m] /\ by'[m] = by[m]
  BY <1>2 DEF DeleteAgent, LifeTypeOK, Stored
<1>6. UncommittedRows'
  BY <1>1, <1>2, <1>3 DEF LifeInv, UncommittedRows, Founded
<1>7. DoomedAreStored'
  <2> SUFFICES ASSUME NEW w \in Ticks, NEW m \in doomed[w] \cup buried[w]
               PROVE  /\ fam[m] # NoFamily
                      /\ by'[m] \in {Committed, Deleted}
                      /\ plan[w][m] # NoAge
                      /\ (m \in buried[w] => fam[m] \in flushed[w])
                      /\ (fam[m] \in flushed[w] => by'[m] = Committed)
    BY <1>1 DEF DoomedAreStored, Stored
  <2>1. m \in Members
    BY DEF LifeTypeOK
  <2>2. /\ fam[m] # NoFamily
        /\ by[m] \in {Committed, Deleted}
        /\ plan[w][m] # NoAge
        /\ (m \in buried[w] => fam[m] \in flushed[w])
        /\ (fam[m] \in flushed[w] => Stored(m))
    BY DEF LifeInv, DoomedAreStored
  <2>3. fam[m] \in flushed[w] => m # d
    BY <2>1, <2>2 DEF DeleteAgent, Locked
  <2> QED BY <2>1, <2>2, <2>3, <1>2, <1>3 DEF Stored
<1>8. BuriedHaveHeirs'
  BY <1>1, <1>5 DEF LifeInv, BuriedHaveHeirs
<1>9. DeathPassesLegacy'
  <2> SUFFICES ASSUME NEW m \in Members, Stored(m)', ~alive[m]
               PROVE  \E k \in Members : /\ by'[k] \in {Committed, Deleted} /\ heirOf'[k] = m
                                         /\ fam[k] = fam[m] /\ role[k] = role[m]
    BY <1>1 DEF DeathPassesLegacy
  <2>1. m # d /\ Stored(m)
    BY <1>1, <1>2 DEF Stored
  <2>2. PICK k \in Members : /\ by[k] \in {Committed, Deleted} /\ heirOf[k] = m
                             /\ fam[k] = fam[m] /\ role[k] = role[m]
    BY <2>1 DEF LifeInv, DeathPassesLegacy
  <2> QED BY <2>1, <2>2, <1>3, <1>4
<1>10. FamilyLives'
  BY <1>1, <1>3 DEF LifeInv, FamilyLives, Founded
<1> QED BY <1>6, <1>7, <1>8, <1>9, <1>10 DEF LifeInv

-----------------------------------------------------------------------------
(* The end of a tick.                                                      *)

\* A tick that has ended dooms and buries nobody, the others go on.
LEMMA EndFacts ==
    ASSUME LifeTypeOK, NEW w \in Ticks, EndTick(w)
    PROVE  /\ doomed'[w] = {} /\ buried'[w] = {}
           /\ \A v \in Ticks : v # w => /\ doomed'[v] = doomed[v] /\ buried'[v] = buried[v]
                                        /\ plan'[v] = plan[v] /\ flushed'[v] = flushed[v]
BY DEF LifeTypeOK, EndTick

\* A commit turns the heirs of everybody it buries into rows of the family.
LEMMA CommitInv ==
    ASSUME LifeTypeOK, LifeInv, NEW w \in Ticks, CommitTick(w)
    PROVE  LifeInv'
<1> USE Nulls
<1>1. UNCHANGED <<fam, role, heirOf>>
  BY DEF CommitTick
<1>2. \A m \in Members : /\ by[m] = w => by'[m] = Committed
                         /\ by[m] # w => by'[m] = by[m]
                         /\ alive'[m] = (alive[m] /\ m \notin buried[w])
  BY DEF CommitTick
<1>3. \A m \in buried[w] : m \in Members /\ by[m] = Committed
  BY DEF LifeInv, DoomedAreStored, Stored, LifeTypeOK
<1>4. \A m \in Members : by[m] \in {Committed, Deleted} => by'[m] = by[m]
  BY <1>2
<1>5. \A m \in buried[w] : \E h \in Members :
          /\ by'[h] = Committed /\ alive'[h] /\ heirOf[h] = m
          /\ fam[h] = fam[m] /\ role[h] = role[m]
  <2> SUFFICES ASSUME NEW m \in buried[w]
               PROVE  \E h \in Members : /\ by'[h] = Committed /\ alive'[h] /\ heirOf[h] = m
                                         /\ fam[h] = fam[m] /\ role[h] = role[m]
    OBVIOUS
  <2>1. PICK h \in Members : /\ by[h] = w /\ heirOf[h] = m
                             /\ fam[h] = fam[m] /\ role[h] = role[m]
    BY DEF LifeInv, BuriedHaveHeirs
  <2>2. alive[h] /\ h \notin buried[w]
    BY <2>1, <1>3 DEF LifeInv, UncommittedRows
  <2> QED BY <2>1, <2>2, <1>2
<1>6. \A g \in Families : Founded(g)' => Founded(g)
  <2> SUFFICES ASSUME NEW m \in Members, by'[m] \in {Committed, Deleted}, fam[m] \in Families
               PROVE  Founded(fam[m])
    BY <1>1 DEF Founded
  <2>1. CASE by[m] = w
    BY <2>1 DEF LifeInv, UncommittedRows
  <2>2. CASE by[m] # w
    BY <2>2, <1>2 DEF Founded
  <2> QED BY <2>1, <2>2
<1>7. UncommittedRows'
  <2> SUFFICES ASSUME NEW m \in Members
               PROVE  /\ by'[m] # Committed => fam[m] # NoFamily
                      /\ by'[m] \in Ticks =>
                           /\ alive'[m]
                           /\ \E k \in Members : fam[k] = fam[m] /\ by'[k] \in {Committed, Deleted}
    BY <1>1 DEF UncommittedRows, Founded
  <2>1. /\ by[m] # Committed => fam[m] # NoFamily
        /\ by[m] \in Ticks =>
             /\ alive[m]
             /\ \E k \in Members : fam[k] = fam[m] /\ by[k] \in {Committed, Deleted}
    BY DEF LifeInv, UncommittedRows, Founded
  <2>2. by'[m] \in Ticks => by[m] \in Ticks /\ m \notin buried[w]
    BY <1>2, <1>3
  <2> QED BY <2>1, <2>2, <1>2, <1>4
<1>8. DoomedAreStored'
  <2> SUFFICES ASSUME NEW v \in Ticks, v # w, NEW m \in doomed[v] \cup buried[v]
               PROVE  /\ fam[m] # NoFamily
                      /\ by'[m] \in {Committed, Deleted}
                      /\ plan[v][m] # NoAge
                      /\ (m \in buried[v] => fam[m] \in flushed[v])
                      /\ (fam[m] \in flushed[v] => by'[m] = Committed)
    BY <1>1, EndFacts DEF DoomedAreStored, Stored, CommitTick
  <2>1. m \in Members
    BY DEF LifeTypeOK
  <2> QED BY <2>1, <1>4 DEF LifeInv, DoomedAreStored, Stored
<1>9. BuriedHaveHeirs'
  <2> SUFFICES ASSUME NEW v \in Ticks, v # w, NEW m \in buried[v]
               PROVE  \E h \in Members : /\ by'[h] = v /\ heirOf[h] = m
                                         /\ fam[h] = fam[m] /\ role[h] = role[m]
    BY <1>1, EndFacts DEF BuriedHaveHeirs, CommitTick
  <2> QED BY <1>2 DEF LifeInv, BuriedHaveHeirs
<1>10. DeathPassesLegacy'
  <2> SUFFICES ASSUME NEW m \in Members, by'[m] = Committed, fam[m] # NoFamily, ~alive'[m]
               PROVE  \E h \in Members : /\ by'[h] \in {Committed, Deleted} /\ heirOf[h] = m
                                         /\ fam[h] = fam[m] /\ role[h] = role[m]
    BY <1>1 DEF DeathPassesLegacy, Stored
  <2>1. CASE m \in buried[w]
    BY <2>1, <1>5
  <2>2. CASE m \notin buried[w]
    <3>1. ~alive[m]
      BY <2>2, <1>2
    <3>2. Stored(m)
      BY <3>1, <1>2 DEF LifeInv, UncommittedRows, Stored
    <3>3. PICK h \in Members : /\ by[h] \in {Committed, Deleted} /\ heirOf[h] = m
                               /\ fam[h] = fam[m] /\ role[h] = role[m]
      BY <3>1, <3>2 DEF LifeInv, DeathPassesLegacy
    <3> QED BY <3>3, <1>4
  <2> QED BY <2>1, <2>2
<1>11. FamilyLives'
  <2> SUFFICES ASSUME NEW g \in Families, Founded(g)
               PROVE  \E p \in Members : /\ by'[p] \in {Committed, Deleted}
                                         /\ fam[p] = g /\ alive'[p] /\ role[p] = "parent"
    BY <1>1, <1>6 DEF FamilyLives
  <2>1. PICK p \in Members : /\ by[p] \in {Committed, Deleted}
                             /\ fam[p] = g /\ alive[p] /\ role[p] = "parent"
    BY DEF LifeInv, FamilyLives
  <2>2. CASE p \in buried[w]
    BY <2>1, <2>2, <1>5
  <2>3. CASE p \notin buried[w]
    BY <2>1, <2>3, <1>2, <1>4
  <2> QED BY <2>2, <2>3
<1> QED BY <1>7, <1>8, <1>9, <1>10, <1>11 DEF LifeInv

\* A rollback removes uncommitted heirs only, and forgets whom they succeed.
LEMMA DropInv ==
    ASSUME LifeTypeOK, LifeInv, NEW w \in Ticks, DropInserts(w), EndTick(w)
    PROVE  LifeInv'
<1> USE Nulls
<1>1. \A m \in Members : by[m] # w =>
          /\ fam'[m] = fam[m] /\ by'[m] = by[m] /\ role'[m] = role[m]
          /\ alive'[m] = alive[m] /\ heirOf'[m] = heirOf[m]
  BY DEF DropInserts, LifeTypeOK
<1>2. \A m \in Members : by[m] = w => fam'[m] = NoFamily /\ by'[m] = Committed
  BY DEF DropInserts
<1>3. \A m \in Members : fam'[m] # NoFamily => by[m] # w
  BY <1>2
<1>4. UncommittedRows'
  <2> SUFFICES ASSUME NEW m \in Members
               PROVE  /\ by'[m] # Committed => fam'[m] # NoFamily
                      /\ by'[m] \in Ticks =>
                           /\ alive'[m]
                           /\ \E k \in Members : fam'[k] = fam'[m] /\ by'[k] \in {Committed, Deleted}
    BY DEF UncommittedRows, Founded
  <2>1. /\ by[m] # Committed => fam[m] # NoFamily
        /\ by[m] \in Ticks =>
             /\ alive[m]
             /\ \E k \in Members : fam[k] = fam[m] /\ by[k] \in {Committed, Deleted}
    BY DEF LifeInv, UncommittedRows, Founded
  <2> QED BY <2>1, <1>1, <1>2
<1>5. DoomedAreStored'
  <2> SUFFICES ASSUME NEW v \in Ticks, v # w, NEW m \in doomed[v] \cup buried[v]
               PROVE  /\ fam'[m] # NoFamily
                      /\ by'[m] \in {Committed, Deleted}
                      /\ plan[v][m] # NoAge
                      /\ (m \in buried[v] => fam'[m] \in flushed[v])
                      /\ (fam'[m] \in flushed[v] => Stored(m)')
    BY EndFacts DEF DoomedAreStored
  <2>1. m \in Members
    BY DEF LifeTypeOK
  <2>2. /\ fam[m] # NoFamily
        /\ by[m] \in {Committed, Deleted}
        /\ plan[v][m] # NoAge
        /\ (m \in buried[v] => fam[m] \in flushed[v])
        /\ (fam[m] \in flushed[v] => Stored(m))
    BY DEF LifeInv, DoomedAreStored
  <2> QED BY <2>1, <2>2, <1>1 DEF Stored
<1>6. BuriedHaveHeirs'
  <2> SUFFICES ASSUME NEW v \in Ticks, v # w, NEW m \in buried[v]
               PROVE  \E h \in Members : /\ by'[h] = v /\ heirOf'[h] = m
                                         /\ fam'[h] = fam'[m] /\ role'[h] = role'[m]
    BY EndFacts DEF BuriedHaveHeirs
  <2>1. m \in Members /\ by[m] # w
    BY DEF LifeInv, DoomedAreStored, LifeTypeOK
  <2> QED BY <2>1, <1>1 DEF LifeInv, BuriedHaveHeirs
<1>7. DeathPassesLegacy'
  <2> SUFFICES ASSUME NEW m \in Members, Stored(m)', ~alive'[m]
               PROVE  \E h \in Members : /\ by'[h] \in {Committed, Deleted} /\ heirOf'[h] = m
                                         /\ fam'[h] = fam'[m] /\ role'[h] = role'[m]
    BY DEF DeathPassesLegacy
  <2>1. by[m] # w /\ Stored(m) /\ ~alive[m]
    BY <1>1, <1>3 DEF Stored
  <2> QED BY <2>1, <1>1 DEF LifeInv, DeathPassesLegacy
<1>8. FamilyLives'
  <2> SUFFICES ASSUME NEW g \in Families, Founded(g)'
               PROVE  \E p \in Members : /\ by'[p] \in {Committed, Deleted}
                                         /\ fam'[p] = g /\ alive'[p] /\ role'[p] = "parent"
    BY DEF FamilyLives
  <2>1. Founded(g)
    BY <1>1, <1>3 DEF Founded
  <2> QED BY <2>1, <1>1 DEF LifeInv, FamilyLives
<1> QED BY <1>4, <1>5, <1>6, <1>7, <1>8 DEF LifeInv

-----------------------------------------------------------------------------
(* The theorems.                                                           *)

\* Each action keeps the invariant.
LEMMA LifeStep == LifeTypeOK /\ LifeInv /\ [LifeNext]_lifeVars => LifeInv'
<1> SUFFICES ASSUME LifeTypeOK, LifeInv, [LifeNext]_lifeVars PROVE LifeInv'
  OBVIOUS
<1>1. ASSUME NEW f \in Families, NEW m \in Members, CreateFamily(f, m) PROVE LifeInv'
  <2>1. Insert(m, f, "parent", Committed, NoMember) /\ UNCHANGED <<doomed, plan, flushed, buried>>
    BY <1>1 DEF CreateFamily, tick
  <2> QED BY <2>1, InsertInv
<1>2. ASSUME NEW f \in Families, NEW m \in Members, SpawnChild(f, m) PROVE LifeInv'
  <2>1. Insert(m, f, "child", Committed, NoMember) /\ UNCHANGED <<doomed, plan, flushed, buried>>
    BY <1>2 DEF SpawnChild, tick
  <2>2. Founded(f)
    BY <1>2 DEF SpawnChild, Founded, Stored
  <2> QED BY <2>1, <2>2, InsertInv
<1>3. ASSUME NEW m \in Members, DeleteAgent(m) PROVE LifeInv'
  BY <1>3, DeleteInv
<1>4. CASE UNCHANGED <<fam, by, role, alive, heirOf, buried, doomed, plan, flushed>>
  <2>1. DoomedAreStored'
    BY <1>4 DEF LifeInv, DoomedAreStored, Stored
  <2> QED BY <1>4, <2>1, QuietInv
<1>5. ASSUME NEW f \in Families, NEW n \in Limits, UpdateFamilyPolicy(f, n) PROVE LifeInv'
  BY <1>5, <1>4 DEF UpdateFamilyPolicy, tick
<1>6. ASSUME NEW w \in Ticks, NEW S \in SUBSET Families, StartTick(w, S) PROVE LifeInv'
  BY <1>6, <1>4 DEF StartTick, rows
<1>7. ASSUME NEW w \in Ticks, NEW f \in Families, ReadFamily(w, f) \/ AgeMembers(w, f)
      PROVE  LifeInv'
  BY <1>7, ReadInv, AgeInv
<1>8. ASSUME NEW w \in Ticks, NEW m \in Members, NEW h \in Members, Bury(w, m, h)
      PROVE  LifeInv'
  <2>1. /\ Insert(h, fam[m], role[m], w, m)
        /\ UNCHANGED <<doomed, plan, flushed>>
        /\ buried' = [buried EXCEPT ![w] = @ \cup {m}]
        /\ m \in doomed[w] /\ fam[m] \in flushed[w]
    BY <1>8 DEF Bury, Pending
  <2>2. fam[m] \in Families /\ role[m] \in {"parent", "child"}
    BY <2>1 DEF LifeTypeOK
  <2>3. Founded(fam[m])
    BY <2>1 DEF LifeInv, DoomedAreStored, Founded, Stored
  <2>4. \A v \in Ticks : \A k \in buried'[v] :
            \/ k \in buried[v]
            \/ /\ v = w /\ k = m /\ k \in doomed[v]
               /\ fam[k] = fam[m] /\ role[k] = role[m] /\ fam[m] \in flushed[v]
    BY <2>1 DEF LifeTypeOK
  <2> QED BY <2>1, <2>2, <2>3, <2>4, InsertInv
<1>9. ASSUME NEW w \in Ticks, CommitTick(w) PROVE LifeInv'
  BY <1>9, CommitInv
<1>10. ASSUME NEW w \in Ticks, RefuseTick(w) \/ AbandonTick(w) PROVE LifeInv'
  BY <1>10, DropInv DEF RefuseTick, AbandonTick
<1>11. CASE UNCHANGED lifeVars
  BY <1>11, <1>4 DEF lifeVars, rows, tick
<1> QED BY <1>1, <1>2, <1>3, <1>5, <1>6, <1>7, <1>8, <1>9, <1>10, <1>11 DEF LifeNext, LifeTick

\* Type correctness and the inductive invariant of life_tick and of what it
\* overlaps with: uncommitted heirs belong to families that exist, the buried
\* are locked rows with an heir in the same transaction.
THEOREM LifeCorrect == LifeSpec => [](LifeTypeOK /\ LifeInv)
<1>1. LifeInit => LifeTypeOK /\ LifeInv
  BY LifeInitInv
<1>2. (LifeTypeOK /\ LifeInv) /\ [LifeNext]_lifeVars => (LifeTypeOK /\ LifeInv)'
  BY LifeTypeStep, LifeStep
<1> QED BY <1>1, <1>2, PTL DEF LifeSpec

\* Nobody dies without an heir of the family in the same role.
THEOREM DeathsPassLegacy == LifeSpec => []DeathPassesLegacy
<1>1. LifeInv => DeathPassesLegacy
  BY DEF LifeInv
<1> QED BY <1>1, LifeCorrect, PTL

\* A family has a living parent, unless the agent of one was deleted.
THEOREM FamiliesLive == LifeSpec => []FamilyLives
<1>1. LifeInv => FamilyLives
  BY DEF LifeInv
<1> QED BY <1>1, LifeCorrect, PTL

-----------------------------------------------------------------------------
(* One succession.  In a family only one tick has read, the members it     *)
(* buries are alive until it commits, each of them has one heir in its     *)
(* transaction, and heirs belong to members that exist.                    *)

\* A family two ticks have read at the same time is marked.
OneReader ==
    \A w, v \in Ticks, f \in Families :
        f \in touched[w] /\ f \in touched[v] => w = v \/ f \in overlapped

\* Whom a tick buries is alive as long as it is alone in the family.
DoomedAlive ==
    \A w \in Ticks :
        /\ buried[w] \subseteq doomed[w]
        /\ \A m \in doomed[w] :
              fam[m] \in touched[w] /\ (fam[m] \notin overlapped => alive[m])

\* An uncommitted row is the heir, and the only one, of a buried member.
OpenHeirs ==
    \A h \in Members : by[h] \in Ticks =>
        /\ heirOf[h] \in buried[by[h]]
        /\ fam[heirOf[h]] = fam[h] /\ role[heirOf[h]] = role[h]
        /\ \A g \in Members : by[g] = by[h] /\ heirOf[g] = heirOf[h] => g = h

\* Whom a row succeeds is or was a committed row.
KnownAncestors ==
    \A h \in Members : heirOf[h] # NoMember /\ by[h] # Deleted =>
        fam[heirOf[h]] # NoFamily /\ by[heirOf[h]] \in {Committed, Deleted}

SuccessionInv ==
    OneReader /\ DoomedAlive /\ OpenHeirs /\ KnownAncestors /\ OneSuccession

\* Initially nobody has died.
LEMMA InitSuccession == LifeInit => SuccessionInv
BY Nulls DEF LifeInit, SuccessionInv, OneReader, DoomedAlive, OpenHeirs, KnownAncestors,
             OneSuccession, Stored, Heirs, Living, AtMostOne

\* Steps that change neither rows nor what ticks have read.
LEMMA QuietSuccession ==
    ASSUME SuccessionInv,
           UNCHANGED <<fam, by, role, alive, heirOf, touched, doomed, buried, overlapped>>
    PROVE  SuccessionInv'
<1>1. OneReader' /\ DoomedAlive'
  BY DEF SuccessionInv, OneReader, DoomedAlive
<1>2. OpenHeirs' /\ KnownAncestors'
  BY DEF SuccessionInv, OpenHeirs, KnownAncestors
<1>3. OneSuccession'
  BY DEF SuccessionInv, OneSuccession, Stored, Heirs, Living, AtMostOne
<1> QED BY <1>1, <1>2, <1>3 DEF SuccessionInv

\* A tick reads a family: the members it dooms are alive.
LEMMA ReadSuccession ==
    ASSUME LifeTypeOK, SuccessionInv, NEW w \in Ticks, NEW f \in Families, ReadFamily(w, f)
    PROVE  SuccessionInv'
<1>1. /\ UNCHANGED <<fam, by, role, alive, heirOf, buried>>
      /\ overlapped \subseteq overlapped'
  BY DEF ReadFamily, rows
<1>2. OneReader'
  BY DEF ReadFamily, LifeTypeOK, SuccessionInv, OneReader
<1>3. DoomedAlive'
  <2>1. ASSUME NEW v \in Ticks PROVE /\ buried'[v] \subseteq doomed'[v]
                                     /\ touched[v] \subseteq touched'[v]
    BY <2>1 DEF ReadFamily, LifeTypeOK, SuccessionInv, DoomedAlive
  <2>2. ASSUME NEW v \in Ticks, NEW m \in doomed'[v]
        PROVE  m \in doomed[v] \/ (fam[m] = f /\ f \in touched'[v] /\ alive[m])
    BY <2>2 DEF ReadFamily, LifeTypeOK, Ageing
  <2> QED
    BY <1>1, <2>1, <2>2 DEF SuccessionInv, DoomedAlive
<1>4. OpenHeirs' /\ KnownAncestors'
  BY <1>1 DEF SuccessionInv, OpenHeirs, KnownAncestors
<1>5. OneSuccession'
  BY <1>1 DEF SuccessionInv, OneSuccession, Stored, Heirs, Living, AtMostOne
<1> QED BY <1>2, <1>3, <1>4, <1>5 DEF SuccessionInv

\* A founder or a child succeeds nobody; a founder is its family's only row.
LEMMA BirthSuccession ==
    ASSUME LifeTypeOK, LifeInv, SuccessionInv, NEW h \in Members, NEW f \in Families,
           NEW r \in {"parent", "child"}, Insert(h, f, r, Committed, NoMember),
           r = "parent" => ~Founded(f),
           UNCHANGED <<touched, doomed, buried, overlapped>>
    PROVE  SuccessionInv'
<1> USE Nulls, MembersAssumption
<1>1. /\ fam[h] = NoFamily /\ fam'[h] = f /\ by'[h] = Committed /\ role'[h] = r
      /\ heirOf'[h] = NoMember
      /\ \A m \in Members : m # h =>
            /\ fam'[m] = fam[m] /\ by'[m] = by[m] /\ role'[m] = role[m]
            /\ alive'[m] = alive[m] /\ heirOf'[m] = heirOf[m]
  BY DEF Insert, LifeTypeOK
<1>0. /\ by[h] = Committed
      /\ \A w \in Ticks : h \notin doomed[w] /\ h \notin buried[w]
  BY <1>1 DEF LifeInv, UncommittedRows, DoomedAreStored, LifeTypeOK
<1>2. OneReader'
  BY DEF SuccessionInv, OneReader
<1>3. DoomedAlive'
  BY <1>0, <1>1 DEF SuccessionInv, DoomedAlive, LifeTypeOK
<1>4. OpenHeirs'
  <2>1. ASSUME NEW g \in Members, by'[g] \in Ticks
        PROVE  /\ g # h /\ by[g] = by'[g] /\ heirOf[g] \in buried[by[g]]
               /\ heirOf[g] \in Members /\ heirOf[g] # h
    BY <2>1, <1>0, <1>1 DEF SuccessionInv, OpenHeirs, LifeTypeOK
  <2> QED
    BY <2>1, <1>1 DEF SuccessionInv, OpenHeirs
<1>5. KnownAncestors'
  <2>1. ASSUME NEW g \in Members, heirOf'[g] # NoMember, by'[g] # Deleted
        PROVE  /\ g # h /\ heirOf'[g] = heirOf[g] /\ heirOf[g] \in Members
               /\ fam[heirOf[g]] # NoFamily /\ by[heirOf[g]] \in {Committed, Deleted}
    BY <2>1, <1>1 DEF SuccessionInv, KnownAncestors, LifeTypeOK
  <2>2. ASSUME NEW g \in Members, heirOf'[g] # NoMember, by'[g] # Deleted
        PROVE  fam'[heirOf'[g]] # NoFamily /\ by'[heirOf'[g]] \in {Committed, Deleted}
    BY <2>1, <2>2, <1>1
  <2> QED
    BY <2>2 DEF KnownAncestors
<1>6. OneSuccession'
  <2>1. ASSUME NEW g \in Members, NEW m \in Members, Stored(g)', heirOf'[g] = m
        PROVE  g # h /\ m # h /\ Stored(g) /\ heirOf[g] = m
    BY <2>1, <1>1 DEF SuccessionInv, KnownAncestors, Stored
  <2>2. ASSUME NEW e \in Families \ overlapped, NEW m \in Members, Stored(m)', fam'[m] = e
        PROVE  AtMostOne(Heirs(m))' /\ (alive'[m] => Heirs(m)' = {})
    <3>1. CASE m = h
      BY <2>1, <3>1 DEF Heirs, AtMostOne
    <3>2. CASE m # h
      BY <2>1, <2>2, <3>2, <1>1 DEF Heirs, AtMostOne, SuccessionInv, OneSuccession, Stored
    <3> QED BY <3>1, <3>2
  <2>3. ASSUME NEW e \in Families \ overlapped, NEW p \in Members, NEW q \in Members,
               Stored(p)', fam'[p] = e, alive'[p], role'[p] = "parent",
               Stored(q)', fam'[q] = e, alive'[q], role'[q] = "parent"
        PROVE  p = q
    <3>1. CASE p # h /\ q # h
      BY <2>3, <3>1, <1>1 DEF SuccessionInv, OneSuccession, Living, AtMostOne, Stored
    <3>2. CASE p = h \/ q = h
      BY <2>3, <3>2, <1>1 DEF Stored, Founded
    <3> QED BY <3>1, <3>2
  <2> QED
    BY <2>2, <2>3 DEF OneSuccession, AtMostOne, Living
<1> QED BY <1>2, <1>3, <1>4, <1>5, <1>6 DEF SuccessionInv

\* Burying: the heir is uncommitted, and the first one of its ancestor.
LEMMA BurySuccession ==
    ASSUME LifeTypeOK, LifeInv, SuccessionInv, NEW w \in Ticks, NEW d \in Members,
           NEW h \in Members, Bury(w, d, h)
    PROVE  SuccessionInv'
<1> USE Nulls, MembersAssumption
<1>1. /\ fam[h] = NoFamily /\ fam'[h] = fam[d] /\ by'[h] = w /\ role'[h] = role[d]
      /\ heirOf'[h] = d
      /\ \A m \in Members : m # h =>
            /\ fam'[m] = fam[m] /\ by'[m] = by[m] /\ role'[m] = role[m]
            /\ alive'[m] = alive[m] /\ heirOf'[m] = heirOf[m]
  BY DEF Bury, Insert, LifeTypeOK
<1>2. /\ d \in doomed[w] \ buried[w] /\ buried'[w] = buried[w] \cup {d}
      /\ \A v \in Ticks : v # w => buried'[v] = buried[v]
      /\ UNCHANGED <<touched, doomed, overlapped>>
  BY DEF Bury, Pending, LifeTypeOK
<1>0. /\ by[h] = Committed /\ d # h /\ fam[d] # NoFamily /\ by[d] \in {Committed, Deleted}
      /\ \A v \in Ticks : h \notin doomed[v] /\ h \notin buried[v]
  BY <1>1, <1>2 DEF LifeInv, UncommittedRows, DoomedAreStored, LifeTypeOK
<1>3. OneReader'
  BY <1>2 DEF SuccessionInv, OneReader
<1>4. DoomedAlive'
  <2>1. ASSUME NEW v \in Ticks PROVE buried'[v] \subseteq doomed'[v]
    BY <2>1, <1>2 DEF SuccessionInv, DoomedAlive
  <2>2. ASSUME NEW v \in Ticks, NEW m \in doomed'[v]
        PROVE  m \in Members /\ m \in doomed[v] /\ fam'[m] = fam[m] /\ alive'[m] = alive[m]
    BY <2>2, <1>0, <1>1, <1>2 DEF LifeTypeOK
  <2> QED
    BY <2>1, <2>2, <1>2 DEF SuccessionInv, DoomedAlive
<1>5. OpenHeirs'
  <2>1. ASSUME NEW g \in Members, g # h, by[g] \in Ticks
        PROVE  heirOf[g] \in buried[by[g]] /\ heirOf[g] \in Members /\ heirOf[g] # h
    BY <2>1, <1>0 DEF SuccessionInv, OpenHeirs, LifeTypeOK
  <2>2. ASSUME NEW g \in Members, g # h, by'[g] \in Ticks
        PROVE  /\ heirOf'[g] \in buried'[by'[g]]
               /\ fam'[heirOf'[g]] = fam'[g] /\ role'[heirOf'[g]] = role'[g]
               /\ \A k \in Members : by'[k] = by'[g] /\ heirOf'[k] = heirOf'[g] => k = g
    BY <2>1, <2>2, <1>1, <1>2 DEF SuccessionInv, OpenHeirs
  <2>3. ASSUME NEW k \in Members, by'[k] = w, heirOf'[k] = d PROVE k = h
    BY <2>1, <2>3, <1>1, <1>2
  <2>4. /\ heirOf'[h] \in buried'[by'[h]]
        /\ fam'[heirOf'[h]] = fam'[h] /\ role'[heirOf'[h]] = role'[h]
    BY <1>0, <1>1, <1>2
  <2> QED
    BY <2>2, <2>3, <2>4, <1>1 DEF OpenHeirs
<1>6. KnownAncestors'
  <2>1. ASSUME NEW g \in Members, g # h, heirOf'[g] # NoMember, by'[g] # Deleted
        PROVE  /\ heirOf'[g] = heirOf[g] /\ heirOf[g] \in Members
               /\ fam[heirOf[g]] # NoFamily /\ by[heirOf[g]] \in {Committed, Deleted}
    BY <2>1, <1>1 DEF SuccessionInv, KnownAncestors, LifeTypeOK
  <2>2. ASSUME NEW g \in Members, heirOf'[g] # NoMember, by'[g] # Deleted
        PROVE  fam'[heirOf'[g]] # NoFamily /\ by'[heirOf'[g]] \in {Committed, Deleted}
    BY <2>1, <2>2, <1>0, <1>1
  <2> QED
    BY <2>2 DEF KnownAncestors
<1>7. OneSuccession'
  <2>1. \A m \in Members : Stored(m)' <=> m # h /\ Stored(m)
    BY <1>0, <1>1 DEF Stored
  <2> QED
    BY <2>1, <1>1, <1>2 DEF SuccessionInv, OneSuccession, Heirs, Living, AtMostOne
<1> QED BY <1>3, <1>4, <1>5, <1>6, <1>7 DEF SuccessionInv

\* A deleted agent takes its member along, and whoever succeeded it forgets.
LEMMA DeleteSuccession ==
    ASSUME LifeTypeOK, LifeInv, SuccessionInv, NEW d \in Members, DeleteAgent(d)
    PROVE  SuccessionInv'
<1> USE Nulls, MembersAssumption
<1>1. UNCHANGED <<fam, role, alive, touched, doomed, buried, overlapped>>
  BY DEF DeleteAgent, tick
<1>2. /\ by[d] = Committed /\ by'[d] = Deleted
      /\ \A m \in Members : m # d => by'[m] = by[m]
      /\ \A m \in Members : heirOf'[m] = heirOf[m] \/ (heirOf'[m] = NoMember /\ Stored(m))
  BY DEF DeleteAgent, Stored, LifeTypeOK
<1>3. OneReader' /\ DoomedAlive'
  BY <1>1 DEF SuccessionInv, OneReader, DoomedAlive
<1>4. OpenHeirs'
  <2>1. ASSUME NEW g \in Members, by'[g] \in Ticks
        PROVE  by[g] = by'[g] /\ heirOf'[g] = heirOf[g]
    BY <2>1, <1>2 DEF Stored
  <2> QED
    BY <2>1, <1>1 DEF SuccessionInv, OpenHeirs
<1>5. KnownAncestors'
  <2>1. ASSUME NEW g \in Members, heirOf'[g] # NoMember, by'[g] # Deleted
        PROVE  /\ heirOf'[g] = heirOf[g] /\ heirOf[g] \in Members /\ by[g] # Deleted
               /\ by'[heirOf[g]] \in {Deleted, by[heirOf[g]]}
    BY <2>1, <1>2 DEF LifeTypeOK
  <2> QED
    BY <2>1, <1>1 DEF SuccessionInv, KnownAncestors
<1>6. OneSuccession'
  <2>1. \A m \in Members : Stored(m)' => Stored(m)
    BY <1>1, <1>2 DEF Stored
  <2>2. \A m, g \in Members : heirOf'[g] = m => heirOf[g] = m
    BY <1>2
  <2> QED
    BY <2>1, <2>2, <1>1 DEF SuccessionInv, OneSuccession, Heirs, Living, AtMostOne
<1> QED BY <1>3, <1>4, <1>5, <1>6 DEF SuccessionInv

\* What the end of a tick leaves to the others.
LEMMA EndReads ==
    ASSUME LifeTypeOK, NEW w \in Ticks, EndTick(w)
    PROVE  /\ touched'[w] = {}
           /\ \A v \in Ticks : v # w => touched'[v] = touched[v]
BY DEF LifeTypeOK, EndTick

\* A commit: every heir it shows succeeds a member that was alive until now
\* and had no heir, so a parent gives way to one parent.
LEMMA CommitSuccession ==
    ASSUME LifeTypeOK, LifeInv, SuccessionInv, NEW w \in Ticks, CommitTick(w)
    PROVE  SuccessionInv'
<1> USE Nulls, MembersAssumption
<1>1. UNCHANGED <<fam, role, heirOf, overlapped>>
  BY DEF CommitTick
<1>2. \A m \in Members : /\ by'[m] = IF by[m] = w THEN Committed ELSE by[m]
                         /\ alive'[m] <=> alive[m] /\ m \notin buried[w]
  BY DEF CommitTick, LifeTypeOK
<1>3. /\ doomed'[w] = {} /\ buried'[w] = {} /\ touched'[w] = {}
      /\ \A v \in Ticks : v # w => /\ doomed'[v] = doomed[v] /\ buried'[v] = buried[v]
                                   /\ touched'[v] = touched[v]
  BY EndFacts, EndReads DEF CommitTick
<1>4. ASSUME NEW m \in buried[w]
      PROVE  /\ m \in Members /\ m \in doomed[w] /\ Stored(m) /\ fam[m] \in touched[w]
             /\ fam[m] \in Families
             /\ fam[m] \notin overlapped => alive[m]
  BY <1>4 DEF SuccessionInv, DoomedAlive, LifeInv, DoomedAreStored, LifeTypeOK
<1>5. OneReader'
  BY <1>1, <1>3 DEF SuccessionInv, OneReader
<1>6. DoomedAlive'
  <2>1. ASSUME NEW v \in Ticks, v # w, NEW m \in doomed[v], fam[m] \notin overlapped
        PROVE  m \notin buried[w]
    BY <2>1, <1>4 DEF SuccessionInv, DoomedAlive, OneReader
  <2>2. ASSUME NEW v \in Ticks, v # w, NEW m \in doomed[v], fam[m] \notin overlapped
        PROVE  alive'[m]
    BY <2>1, <2>2, <1>2 DEF SuccessionInv, DoomedAlive, LifeTypeOK
  <2>3. ASSUME NEW v \in Ticks, NEW m \in doomed'[v] PROVE v # w /\ m \in doomed[v]
    BY <2>3, <1>3
  <2>4. ASSUME NEW v \in Ticks PROVE buried'[v] \subseteq doomed'[v]
    BY <2>4, <1>3 DEF SuccessionInv, DoomedAlive
  <2>5. ASSUME NEW v \in Ticks, NEW m \in doomed'[v]
        PROVE  fam'[m] \in touched'[v] /\ (fam'[m] \notin overlapped' => alive'[m])
    BY <2>2, <2>3, <2>5, <1>1, <1>3 DEF SuccessionInv, DoomedAlive
  <2> QED
    BY <2>4, <2>5 DEF DoomedAlive
<1>7. OpenHeirs'
  <2>1. ASSUME NEW g \in Members, by'[g] \in Ticks PROVE by[g] = by'[g] /\ by[g] # w
    BY <2>1, <1>2
  <2> QED
    BY <2>1, <1>1, <1>3 DEF SuccessionInv, OpenHeirs
<1>8. KnownAncestors'
  <2>1. ASSUME NEW g \in Members, heirOf'[g] # NoMember, by'[g] # Deleted
        PROVE  /\ heirOf'[g] = heirOf[g] /\ heirOf[g] \in Members /\ by[g] # Deleted
    BY <2>1, <1>1, <1>2 DEF LifeTypeOK
  <2>2. ASSUME NEW g \in Members, heirOf'[g] # NoMember, by'[g] # Deleted
        PROVE  fam'[heirOf'[g]] # NoFamily /\ by'[heirOf'[g]] \in {Committed, Deleted}
    BY <2>1, <2>2, <1>1, <1>2 DEF SuccessionInv, KnownAncestors
  <2> QED
    BY <2>2 DEF KnownAncestors
<1>9. OneSuccession'
  <2>1. ASSUME NEW g \in Members, Stored(g)' PROVE Stored(g) \/ by[g] = w
    BY <2>1, <1>1, <1>2 DEF Stored
  <2>h. ASSUME NEW g \in Members, by[g] = w
        PROVE  /\ heirOf[g] \in buried[w] /\ fam[heirOf[g]] = fam[g]
               /\ role[heirOf[g]] = role[g]
               /\ \A k \in Members : by[k] = w /\ heirOf[k] = heirOf[g] => k = g
    BY <2>h DEF SuccessionInv, OpenHeirs
  <2>o. ASSUME NEW e \in Families \ overlapped
        PROVE  /\ \A m \in Members : Stored(m) /\ fam[m] = e =>
                     AtMostOne(Heirs(m)) /\ (alive[m] => Heirs(m) = {})
               /\ AtMostOne({p \in Living(e) : role[p] = "parent"})
    BY <2>o DEF SuccessionInv, OneSuccession
  <2>2. ASSUME NEW e \in Families \ overlapped, NEW m \in Members, Stored(m)', fam[m] = e
        PROVE  AtMostOne(Heirs(m))' /\ (alive'[m] => Heirs(m)' = {})
    <3>1. CASE m \in buried[w]
      <4>1. Heirs(m) = {}
        BY <2>2, <2>o, <1>4, <3>1
      <4>2. ASSUME NEW g \in Heirs(m)' PROVE g \in Members /\ by[g] = w /\ heirOf[g] = m
        BY <4>1, <4>2, <2>1, <1>1 DEF Heirs
      <4>3. AtMostOne(Heirs(m))'
        BY <4>2, <2>h DEF AtMostOne
      <4> QED BY <4>3, <3>1, <1>2
    <3>2. CASE m \notin buried[w]
      <4>1. ASSUME NEW g \in Heirs(m)' PROVE g \in Heirs(m) /\ by[g] # w
        BY <4>1, <3>2, <2>1, <2>h, <1>1 DEF Heirs
      <4>2. CASE Stored(m)
        BY <4>1, <4>2, <2>2, <2>o, <1>2 DEF AtMostOne
      <4>3. CASE by[m] = w
        <5>1. Heirs(m)' = {}
          BY <4>1, <4>3 DEF Heirs, Stored, SuccessionInv, KnownAncestors
        <5> QED BY <5>1 DEF AtMostOne
      <4> QED BY <4>2, <4>3, <2>1, <2>2
    <3> QED BY <3>1, <3>2
  <2> DEFINE Before(p) == IF by[p] = w THEN heirOf[p] ELSE p
  <2>3. ASSUME NEW e \in Families \ overlapped, NEW p \in Members,
               by'[p] = Committed, fam[p] = e, alive'[p], role[p] = "parent"
        PROVE  /\ Before(p) \in {m \in Living(e) : role[m] = "parent"}
               /\ by[p] = w <=> Before(p) \in buried[w]
    <3>1. CASE by[p] = w
      BY <2>3, <3>1, <2>h, <1>4 DEF Living
    <3>2. CASE by[p] # w
      BY <2>3, <3>2, <1>2 DEF Living, Stored
    <3> QED BY <3>1, <3>2
  <2>4. ASSUME NEW e \in Families \ overlapped, NEW p \in Members, NEW q \in Members,
               by'[p] = Committed, fam[p] = e, alive'[p], role[p] = "parent",
               by'[q] = Committed, fam[q] = e, alive'[q], role[q] = "parent"
        PROVE  p = q
    <3>1. /\ Before(p) \in {m \in Living(e) : role[m] = "parent"}
          /\ by[p] = w <=> Before(p) \in buried[w]
      BY <2>3, <2>4
    <3>2. /\ Before(q) \in {m \in Living(e) : role[m] = "parent"}
          /\ by[q] = w <=> Before(q) \in buried[w]
      BY <2>3, <2>4
    <3>3. Before(p) = Before(q)
      BY <3>1, <3>2, <2>o DEF AtMostOne
    <3> QED BY <3>1, <3>2, <3>3, <2>h
  <2> QED
    BY <2>2, <2>4, <1>1 DEF OneSuccession, AtMostOne, Living, Stored
<1> QED BY <1>5, <1>6, <1>7, <1>8, <1>9 DEF SuccessionInv

\* A rollback takes away the heirs of members that live on.
LEMMA DropSuccession ==
    ASSUME LifeTypeOK, LifeInv, SuccessionInv, NEW w \in Ticks, DropInserts(w), EndTick(w),
           UNCHANGED overlapped
    PROVE  SuccessionInv'
<1> USE Nulls, MembersAssumption
<1>1. \A m \in Members :
        /\ by[m] = w => fam'[m] = NoFamily /\ by'[m] = Committed /\ heirOf'[m] = NoMember
        /\ by[m] # w => /\ fam'[m] = fam[m] /\ by'[m] = by[m] /\ role'[m] = role[m]
                        /\ alive'[m] = alive[m] /\ heirOf'[m] = heirOf[m]
  BY DEF DropInserts, LifeTypeOK
<1>2. /\ doomed'[w] = {} /\ buried'[w] = {} /\ touched'[w] = {}
      /\ \A v \in Ticks : v # w => /\ doomed'[v] = doomed[v] /\ buried'[v] = buried[v]
                                   /\ touched'[v] = touched[v]
  BY EndFacts, EndReads
<1>3. ASSUME NEW v \in Ticks, NEW m \in doomed[v] \cup buried[v]
      PROVE  m \in Members /\ by[m] # w
  <2>1. m \in Members
    BY <1>3 DEF LifeTypeOK
  <2>2. by[m] \in {Committed, Deleted}
    BY <1>3 DEF LifeInv, DoomedAreStored
  <2> QED BY <2>1, <2>2
<1>4. OneReader'
  BY <1>2 DEF SuccessionInv, OneReader
<1>5. DoomedAlive'
  <2>1. ASSUME NEW v \in Ticks PROVE buried'[v] \subseteq doomed'[v]
    BY <2>1, <1>2 DEF SuccessionInv, DoomedAlive
  <2>2. ASSUME NEW v \in Ticks, NEW m \in doomed'[v]
        PROVE  fam'[m] \in touched'[v] /\ (fam'[m] \notin overlapped' => alive'[m])
    BY <2>2, <1>1, <1>2, <1>3 DEF SuccessionInv, DoomedAlive
  <2> QED
    BY <2>1, <2>2 DEF DoomedAlive
<1>6. OpenHeirs'
  <2>1. ASSUME NEW g \in Members, by'[g] \in Ticks
        PROVE  /\ by[g] = by'[g] /\ by[g] # w /\ heirOf[g] \in buried[by[g]]
               /\ heirOf[g] \in Members /\ by[heirOf[g]] # w
    <3>1. by[g] = by'[g] /\ by[g] # w
      BY <2>1, <1>1
    <3>2. heirOf[g] \in buried[by[g]]
      BY <2>1, <3>1 DEF SuccessionInv, OpenHeirs
    <3> QED BY <2>1, <3>1, <3>2, <1>3
  <2> QED
    BY <2>1, <1>1, <1>2 DEF SuccessionInv, OpenHeirs
<1>7. KnownAncestors'
  <2>1. ASSUME NEW g \in Members, heirOf'[g] # NoMember, by'[g] # Deleted
        PROVE  /\ heirOf'[g] = heirOf[g] /\ heirOf[g] \in Members
               /\ fam[heirOf[g]] # NoFamily /\ by[heirOf[g]] \in {Committed, Deleted}
    BY <2>1, <1>1 DEF SuccessionInv, KnownAncestors, LifeTypeOK
  <2>2. ASSUME NEW g \in Members, heirOf'[g] # NoMember, by'[g] # Deleted
        PROVE  fam'[heirOf'[g]] # NoFamily /\ by'[heirOf'[g]] \in {Committed, Deleted}
    BY <2>1, <2>2, <1>1
  <2> QED
    BY <2>2 DEF KnownAncestors
<1>8. OneSuccession'
  <2>1. \A m \in Members : Stored(m)' => Stored(m) /\ by[m] # w
    BY <1>1 DEF Stored
  <2> QED
    BY <2>1, <1>1 DEF SuccessionInv, OneSuccession, Heirs, Living, AtMostOne
<1> QED BY <1>4, <1>5, <1>6, <1>7, <1>8 DEF SuccessionInv

\* Every step keeps the invariant.
LEMMA SuccessionStep ==
    LifeTypeOK /\ LifeInv /\ SuccessionInv /\ [LifeNext]_lifeVars => SuccessionInv'
<1> SUFFICES ASSUME LifeTypeOK, LifeInv, SuccessionInv, [LifeNext]_lifeVars PROVE SuccessionInv'
  OBVIOUS
<1>1. ASSUME NEW f \in Families, NEW m \in Members, CreateFamily(f, m) \/ SpawnChild(f, m)
      PROVE  SuccessionInv'
  BY <1>1, BirthSuccession DEF CreateFamily, SpawnChild, tick
<1>2. ASSUME NEW m \in Members, DeleteAgent(m) PROVE SuccessionInv'
  BY <1>2, DeleteSuccession
<1>3. ASSUME NEW f \in Families, NEW n \in Limits, UpdateFamilyPolicy(f, n)
      PROVE  SuccessionInv'
  BY <1>3, QuietSuccession DEF UpdateFamilyPolicy, tick
<1>4. ASSUME NEW w \in Ticks, NEW S \in SUBSET Families, StartTick(w, S)
      PROVE  SuccessionInv'
  BY <1>4, QuietSuccession DEF StartTick, rows
<1>5. ASSUME NEW w \in Ticks, LifeTick(w) PROVE SuccessionInv'
  <2>1. ASSUME NEW f \in Families, ReadFamily(w, f) PROVE SuccessionInv'
    BY <2>1, ReadSuccession
  <2>2. ASSUME NEW f \in Families, AgeMembers(w, f) PROVE SuccessionInv'
    BY <2>2, QuietSuccession DEF AgeMembers, rows
  <2>3. ASSUME NEW m \in Members, NEW h \in Members, Bury(w, m, h) PROVE SuccessionInv'
    BY <2>3, BurySuccession
  <2>4. CASE CommitTick(w)
    BY <2>4, CommitSuccession
  <2>5. CASE RefuseTick(w) \/ AbandonTick(w)
    BY <2>5, DropSuccession DEF RefuseTick, AbandonTick
  <2> QED BY <1>5, <2>1, <2>2, <2>3, <2>4, <2>5 DEF LifeTick
<1>6. CASE UNCHANGED lifeVars
  BY <1>6, QuietSuccession DEF lifeVars, rows, tick
<1> QED BY <1>1, <1>2, <1>3, <1>4, <1>5, <1>6 DEF LifeNext

\* In a family no two ticks have worked on at once, a member has one heir at
\* most, only the dead have one, and there is one living parent at most.
THEOREM SuccessionIsUnique == LifeSpec => []OneSuccession
<1>1. LifeInit => LifeTypeOK /\ LifeInv /\ SuccessionInv
  BY LifeInitInv, InitSuccession
<1>2. (LifeTypeOK /\ LifeInv /\ SuccessionInv) /\ [LifeNext]_lifeVars
        => (LifeTypeOK /\ LifeInv /\ SuccessionInv)'
  BY LifeTypeStep, LifeStep, SuccessionStep
<1>3. SuccessionInv => OneSuccession
  BY DEF SuccessionInv
<1> QED BY <1>1, <1>2, <1>3, PTL DEF LifeSpec

=============================================================================
