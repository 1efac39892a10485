------------------------------ MODULE CityLife ------------------------------
(***************************************************************************)
(* Families of the city and their generations (services/city_service.py):  *)
(* founding a family, spawning children, the policy on age, and the life   *)
(* tick that ages every living member, buries the ones that reach the      *)
(* family's age limit and gives each of them an heir.                      *)
(*                                                                         *)
(* A life tick (POST /life/tick, /heartbeat/tick) is one transaction over  *)
(* several families.  It reads a family without locking it, and its        *)
(* UPDATEs write the values computed from that read.  The heir of a member *)
(* is inserted after FamilyMemberRepository.get_parent has looked for the  *)
(* family's parent, which raises when it finds two.  Deleting an agent     *)
(* takes its family_members row along (ON DELETE CASCADE).  Members carry  *)
(* goals, dreams, knobs, a generation number and a lineage pointer; none   *)
(* of them decides what happens, and they are left out.  PostgreSQL (read  *)
(* committed, row locks, foreign keys) is external.                        *)
(***************************************************************************)
EXTENDS Naturals, FiniteSets

CONSTANTS
    Families,   \* families
    Members,    \* identities of family_members rows (a bound on births)
    Ticks,      \* requests that may be inside life_tick
    Limits,     \* values of the policy max_age_ticks
    ForceAge,   \* by how much a tick ages a member
    MaxDeleted  \* bound: agents that are deleted

NoFamily == "none"
Committed == "committed"
Deleted == "deleted"
NoMember == "nobody"
NoAge == 0

ASSUME FamiliesAssumption == NoFamily \notin Families
ASSUME TicksAssumption == Committed \notin Ticks /\ Deleted \notin Ticks
ASSUME MembersAssumption == NoMember \notin Members
ASSUME AgesAssumption == Limits \subseteq Nat \ {0} /\ ForceAge \in Nat \ {0}

VARIABLES
    policy,    \* the age limit of each family
    fam,       \* family_id of each row, NoFamily: no such row
    by,        \* the open transaction that has inserted the row, Committed,
               \* or Deleted: the row is gone, what it said is history
    role,      \* role_in_family
    alive,     \* committed life_status = alive and is_active
    age,       \* committed age_ticks
    heirOf,    \* successor_of_id
    todo,      \* a tick: the families it goes through
    limit,     \* the age limits, as read with the list of families
    touched,   \* those it has read
    flushed,   \* those whose members it has aged: their rows are locked
    plan,      \* the age it gives to each member it has read alive
    doomed,    \* the members that reach the limit by it
    buried,    \* those it has buried, uncommitted
    overlapped \* history: families read by a tick while another one had them

rows == <<policy, fam, by, role, alive, age, heirOf>>
tick == <<todo, limit, touched, flushed, plan, doomed, buried>>
lifeVars == <<rows, tick, overlapped>>

-----------------------------------------------------------------------------
\* Rows everybody sees, and rows the transaction of w sees.
Stored(m) == fam[m] # NoFamily /\ by[m] = Committed
Visible(w, m) == fam[m] # NoFamily /\ by[m] \in {Committed, w}

\* The row of a family stays when all its members are gone.
Founded(f) == \E m \in Members : fam[m] = f /\ by[m] \in {Committed, Deleted}

\* Rows a tick has written, and rows it will write.
Planned(w, f) == {m \in Members : plan[w][m] # NoAge /\ fam[m] = f}
Locked(w) == {m \in Members : plan[w][m] # NoAge /\ fam[m] \in flushed[w]}

LifeInit ==
    /\ policy \in [Families -> Limits]
    /\ fam = [m \in Members |-> NoFamily]
    /\ by = [m \in Members |-> Committed]
    /\ role = [m \in Members |-> "child"]
    /\ alive = [m \in Members |-> FALSE]
    /\ age = [m \in Members |-> 0]
    /\ heirOf = [m \in Members |-> NoMember]
    /\ todo = [w \in Ticks |-> {}]
    /\ limit = [w \in Ticks |-> [f \in Families |-> NoAge]]
    /\ touched = [w \in Ticks |-> {}]
    /\ flushed = [w \in Ticks |-> {}]
    /\ plan = [w \in Ticks |-> [m \in Members |-> NoAge]]
    /\ doomed = [w \in Ticks |-> {}]
    /\ buried = [w \in Ticks |-> {}]
    /\ overlapped = {}

-----------------------------------------------------------------------------
\* INSERT of a living member of age 0.
Insert(m, f, r, owner, ancestor) ==
    /\ fam[m] = NoFamily
    /\ fam' = [fam EXCEPT ![m] = f]
    /\ by' = [by EXCEPT ![m] = owner]
    /\ role' = [role EXCEPT ![m] = r]
    /\ alive' = [alive EXCEPT ![m] = TRUE]
    /\ age' = [age EXCEPT ![m] = 0]
    /\ heirOf' = [heirOf EXCEPT ![m] = ancestor]
    /\ UNCHANGED policy

\* create_family: the family and its first parent in one commit.
CreateFamily(f, m) ==
    /\ ~Founded(f)
    /\ Insert(m, f, "parent", Committed, NoMember)
    /\ UNCHANGED <<tick, overlapped>>

\* spawn_child: below the parent get_parent finds or below any member the
\* request names, living or not.
SpawnChild(f, m) ==
    /\ \E p \in Members : Stored(p) /\ fam[p] = f
    /\ Insert(m, f, "child", Committed, NoMember)
    /\ UNCHANGED <<tick, overlapped>>

\* delete_agent: the member's row goes with the agent and its heirs forget
\* whom they succeed (ON DELETE CASCADE, SET NULL).  It waits for a tick that
\* has written the row.
DeleteAgent(m) ==
    /\ Stored(m)
    /\ \A w \in Ticks : m \notin Locked(w)
    /\ Cardinality({p \in Members : by[p] = Deleted}) < MaxDeleted
    /\ by' = [by EXCEPT ![m] = Deleted]
    /\ heirOf' = [h \in Members |->
                     IF Stored(h) /\ h # m /\ heirOf[h] = m THEN NoMember ELSE heirOf[h]]
    /\ UNCHANGED <<policy, fam, role, alive, age, tick, overlapped>>

\* update_family_policy: also written to the rows of the living members, for
\* which it waits while a tick has them locked.
UpdateFamilyPolicy(f, n) ==
    /\ Founded(f)
    /\ \A w \in Ticks : \A m \in Locked(w) : fam[m] # f
    /\ policy' = [policy EXCEPT ![f] = n]
    /\ UNCHANGED <<fam, by, role, alive, age, heirOf, tick, overlapped>>

-----------------------------------------------------------------------------
(* A life tick.                                                            *)

\* list_families, cut off at max_families.  The session keeps the families as
\* it has read them here: a later change of their policy is not seen.
StartTick(w, S) ==
    /\ todo[w] = {}
    /\ S # {} /\ \A f \in S : Founded(f)
    /\ todo' = [todo EXCEPT ![w] = S]
    /\ limit' = [limit EXCEPT ![w] = [f \in Families |->
                     IF f \in S THEN policy[f] ELSE NoAge]]
    /\ UNCHANGED <<rows, touched, flushed, plan, doomed, buried, overlapped>>

\* Mutant of Ageing: the dead are aged, and die, again.
AgeingAll(f) == {m \in Members : Stored(m) /\ fam[m] = f}

\* The members a tick ages: not deceased and active.
Ageing(f) == {m \in Members : Stored(m) /\ fam[m] = f /\ alive[m]}

\* get_with_members: life_tick reads a family when its turn comes, a
\* heartbeat has read all of them before, in the same session.
ReadFamily(w, f) ==
    /\ f \in todo[w] \ touched[w]
    /\ touched' = [touched EXCEPT ![w] = @ \cup {f}]
    /\ plan' = [plan EXCEPT ![w] = [m \in Members |->
                    IF m \in Ageing(f) THEN age[m] + ForceAge ELSE @[m]]]
    /\ doomed' = [doomed EXCEPT ![w] =
                    @ \cup {m \in Ageing(f) : age[m] + ForceAge >= limit[w][f]}]
    /\ overlapped' = IF \E v \in Ticks \ {w} : f \in touched[v]
                     THEN overlapped \cup {f} ELSE overlapped
    /\ UNCHANGED <<rows, todo, limit, flushed, buried>>

\* Members of w's families that have died and are not buried yet.
Pending(w) == {m \in doomed[w] \ buried[w] : fam[m] \in flushed[w]}

\* The family whose turn it is, once the one before is done.
ItsTurn(w, f) == f \in touched[w] \ flushed[w] /\ Pending(w) = {}

\* The members read alive are aged; the first UPDATE of a row another tick
\* has written waits for that tick's end.
AgeMembers(w, f) ==
    /\ ItsTurn(w, f)
    /\ \A m \in Planned(w, f) : Stored(m) /\ \A v \in Ticks \ {w} : m \notin Locked(v)
    /\ flushed' = [flushed EXCEPT ![w] = @ \cup {f}]
    /\ UNCHANGED <<rows, todo, limit, touched, plan, doomed, buried, overlapped>>

\* What get_parent finds when m has been marked dead: the living parents, or
\* else any parent.  scalar_one_or_none raises on two of them.
ParentsFound(w, m) ==
    LET parents == {p \in Members : /\ Visible(w, p)
                                    /\ fam[p] = fam[m]
                                    /\ role[p] = "parent"}
        living == {p \in parents : alive[p] /\ p \notin buried[w] \cup {m}}
    IN IF living # {} THEN living ELSE parents

AtMostOne(S) == \A p, q \in S : p = q

\* Mutant of Bury: the heir gets the role label as its role in the family.
BuryByLabel(w, m, h) ==
    /\ m \in Pending(w)
    /\ AtMostOne(ParentsFound(w, m))
    /\ Insert(h, fam[m], "builder", w, m)
    /\ buried' = [buried EXCEPT ![w] = @ \cup {m}]
    /\ UNCHANGED <<todo, limit, touched, flushed, plan, doomed, overlapped>>

\* Mutant of Bury: the heir of a parent is entered as a child.
BuryAsChild(w, m, h) ==
    /\ m \in Pending(w)
    /\ AtMostOne(ParentsFound(w, m))
    /\ Insert(h, fam[m], "child", w, m)
    /\ buried' = [buried EXCEPT ![w] = @ \cup {m}]
    /\ UNCHANGED <<todo, limit, touched, flushed, plan, doomed, overlapped>>

\* A death: the member is marked deceased and _succeed_member inserts its
\* heir, in the same role.
Bury(w, m, h) ==
    /\ m \in Pending(w)
    /\ AtMostOne(ParentsFound(w, m))
    /\ Insert(h, fam[m], role[m], w, m)
    /\ buried' = [buried EXCEPT ![w] = @ \cup {m}]
    /\ UNCHANGED <<todo, limit, touched, flushed, plan, doomed, overlapped>>

EndTick(w) ==
    /\ todo' = [todo EXCEPT ![w] = {}]
    /\ limit' = [limit EXCEPT ![w] = [f \in Families |-> NoAge]]
    /\ touched' = [touched EXCEPT ![w] = {}]
    /\ flushed' = [flushed EXCEPT ![w] = {}]
    /\ plan' = [plan EXCEPT ![w] = [m \in Members |-> NoAge]]
    /\ doomed' = [doomed EXCEPT ![w] = {}]
    /\ buried' = [buried EXCEPT ![w] = {}]

\* One commit for all families of the tick.
CommitTick(w) ==
    /\ todo[w] # {} /\ flushed[w] = todo[w]
    /\ Pending(w) = {}
    /\ alive' = [m \in Members |-> alive[m] /\ m \notin buried[w]]
    /\ age' = [m \in Members |-> IF plan[w][m] # NoAge THEN plan[w][m] ELSE age[m]]
    /\ by' = [m \in Members |-> IF by[m] = w THEN Committed ELSE by[m]]
    /\ EndTick(w)
    /\ UNCHANGED <<policy, fam, role, heirOf, overlapped>>

\* The rows an abandoned transaction has inserted are gone.
DropInserts(w) ==
    /\ fam' = [m \in Members |-> IF by[m] = w THEN NoFamily ELSE fam[m]]
    /\ by' = [m \in Members |-> IF by[m] = w THEN Committed ELSE by[m]]
    /\ alive' = [m \in Members |-> IF by[m] = w THEN FALSE ELSE alive[m]]
    /\ heirOf' = [m \in Members |-> IF by[m] = w THEN NoMember ELSE heirOf[m]]
    /\ role' = [m \in Members |-> IF by[m] = w THEN "child" ELSE role[m]]
    /\ UNCHANGED <<policy, age>>

\* Errors the endpoint does not catch: get_parent raises MultipleResultsFound,
\* or the UPDATE of a row that was deleted since it was read matches nothing
\* (StaleDataError).  The tick ends with a 500 and everything it did is rolled
\* back, in every family.
RefuseTick(w) ==
    /\ \/ \E m \in Pending(w) : ~AtMostOne(ParentsFound(w, m))
       \/ \E f \in Families : ItsTurn(w, f) /\ \E m \in Planned(w, f) : ~Stored(m)
    /\ DropInserts(w)
    /\ EndTick(w)
    /\ UNCHANGED overlapped

\* A crash, a lost connection, a client that goes away.
AbandonTick(w) ==
    /\ todo[w] # {}
    /\ DropInserts(w)
    /\ EndTick(w)
    /\ UNCHANGED overlapped

-----------------------------------------------------------------------------
LifeTick(w) ==
    \/ \E f \in Families : ReadFamily(w, f) \/ AgeMembers(w, f)
    \/ \E m, h \in Members : Bury(w, m, h)
    \/ CommitTick(w)
    \/ RefuseTick(w)
    \/ AbandonTick(w)

LifeNext ==
    \/ \E f \in Families, m \in Members : CreateFamily(f, m) \/ SpawnChild(f, m)
    \/ \E m \in Members : DeleteAgent(m)
    \/ \E f \in Families, n \in Limits : UpdateFamilyPolicy(f, n)
    \/ \E w \in Ticks, S \in SUBSET Families : StartTick(w, S)
    \/ \E w \in Ticks : LifeTick(w)

LifeSpec == LifeInit /\ [][LifeNext]_lifeVars

-----------------------------------------------------------------------------
(* Properties.                                                             *)

\* The type invariant.
LifeTypeOK ==
    /\ policy \in [Families -> Limits]
    /\ fam \in [Members -> Families \cup {NoFamily}]
    /\ by \in [Members -> Ticks \cup {Committed, Deleted}]
    /\ role \in [Members -> {"parent", "child"}]
    /\ alive \in [Members -> BOOLEAN]
    /\ age \in [Members -> Nat]
    /\ heirOf \in [Members -> Members \cup {NoMember}]
    /\ todo \in [Ticks -> SUBSET Families]
    /\ limit \in [Ticks -> [Families -> Limits \cup {NoAge}]]
    /\ touched \in [Ticks -> SUBSET Families]
    /\ flushed \in [Ticks -> SUBSET Families]
    /\ plan \in [Ticks -> [Members -> Nat]]
    /\ doomed \in [Ticks -> SUBSET Members]
    /\ buried \in [Ticks -> SUBSET Members]
    /\ overlapped \in SUBSET Families

Living(f) == {m \in Members : Stored(m) /\ fam[m] = f /\ alive[m]}
Heirs(m) == {h \in Members : Stored(h) /\ heirOf[h] = m}

\* Nobody dies without an heir: whatever ticks overlap, are refused or are
\* abandoned, a member that is committed as deceased has a committed heir of
\* its family in its role, or had one until the heir's agent was deleted.
DeathPassesLegacy ==
    \A m \in Members : Stored(m) /\ ~alive[m] =>
        \E h \in Members : /\ by[h] \in {Committed, Deleted} /\ heirOf[h] = m
                            /\ fam[h] = fam[m] /\ role[h] = role[m]

\* A family never dies out: one that was founded has a living parent, unless
\* the agent of a living parent was deleted.
FamilyLives ==
    \A f \in Families : Founded(f) =>
        \E p \in Members : /\ by[p] \in {Committed, Deleted}
                            /\ fam[p] = f /\ alive[p] /\ role[p] = "parent"

\* In a family no two ticks have worked on at the same time, a member has one
\* heir at most, and only a dead member has one; there is one living parent.
\* (get_with_members locks nothing: overlapping ticks bury a member twice.)
OneSuccession ==
    \A f \in Families \ overlapped :
        /\ \A m \in Members : Stored(m) /\ fam[m] = f =>
              AtMostOne(Heirs(m)) /\ (alive[m] => Heirs(m) = {})
        /\ AtMostOne({p \in Living(f) : role[p] = "parent"})

-----------------------------------------------------------------------------
(* The inductive invariant behind DeathPassesLegacy and FamilyLives.       *)

\* A row that is not committed is an heir, alive, in a family that exists.
UncommittedRows ==
    \A m \in Members :
        /\ (by[m] # Committed => fam[m] # NoFamily)
        /\ (by[m] \in Ticks => alive[m] /\ Founded(fam[m]))

\* Whom a tick buries was committed when it was read, and from its ageing on
\* the row is locked and cannot be deleted.
DoomedAreStored ==
    \A w \in Ticks : \A m \in doomed[w] \cup buried[w] :
        /\ fam[m] # NoFamily
        /\ by[m] \in {Committed, Deleted}
        /\ plan[w][m] # NoAge
        /\ (m \in buried[w] => fam[m] \in flushed[w])
        /\ (fam[m] \in flushed[w] => Stored(m))

\* Whom a tick has buried has an heir in the same transaction.
BuriedHaveHeirs ==
    \A w \in Ticks : \A m \in buried[w] :
        \E h \in Members : /\ by[h] = w /\ heirOf[h] = m
                            /\ fam[h] = fam[m] /\ role[h] = role[m]

LifeInv ==
    /\ UncommittedRows
    /\ DoomedAreStored
    /\ BuriedHaveHeirs
    /\ DeathPassesLegacy
    /\ FamilyLives

-----------------------------------------------------------------------------
(* Statements of the repository that the code does not keep.               *)

\* get_parent asserts, with scalar_one_or_none, that a family has one living
\* parent, or one parent at all; life_tick relies on it to "pass legacy to
\* the next generation" at every death.
ParentIsUnique ==
    \A w \in Ticks : \A m \in Pending(w) : AtMostOne(ParentsFound(w, m))
=============================================================================
