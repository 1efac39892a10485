------------------------- MODULE ServerStartProofs -------------------------
(***************************************************************************)
(* Proofs about ServerStart, for any processes, presets, roles and bounds. *)
(*                                                                         *)
(* The argument rests on two facts that never turn back: a role that has a *)
(* node keeps one, and a preset that was seeded is there or was removed by *)
(* a request.  Both become true of everything in one commit, the first one *)
(* of a start, and no request is served before it.                         *)
(***************************************************************************)
EXTENDS ServerStart, TLAPS

\* A preset is there, or a request has taken it away.
SeededOnce(n) == seeded[n] > 0 \/ n \in removed
AllSeeded == \A n \in Names : SeededOnce(n)
ChartFull == \A r \in RoleSet : node[r] # None

\* What a start has done so far.
Progress(s) ==
    /\ pc[s] = "presets" =>
          \A i \in DOMAIN Presets : i < at[s] =>
              Presets[i] \in inserts[s] \/ SeededOnce(Presets[i])
    /\ pc[s] \in {"look", "insert"} =>
          /\ \A n \in Names : n \in inserts[s] \/ SeededOnce(n)
          /\ \A r \in RoleSet : r \in missing[s] \/ node[r] # None
          /\ \A i \in DOMAIN Roles : i < at[s] =>
                 node[Roles[i]] # None \/ nodeOf[Roles[i]] = s
    /\ pc[s] = "insert" => at[s] \in DOMAIN Roles

\* A start that is not under way has nothing uncommitted.
AtRest(s) ==
    /\ pc[s] \notin Starting => inserts[s] = {}
    /\ pc[s] \notin {"look", "insert"} => \A r \in RoleSet : nodeOf[r] # s

\* A start that found the chart full.
Late(s) ==
    s \in late =>
        /\ ChartFull
        /\ pc[s] # "insert"
        /\ pc[s] = "look" => missing[s] = {}
        /\ \A r \in RoleSet : nodeOf[r] # s
        /\ inserts[s] \subseteq removed

StartInv ==
    /\ TypeOK
    /\ \A s \in Servers : Progress(s) /\ AtRest(s) /\ Late(s)
    /\ (\E n \in Names : users[n] > 0) => AllSeeded
    /\ (\E r \in RoleSet : node[r] # None) => AllSeeded
    /\ Serving => ChartFull /\ AllSeeded

\* Positions of the two sequences.
LEMMA Positions ==
    /\ \A i \in DOMAIN Presets : Presets[i] \in Names
    /\ \A i \in DOMAIN Roles : Roles[i] \in RoleSet
    /\ DOMAIN Presets = 1..Len(Presets) /\ Len(Presets) \in Nat
    /\ DOMAIN Roles = 1..Len(Roles) /\ Len(Roles) \in Nat
    /\ RoleSet # {}
<1>1. Presets \in Seq(STRING) /\ Roles \in Seq(STRING) /\ Roles # <<>>
  BY StartAssumption
<1>2. Len(Roles) > 0
  BY <1>1
<1>3. /\ DOMAIN Presets = 1..Len(Presets) /\ Len(Presets) \in Nat
      /\ DOMAIN Roles = 1..Len(Roles) /\ Len(Roles) \in Nat
  BY <1>1
<1>4. /\ \A i \in DOMAIN Presets : Presets[i] \in Names
      /\ \A i \in DOMAIN Roles : Roles[i] \in RoleSet
  BY DEF Names, RoleSet
<1>5. 1 \in DOMAIN Roles
  BY <1>2, <1>3
<1>6. QED
  BY <1>3, <1>4, <1>5

-----------------------------------------------------------------------------
(* The type invariant.                                                     *)

LEMMA TypeInit == Init => TypeOK
  BY StartAssumption DEF Init, TypeOK, Starting, None

LEMMA TypeStart ==
    ASSUME TypeOK, NEW s \in Servers,
           Launch(s) \/ StartStep(s) \/ Abort(s) \/ Shutdown(s)
    PROVE  TypeOK'
<1>1. CASE Launch(s)
  BY <1>1 DEF Launch, Goto, TypeOK, Starting
<1>2. ASSUME Fail(s), faults' \in 0..MaxFaults PROVE TypeOK'
  BY <1>2 DEF Fail, Goto, TypeOK, Starting
<1>3. CASE SeedPreset(s)
  <2>1. CASE Fail(s) /\ UNCHANGED faults
    BY <2>1, <1>2 DEF TypeOK
  <2>2. CASE ~(Fail(s) /\ UNCHANGED faults)
    <3>1. Presets[at[s]] \in Names
      BY <1>3, Positions DEF SeedPreset, TypeOK
    <3>2. /\ \/ inserts' = [inserts EXCEPT ![s] = inserts[s] \cup {Presets[at[s]]}]
             \/ inserts' = [inserts EXCEPT ![s] = inserts[s]]
          /\ pc' = [pc EXCEPT ![s] = "presets"]
          /\ at' = [at EXCEPT ![s] = at[s] + 1]
          /\ UNCHANGED <<seeded, users, node, nodeOf, missing, removed, late, faults>>
      BY <1>3, <2>2 DEF SeedPreset, Goto, TypeOK
    <3>3. inserts' \in [Servers -> SUBSET Names]
      BY <3>1, <3>2 DEF TypeOK
    <3>4. QED
      BY <3>2, <3>3 DEF TypeOK, Starting
  <2>3. QED
    BY <2>1, <2>2
<1>4. CASE ListChart(s)
  BY <1>4 DEF ListChart, Goto, TypeOK, Starting
<1>5. CASE LookForRole(s)
  <2>1. Roles[at[s]] \in RoleSet
    BY <1>5, Positions DEF LookForRole, TypeOK
  <2>2. /\ \/ nodeOf' = nodeOf
           \/ nodeOf' = [nodeOf EXCEPT ![Roles[at[s]]] = s]
        /\ \/ pc' = [pc EXCEPT ![s] = "look"] /\ at' = [at EXCEPT ![s] = at[s] + 1]
           \/ pc' = [pc EXCEPT ![s] = "insert"] /\ at' = [at EXCEPT ![s] = at[s]]
        /\ UNCHANGED <<seeded, users, inserts, node, missing, removed, late, faults>>
    BY <1>5 DEF LookForRole, Goto
  <2>3. nodeOf' \in [RoleSet -> Servers \cup {None}]
    BY <2>1, <2>2 DEF TypeOK
  <2>4. QED
    BY <2>2, <2>3 DEF TypeOK, Starting
<1>6. CASE InsertRole(s)
  <2>1. CASE Fail(s) /\ UNCHANGED faults
    BY <2>1, <1>2 DEF TypeOK
  <2>2. CASE ~(Fail(s) /\ UNCHANGED faults)
    <3>1. /\ nodeOf' = [nodeOf EXCEPT ![Roles[at[s]]] = s]
          /\ pc' = [pc EXCEPT ![s] = "look"] /\ at' = [at EXCEPT ![s] = at[s] + 1]
          /\ UNCHANGED <<seeded, users, inserts, node, missing, removed, late, faults>>
      BY <1>6, <2>2 DEF InsertRole, Goto
    <3>2. nodeOf' \in [RoleSet -> Servers \cup {None}]
      BY <3>1 DEF TypeOK
    <3>3. QED
      BY <3>1, <3>2 DEF TypeOK, Starting
  <2>3. QED
    BY <2>1, <2>2
<1>7. CASE CommitStart(s)
  <2>1. seeded' \in [Names -> 0..MaxRows]
    BY <1>7, StartAssumption DEF CommitStart, TypeOK
  <2>2. QED
    BY <1>7, <2>1 DEF CommitStart, Goto, TypeOK, Starting
<1>8. CASE Abort(s)
  BY <1>8, <1>2, StartAssumption DEF Abort, TypeOK
<1>9. CASE Shutdown(s)
  BY <1>9 DEF Shutdown, Goto, TypeOK, Starting
<1>10. QED
  BY <1>1, <1>3, <1>4, <1>5, <1>6, <1>7, <1>8, <1>9 DEF StartStep

LEMMA TypeRequest ==
    ASSUME TypeOK, Request
    PROVE  TypeOK'
<1> USE StartAssumption
<1>1. ASSUME NEW n \in Names, NamePersona(n) PROVE TypeOK'
  BY <1>1 DEF NamePersona, TypeOK
<1>2. ASSUME NEW n \in Names, RemovePersona(n) PROVE TypeOK'
  <2>1. /\ seeded' \in [Names -> 0..MaxRows]
        /\ users' \in [Names -> 0..MaxRows]
        /\ removed' \subseteq Names
    <3>1. CASE /\ users[n] > 0 /\ users' = [users EXCEPT ![n] = @ - 1]
               /\ UNCHANGED <<seeded, removed>>
      BY <3>1 DEF TypeOK
    <3>2. CASE /\ seeded[n] > 0 /\ seeded' = [seeded EXCEPT ![n] = @ - 1]
               /\ removed' = removed \cup {n} /\ UNCHANGED users
      BY <3>2 DEF TypeOK
    <3>3. QED
      BY <1>2, <3>1, <3>2 DEF RemovePersona
  <2>2. UNCHANGED <<inserts, node, nodeOf, pc, at, missing, late, faults>>
    BY <1>2 DEF RemovePersona
  <2>3. QED
    BY <2>1, <2>2 DEF TypeOK
<1>3. ASSUME NEW r \in RoleSet, ChangeNode(r) PROVE TypeOK'
  BY <1>3 DEF ChangeNode, TypeOK
<1>4. QED
  BY <1>1, <1>2, <1>3 DEF Request

-----------------------------------------------------------------------------
(* What never turns back.                                                  *)

\* No step takes a node away, nor a preset without a request that did it.
LEMMA Monotone ==
    ASSUME TypeOK, Next
    PROVE  /\ \A n \in Names : SeededOnce(n) => SeededOnce(n)'
           /\ \A r \in RoleSet : node[r] # None => node'[r] # None
           /\ removed \subseteq removed'
<1>1. ASSUME NEW s \in Servers, CommitStart(s)
      PROVE  /\ \A n \in Names : seeded'[n] >= seeded[n]
             /\ \A r \in RoleSet : node[r] # None => node'[r] # None
             /\ removed' = removed
  BY <1>1 DEF CommitStart, TypeOK, None
<1>2. ASSUME NEW n \in Names, RemovePersona(n)
      PROVE  /\ node' = node
             /\ removed \subseteq removed'
             /\ \A k \in Names : seeded'[k] = seeded[k] \/ k \in removed'
  BY <1>2 DEF RemovePersona, TypeOK
<1>3. ASSUME NEW r \in RoleSet, ChangeNode(r)
      PROVE  /\ seeded' = seeded /\ removed' = removed
             /\ \A q \in RoleSet : node[q] # None => node'[q] # None
  BY <1>3 DEF ChangeNode, TypeOK, None
<1>4. ASSUME NEW s \in Servers,
             \/ Launch(s) \/ SeedPreset(s) \/ ListChart(s) \/ LookForRole(s)
             \/ InsertRole(s) \/ Abort(s) \/ Shutdown(s)
      PROVE  seeded' = seeded /\ node' = node /\ removed' = removed
  BY <1>4 DEF Launch, SeedPreset, ListChart, LookForRole, InsertRole, Abort,
              Shutdown, Fail
<1>5. ASSUME NEW n \in Names, NamePersona(n)
      PROVE  seeded' = seeded /\ node' = node /\ removed' = removed
  BY <1>5 DEF NamePersona
<1>6. ASSUME NEW s \in Servers,
             Launch(s) \/ StartStep(s) \/ Abort(s) \/ Shutdown(s)
      PROVE  /\ \A n \in Names : SeededOnce(n) => SeededOnce(n)'
             /\ \A r \in RoleSet : node[r] # None => node'[r] # None
             /\ removed \subseteq removed'
  <2>1. CASE CommitStart(s)
    <3>1. \A n \in Names : seeded'[n] >= seeded[n] /\ seeded[n] \in Nat
                                                  /\ seeded'[n] \in Nat
      BY <1>6, <1>1, <2>1, TypeStart, StartAssumption DEF TypeOK
    <3>2. QED
      BY <1>1, <2>1, <3>1 DEF SeededOnce
  <2>2. CASE ~CommitStart(s)
    BY <1>6, <1>4, <2>2 DEF StartStep, SeededOnce
  <2>3. QED
    BY <2>1, <2>2
<1>7. CASE Request
  BY <1>7, <1>2, <1>3, <1>5 DEF Request, SeededOnce, TypeOK
<1>8. QED
  BY <1>6, <1>7 DEF Next

-----------------------------------------------------------------------------
(* The inductive invariant.                                                *)

LEMMA InvInit == Init => StartInv
<1> SUFFICES ASSUME Init PROVE StartInv
  OBVIOUS
<1>1. TypeOK
  BY TypeInit
<1>2. \A s \in Servers : Progress(s) /\ AtRest(s) /\ Late(s)
  BY NoneAssumption DEF Init, Progress, AtRest, Late, Starting
<1>3. /\ ~(\E n \in Names : users[n] > 0)
      /\ ~(\E r \in RoleSet : node[r] # None)
      /\ ~Serving
  BY DEF Init, Serving
<1>4. QED
  BY <1>1, <1>2, <1>3 DEF StartInv

\* A step that does not touch what a start holds keeps what it knows.
LEMMA KeepsStart ==
    ASSUME TypeOK, Next, NEW s \in Servers,
           Progress(s), AtRest(s), Late(s),
           pc'[s] = pc[s], at'[s] = at[s], inserts'[s] = inserts[s],
           missing'[s] = missing[s], s \in late' <=> s \in late,
           \A r \in RoleSet : nodeOf'[r] = s <=> nodeOf[r] = s
    PROVE  Progress(s)' /\ AtRest(s)' /\ Late(s)'
<1>1. /\ \A n \in Names : SeededOnce(n) => SeededOnce(n)'
      /\ \A r \in RoleSet : node[r] # None => node'[r] # None
      /\ removed \subseteq removed'
  BY Monotone
<1>2. /\ \A i \in DOMAIN Presets : Presets[i] \in Names
      /\ \A i \in DOMAIN Roles : Roles[i] \in RoleSet
  BY Positions
<1>3. Progress(s)'
  BY <1>1, <1>2 DEF Progress
<1>4. AtRest(s)'
  BY DEF AtRest
<1>5. Late(s)'
  BY <1>1 DEF Late, ChartFull
<1>6. QED
  BY <1>3, <1>4, <1>5

\* The first commit of a start seeds everything, and nothing is there before.
LEMMA KeepsSeeded ==
    ASSUME StartInv, Next
    PROVE  /\ (\E n \in Names : users'[n] > 0) => AllSeeded'
           /\ (\E r \in RoleSet : node'[r] # None) => AllSeeded'
           /\ Serving' => ChartFull' /\ AllSeeded'
<1> USE DEF StartInv
<1>1. /\ AllSeeded => AllSeeded'
      /\ ChartFull => ChartFull'
  BY Monotone DEF AllSeeded, ChartFull
<1>2. ASSUME NEW s \in Servers, CommitStart(s)
      PROVE  AllSeeded' /\ ChartFull'
  <2>1. /\ \A n \in Names : n \in inserts[s] \/ SeededOnce(n)
        /\ \A r \in RoleSet : node[r] # None \/ nodeOf[r] = s
    <3>1. /\ pc[s] = "look"
          /\ \A i \in DOMAIN Roles : i < at[s]
      BY <1>2, Positions DEF CommitStart, TypeOK
    <3>2. QED
      BY <3>1 DEF Progress, RoleSet
  <2>2. \A n \in Names : n \in inserts[s] => seeded'[n] > 0
    BY <1>2, StartAssumption DEF CommitStart, TypeOK
  <2>3. \A n \in Names : SeededOnce(n) => SeededOnce(n)'
    BY Monotone
  <2>4. AllSeeded'
    BY <2>1, <2>2, <2>3 DEF AllSeeded, SeededOnce
  <2>5. ChartFull'
    BY <1>2, <2>1 DEF CommitStart, ChartFull, None
  <2>6. QED
    BY <2>4, <2>5
<1>3. CASE \E s \in Servers : CommitStart(s)
  BY <1>2, <1>3
<1>4. CASE ~(\E s \in Servers : CommitStart(s))
  <2>1. Serving' => Serving
    <3>1. ASSUME NEW s \in Servers,
                 Launch(s) \/ StartStep(s) \/ Abort(s) \/ Shutdown(s)
          PROVE  \A t \in Servers : pc'[t] = "up" => pc[t] = "up"
      <4>1. \E where \in Starting \cup {"failed", "down"} :
                pc' = [pc EXCEPT ![s] = where]
        BY <1>4, <3>1 DEF Launch, StartStep, Abort, Shutdown, SeedPreset, ListChart,
                          LookForRole, InsertRole, Fail, Goto, Starting
      <4>2. QED
        BY <4>1 DEF TypeOK, Starting
    <3>2. Request => pc' = pc
      BY DEF Request, NamePersona, RemovePersona, ChangeNode
    <3>3. QED
      BY <3>1, <3>2 DEF Next, Serving
  <2>2. CASE AllSeeded
    BY <1>1, <2>1, <2>2
  <2>3. CASE ~AllSeeded
    <3>1. ~Request
      BY <2>3 DEF Request, NamePersona, RemovePersona, ChangeNode
    <3>2. users' = users /\ node' = node
      BY <1>4, <3>1 DEF Next, Launch, StartStep, Abort, Shutdown, SeedPreset, ListChart,
                        LookForRole, InsertRole, Fail
    <3>3. QED
      BY <2>1, <2>3, <3>2
  <2>4. QED
    BY <2>2, <2>3
<1>5. QED
  BY <1>3, <1>4

\* What the steps of a process do to its own start.
LEMMA KeepsOwn ==
    ASSUME StartInv, NEW s \in Servers,
           Launch(s) \/ StartStep(s) \/ Abort(s) \/ Shutdown(s)
    PROVE  Progress(s)' /\ AtRest(s)' /\ Late(s)'
<1>0. Next
  BY DEF Next
<1>1. /\ \A n \in Names : SeededOnce(n) => SeededOnce(n)'
      /\ \A r \in RoleSet : node[r] # None => node'[r] # None
      /\ removed \subseteq removed'
      /\ ChartFull => ChartFull'
  BY <1>0, Monotone DEF StartInv, ChartFull
<1>2. TypeOK /\ Progress(s) /\ AtRest(s) /\ Late(s) /\ s # None
  BY NoneAssumption DEF StartInv
<1>3. ASSUME Fail(s)
      PROVE  Progress(s)' /\ AtRest(s)' /\ Late(s)'
  <2>1. /\ pc'[s] = "failed" /\ inserts'[s] = {} /\ late' = late
        /\ \A r \in RoleSet : nodeOf'[r] # s
    BY <1>2, <1>3 DEF Fail, Goto, TypeOK
  <2>2. QED
    BY <1>1, <1>2, <2>1 DEF Progress, AtRest, Late, Starting
<1>4. CASE Launch(s)
  <2>1. /\ pc'[s] = "presets" /\ at'[s] = 1 /\ inserts'[s] = {}
        /\ \A r \in RoleSet : nodeOf'[r] # s
        /\ s \in late' => ChartFull
    BY <1>2, <1>4 DEF Launch, Goto, TypeOK, AtRest, ChartFull, Starting
  <2>2. QED
    BY <1>1, <2>1, Positions DEF Progress, AtRest, Late, Starting
<1>5. CASE SeedPreset(s)
  <2>1. CASE Fail(s)
    BY <1>3, <2>1
  <2>2. CASE ~Fail(s)
    <3> DEFINE n == Presets[at[s]]
    <3>1. n \in Names /\ pc[s] = "presets"
      BY <1>2, <1>5, Positions DEF SeedPreset, TypeOK
    <3>2. /\ Visible(s, n) <= 1
          /\ inserts'[s] = IF Visible(s, n) = 0 THEN inserts[s] \cup {n} ELSE inserts[s]
          /\ pc'[s] = "presets" /\ at'[s] = at[s] + 1
          /\ UNCHANGED <<seeded, users, node, nodeOf, removed, late>>
      <4>1. Visible(s, n) \in Nat
        BY <1>2, <3>1, StartAssumption DEF TypeOK, Visible
      <4>2. ~(Visible(s, n) > 1)
        BY <1>5, <2>2 DEF SeedPreset
      <4>3. /\ inserts' = [inserts EXCEPT
                   ![s] = IF Visible(s, n) = 0 THEN @ \cup {n} ELSE @]
            /\ pc' = [pc EXCEPT ![s] = "presets"]
            /\ at' = [at EXCEPT ![s] = at[s] + 1]
            /\ UNCHANGED <<seeded, users, node, nodeOf, removed, late>>
        BY <1>5, <4>2 DEF SeedPreset, Goto
      <4>4. QED
        BY <1>2, <4>1, <4>2, <4>3 DEF TypeOK
    <3>3. Visible(s, n) # 0 => n \in inserts[s] \/ SeededOnce(n)
      <4>1. /\ seeded[n] \in Nat /\ users[n] \in Nat
            /\ users[n] > 0 => SeededOnce(n)
        BY <1>2, <3>1, StartAssumption DEF TypeOK, StartInv, AllSeeded
      <4>2. QED
        BY <4>1 DEF Visible, SeededOnce
    <3>4. s \in late /\ Visible(s, n) = 0 => n \in removed
      <4>1. s \in late => SeededOnce(n)
        BY <1>2, <3>1, Positions DEF Late, ChartFull, StartInv, AllSeeded
      <4>2. seeded[n] \in Nat /\ users[n] \in Nat
        BY <1>2, <3>1, StartAssumption DEF TypeOK
      <4>3. QED
        BY <4>1, <4>2 DEF Visible, SeededOnce
    <3>5. Progress(s)'
      <4>1. ASSUME NEW i \in DOMAIN Presets, i < at[s] + 1
            PROVE  Presets[i] \in inserts'[s] \/ SeededOnce(Presets[i])'
        <5>1. i \in Nat /\ at[s] \in Nat /\ Presets[i] \in Names
          BY <1>2, Positions DEF TypeOK
        <5>2. CASE i < at[s]
          BY <1>1, <1>2, <3>1, <3>2, <5>1, <5>2 DEF Progress
        <5>3. CASE i = at[s]
          BY <1>1, <3>1, <3>2, <3>3, <5>3
        <5>4. QED
          BY <4>1, <5>1, <5>2, <5>3
      <4>2. QED
        BY <3>2, <4>1 DEF Progress
    <3>6. AtRest(s)'
      BY <1>2, <3>1, <3>2 DEF AtRest, Starting
    <3>7. Late(s)'
      BY <1>1, <1>2, <3>2, <3>4 DEF Late
    <3>8. QED
      BY <3>5, <3>6, <3>7
  <2>3. QED
    BY <2>1, <2>2
<1>6. CASE ListChart(s)
  <2>1. /\ pc[s] = "presets" /\ pc'[s] = "look" /\ at'[s] = 1
        /\ missing'[s] = {r \in RoleSet : node[r] = None}
        /\ UNCHANGED <<seeded, users, inserts, node, nodeOf, removed, late>>
        /\ \A i \in DOMAIN Presets : i < at[s]
    BY <1>2, <1>6, Positions DEF ListChart, Goto, TypeOK
  <2>2. \A n \in Names : n \in inserts'[s] \/ SeededOnce(n)'
    BY <1>1, <1>2, <2>1 DEF Progress, Names
  <2>3. Progress(s)'
    BY <2>1, <2>2, Positions DEF Progress
  <2>4. QED
    BY <1>1, <1>2, <2>1, <2>3 DEF AtRest, Late, ChartFull, Starting
<1>7. CASE LookForRole(s)
  <2> DEFINE r == Roles[at[s]]
  <2>1. /\ pc[s] = "look" /\ at[s] \in DOMAIN Roles /\ r \in RoleSet
        /\ UNCHANGED <<seeded, users, inserts, node, missing, removed, late>>
    BY <1>2, <1>7, Positions DEF LookForRole, TypeOK
  <2>2. CASE /\ r \notin missing[s]
             /\ pc'[s] = "look" /\ at'[s] = at[s] + 1 /\ nodeOf' = nodeOf
    <3>1. node[r] # None
      BY <1>2, <2>1, <2>2 DEF Progress
    <3>2. Progress(s)'
      <4>1. ASSUME NEW i \in DOMAIN Roles, i < at[s] + 1
            PROVE  node[Roles[i]] # None \/ nodeOf[Roles[i]] = s
        <5>1. i < at[s] \/ i = at[s]
          BY <4>1, <2>1, Positions
        <5>2. QED
          BY <1>2, <2>1, <3>1, <5>1 DEF Progress
      <4>2. QED
        BY <1>1, <1>2, <2>1, <2>2, <4>1 DEF Progress
    <3>3. QED
      BY <1>1, <1>2, <2>1, <2>2, <3>2 DEF AtRest, Late, Starting
  <2>3. CASE /\ r \in missing[s]
             /\ pc'[s] = "insert" /\ at'[s] = at[s] /\ nodeOf' = nodeOf
    <3>1. s \notin late
      BY <1>2, <2>1, <2>3 DEF Late
    <3>2. Progress(s)'
      BY <1>1, <1>2, <2>1, <2>3 DEF Progress
    <3>3. QED
      BY <1>2, <2>1, <2>3, <3>1, <3>2 DEF AtRest, Late, Starting
  <2>4. CASE /\ r \in missing[s]
             /\ pc'[s] = "look" /\ at'[s] = at[s] + 1
             /\ nodeOf' = [nodeOf EXCEPT ![r] = s]
    <3>1. s \notin late
      BY <1>2, <2>1, <2>4 DEF Late
    <3>2. /\ nodeOf'[r] = s
          /\ \A q \in RoleSet : nodeOf[q] = s => nodeOf'[q] = s
      BY <1>2, <2>1, <2>4 DEF TypeOK
    <3>3. Progress(s)'
      <4>1. ASSUME NEW i \in DOMAIN Roles, i < at[s] + 1
            PROVE  node[Roles[i]] # None \/ nodeOf'[Roles[i]] = s
        <5>1. (i < at[s] \/ i = at[s]) /\ Roles[i] \in RoleSet
          BY <4>1, <2>1, Positions
        <5>2. QED
          BY <1>2, <2>1, <3>2, <5>1 DEF Progress
      <4>2. QED
        BY <1>1, <1>2, <2>1, <2>4, <4>1 DEF Progress
    <3>4. QED
      BY <1>2, <2>1, <2>4, <3>1, <3>3 DEF AtRest, Late, Starting
  <2>5. QED
    BY <1>2, <1>7, <2>2, <2>3, <2>4 DEF LookForRole, Goto, TypeOK
<1>8. CASE InsertRole(s)
  <2>1. CASE Fail(s)
    BY <1>3, <2>1
  <2>2. CASE ~Fail(s)
    <3> DEFINE r == Roles[at[s]]
    <3>1. /\ pc[s] = "insert" /\ at[s] \in DOMAIN Roles /\ r \in RoleSet
          /\ s \notin late
      BY <1>2, <1>8, Positions DEF InsertRole, Progress, Late
    <3>2. /\ pc'[s] = "look" /\ at'[s] = at[s] + 1
          /\ nodeOf' = [nodeOf EXCEPT ![r] = s]
          /\ UNCHANGED <<seeded, users, inserts, node, missing, removed, late>>
      BY <1>2, <1>8, <2>2 DEF InsertRole, Goto, TypeOK
    <3>3. /\ nodeOf'[r] = s
          /\ \A q \in RoleSet : nodeOf[q] = s => nodeOf'[q] = s
      BY <1>2, <3>1, <3>2 DEF TypeOK
    <3>4. Progress(s)'
      <4>1. ASSUME NEW i \in DOMAIN Roles, i < at[s] + 1
            PROVE  node[Roles[i]] # None \/ nodeOf'[Roles[i]] = s
        <5>1. (i < at[s] \/ i = at[s]) /\ Roles[i] \in RoleSet
          BY <4>1, <3>1, Positions
        <5>2. QED
          BY <1>2, <3>1, <3>3, <5>1 DEF Progress
      <4>2. QED
        BY <1>1, <1>2, <3>1, <3>2, <4>1 DEF Progress
    <3>5. QED
      BY <1>2, <3>1, <3>2, <3>4 DEF AtRest, Late, Starting
  <2>3. QED
    BY <2>1, <2>2
<1>9. CASE CommitStart(s)
  <2>1. /\ pc'[s] = "up" /\ inserts'[s] = {} /\ late' = late
        /\ \A r \in RoleSet : nodeOf'[r] # s
    BY <1>2, <1>9 DEF CommitStart, Goto, TypeOK
  <2>2. QED
    BY <1>1, <1>2, <2>1 DEF Progress, AtRest, Late, Starting
<1>10. CASE Shutdown(s)
  <2>1. /\ pc[s] = "up" /\ pc'[s] = "down"
        /\ UNCHANGED <<inserts, nodeOf, late, removed>>
    BY <1>2, <1>10 DEF Shutdown, Goto, TypeOK
  <2>2. QED
    BY <1>1, <1>2, <2>1 DEF Progress, AtRest, Late, Starting
<1>11. QED
  BY <1>3, <1>4, <1>5, <1>6, <1>7, <1>8, <1>9, <1>10 DEF StartStep, Abort

\* A process does not touch what another start holds.
LEMMA KeepsOthers ==
    ASSUME StartInv, NEW s \in Servers,
           Launch(s) \/ StartStep(s) \/ Abort(s) \/ Shutdown(s),
           NEW t \in Servers, t # s
    PROVE  /\ pc'[t] = pc[t] /\ at'[t] = at[t] /\ inserts'[t] = inserts[t]
           /\ missing'[t] = missing[t] /\ (t \in late' <=> t \in late)
           /\ \A r \in RoleSet : nodeOf'[r] = t <=> nodeOf[r] = t
<1>1. TypeOK /\ t # None /\ s # None
  BY NoneAssumption DEF StartInv
<1>2. pc'[t] = pc[t] /\ at'[t] = at[t]
  BY <1>1 DEF TypeOK, Launch, StartStep, Abort, Shutdown, SeedPreset, ListChart,
              LookForRole, InsertRole, CommitStart, Fail, Goto
<1>3. inserts'[t] = inserts[t] /\ missing'[t] = missing[t]
  BY <1>1 DEF TypeOK, Launch, StartStep, Abort, Shutdown, SeedPreset, ListChart,
              LookForRole, InsertRole, CommitStart, Fail
<1>4. t \in late' <=> t \in late
  BY DEF Launch, StartStep, Abort, Shutdown, SeedPreset, ListChart,
         LookForRole, InsertRole, CommitStart, Fail
<1>5. \/ nodeOf' = nodeOf
      \/ nodeOf' = [r \in RoleSet |-> IF nodeOf[r] = s THEN None ELSE nodeOf[r]]
      \/ nodeOf[Roles[at[s]]] = None /\ nodeOf' = [nodeOf EXCEPT ![Roles[at[s]]] = s]
  BY DEF Launch, StartStep, Abort, Shutdown, SeedPreset, ListChart,
         LookForRole, InsertRole, CommitStart, Fail
<1>6. \A r \in RoleSet : nodeOf'[r] = t <=> nodeOf[r] = t
  BY <1>1, <1>5 DEF TypeOK
<1>7. QED
  BY <1>2, <1>3, <1>4, <1>6

LEMMA InvNext == StartInv /\ [Next]_vars => StartInv'
<1> SUFFICES ASSUME StartInv, [Next]_vars PROVE StartInv'
  OBVIOUS
<1>1. CASE UNCHANGED vars
  BY <1>1 DEF StartInv, vars, TypeOK, Progress, AtRest, Late, SeededOnce, AllSeeded,
              ChartFull, Serving
<1>2. CASE Next
  <2>1. TypeOK'
    BY <1>2, TypeStart, TypeRequest DEF Next, StartInv
  <2>2. ASSUME NEW s \in Servers,
               Launch(s) \/ StartStep(s) \/ Abort(s) \/ Shutdown(s),
               NEW t \in Servers
        PROVE  Progress(t)' /\ AtRest(t)' /\ Late(t)'
    <3>1. CASE t = s
      BY <2>2, <3>1, KeepsOwn
    <3>2. CASE t # s
      BY <1>2, <2>2, <3>2, KeepsOthers, KeepsStart DEF StartInv
    <3>3. QED
      BY <3>1, <3>2
  <2>3. ASSUME Request, NEW t \in Servers
        PROVE  Progress(t)' /\ AtRest(t)' /\ Late(t)'
    <3>1. UNCHANGED <<inserts, nodeOf, pc, at, missing, late>>
      BY <2>3 DEF Request, NamePersona, RemovePersona, ChangeNode
    <3>2. QED
      BY <1>2, <3>1, KeepsStart DEF StartInv
  <2>4. \A t \in Servers : Progress(t)' /\ AtRest(t)' /\ Late(t)'
    BY <1>2, <2>2, <2>3 DEF Next
  <2>5. /\ (\E n \in Names : users'[n] > 0) => AllSeeded'
        /\ (\E r \in RoleSet : node'[r] # None) => AllSeeded'
        /\ Serving' => ChartFull' /\ AllSeeded'
    BY <1>2, KeepsSeeded
  <2>6. QED
    BY <2>1, <2>4, <2>5 DEF StartInv
<1>3. QED
  BY <1>1, <1>2

\* What starts rely on holds in every state, however many processes start,
\* fail and are launched again, and whatever requests rename or delete.
THEOREM StartCorrect == Spec => []StartInv
  BY InvInit, InvNext, PTL DEF Spec

\* The columns a start and the requests write keep their types.
THEOREM StartTypes == Spec => []TypeOK
<1>1. StartInv => TypeOK
  BY DEF StartInv
<1>2. QED
  BY <1>1, StartCorrect, PTL

\* lifespan yields only after its commit: while any process serves, every
\* role has a node and every preset is there or was removed by a request.
THEOREM ServedDatabaseIsSeeded == Spec => []UpMeansSeeded
<1>1. StartInv => UpMeansSeeded
  BY DEF StartInv, UpMeansSeeded, ChartFull, AllSeeded, SeededOnce
<1>2. QED
  BY <1>1, StartCorrect, PTL

\* A start launched on a seeded database writes to no node of the org chart
\* and inserts only presets that requests have removed.
THEOREM RestartsChangeNothing == Spec => []RestartsAreIdempotent
<1>1. StartInv => RestartsAreIdempotent
  BY DEF StartInv, RestartsAreIdempotent, Late, TypeOK
<1>2. QED
  BY <1>1, StartCorrect, PTL

=============================================================================
