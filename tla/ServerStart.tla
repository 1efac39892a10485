---------------------------- MODULE ServerStart ----------------------------
(***************************************************************************)
(* The start of server processes (lifespan of api/main.py): one            *)
(* transaction seeds the presets that no persona is named after, then the  *)
(* roles the default org chart lacks, and only then requests are served.   *)
(* Persona names are not unique; (team_id, role) of the org chart is.      *)
(* get_by_name raises when two personas have the name, and an exception    *)
(* ends the process, which its manager starts again.                       *)
(*                                                                         *)
(* PostgreSQL's row locks and unique constraint, and the process manager,  *)
(* are external.  Requests are modelled as they change names and roles;    *)
(* teams other than the default one have no part in the start.             *)
(***************************************************************************)
EXTENDS Naturals, Sequences, FiniteSets

CONSTANTS
    Servers,  \* worker processes
    Presets,  \* sequence of preset names, in the order they are seeded
    Roles,    \* sequence of default roles, in the order they are seeded
    MaxRows,  \* bound: personas of a name and kind
    MaxFaults \* bound: starts that are killed or lose the database

ASSUME StartAssumption ==
    /\ Presets \in Seq(STRING)
    /\ Roles \in Seq(STRING) \ {<<>>}
    /\ MaxRows \in Nat \ {0}
    /\ MaxFaults \in Nat

Names == {Presets[i] : i \in DOMAIN Presets}
RoleSet == {Roles[i] : i \in DOMAIN Roles}

VARIABLES
    seeded,   \* committed preset rows of a name
    users,    \* committed other personas of a name
    inserts,  \* names a start has inserted a preset for, uncommitted
    node,     \* the committed node of a role: none, default or custom
    nodeOf,   \* the start that has inserted or updated the node, uncommitted
    pc,       \* what a process does
    at,       \* position in Presets or Roles
    missing,  \* roles a start found missing
    faults,   \* starts that were killed or lost the database
    late,     \* history: starts launched when the chart had been seeded
    removed   \* history: names of presets that were deleted or renamed

vars == <<seeded, users, inserts, node, nodeOf, pc, at, missing, faults, late, removed>>

None == "none"
ASSUME NoneAssumption == None \notin Servers

Starting == {"presets", "look", "insert"}

Init ==
    /\ seeded = [n \in Names |-> 0]
    /\ users = [n \in Names |-> 0]
    /\ inserts = [s \in Servers |-> {}]
    /\ node = [r \in RoleSet |-> None]
    /\ nodeOf = [r \in RoleSet |-> None]
    /\ pc = [s \in Servers |-> "down"]
    /\ at = [s \in Servers |-> 1]
    /\ missing = [s \in Servers |-> {}]
    /\ faults = 0
    /\ late = {}
    /\ removed = {}

-----------------------------------------------------------------------------
\* Rows of a name that a start sees: committed ones and its own.
Visible(s, n) == seeded[n] + users[n] + (IF n \in inserts[s] THEN 1 ELSE 0)

Serving == \E s \in Servers : pc[s] = "up"

Goto(s, where, position) ==
    /\ pc' = [pc EXCEPT ![s] = where]
    /\ at' = [at EXCEPT ![s] = position]

\* A process is started, for the first time or again.
Launch(s) ==
    /\ pc[s] \in {"down", "failed"}
    /\ Goto(s, "presets", 1)
    /\ late' = IF \A r \in RoleSet : node[r] # None THEN late \cup {s} ELSE late \ {s}
    /\ UNCHANGED <<seeded, users, inserts, node, nodeOf, missing, removed, faults>>

\* Mutant of Fail: the exception of the seeding is swallowed.
FailAndServe(s) ==
    /\ Goto(s, "up", 1)
    /\ inserts' = [inserts EXCEPT ![s] = {}]
    /\ nodeOf' = [r \in RoleSet |-> IF nodeOf[r] = s THEN None ELSE nodeOf[r]]
    /\ missing' = [missing EXCEPT ![s] = {}]
    /\ UNCHANGED <<seeded, users, node, late, removed>>

\* An exception ends the start; its transaction is rolled back.
Fail(s) ==
    /\ Goto(s, "failed", 1)
    /\ inserts' = [inserts EXCEPT ![s] = {}]
    /\ nodeOf' = [r \in RoleSet |-> IF nodeOf[r] = s THEN None ELSE nodeOf[r]]
    /\ missing' = [missing EXCEPT ![s] = {}]
    /\ UNCHANGED <<seeded, users, node, late, removed>>

\* Mutant of SeedPreset: get_by_name wants exactly one row.
SeedPresetStrict(s) ==
    /\ pc[s] = "presets" /\ at[s] <= Len(Presets)
    /\ IF Visible(s, Presets[at[s]]) # 1
       THEN Fail(s) /\ UNCHANGED faults
       ELSE /\ Goto(s, "presets", at[s] + 1)
            /\ UNCHANGED <<seeded, users, inserts, node, nodeOf, missing, removed, late, faults>>

\* seed_presets, one name.
SeedPreset(s) ==
    /\ pc[s] = "presets" /\ at[s] <= Len(Presets)
    /\ LET n == Presets[at[s]]
       IN  IF Visible(s, n) > 1
           THEN Fail(s) /\ UNCHANGED faults
           ELSE /\ inserts' = [inserts EXCEPT
                       ![s] = IF Visible(s, n) = 0 THEN @ \cup {n} ELSE @]
                /\ Goto(s, "presets", at[s] + 1)
                /\ UNCHANGED <<seeded, users, node, nodeOf, missing, removed, late, faults>>

\* _ensure_seeded lists the roles of the chart, and then takes one default
\* role after the other.
ListChart(s) ==
    /\ pc[s] = "presets" /\ at[s] > Len(Presets)
    /\ missing' = [missing EXCEPT ![s] = {r \in RoleSet : node[r] = None}]
    /\ Goto(s, "look", 1)
    /\ UNCHANGED <<seeded, users, inserts, node, nodeOf, removed, late, faults>>

\* Mutant of LookForRole: every default role is put back.
LookForRoleAlways(s) ==
    /\ pc[s] = "look" /\ at[s] <= Len(Roles)
    /\ LET r == Roles[at[s]]
       IN  IF node[r] = None
           THEN Goto(s, "insert", at[s]) /\ UNCHANGED nodeOf
           ELSE /\ nodeOf[r] = None
                /\ nodeOf' = [nodeOf EXCEPT ![r] = s]
                /\ Goto(s, "look", at[s] + 1)
    /\ UNCHANGED <<seeded, users, inserts, node, missing, removed, late, faults>>

\* upsert looks for the node once more.  One that is there by now is
\* overwritten, once its row is free.
LookForRole(s) ==
    /\ pc[s] = "look" /\ at[s] <= Len(Roles)
    /\ LET r == Roles[at[s]]
       IN  IF r \notin missing[s]
           THEN Goto(s, "look", at[s] + 1) /\ UNCHANGED nodeOf
           ELSE IF node[r] = None
           THEN Goto(s, "insert", at[s]) /\ UNCHANGED nodeOf
           ELSE /\ nodeOf[r] = None
                /\ nodeOf' = [nodeOf EXCEPT ![r] = s]
                /\ Goto(s, "look", at[s] + 1)
    /\ UNCHANGED <<seeded, users, inserts, node, missing, removed, late, faults>>

\* The insert waits for another uncommitted one and fails if that commits.
InsertRole(s) ==
    /\ pc[s] = "insert"
    /\ LET r == Roles[at[s]]
       IN  /\ nodeOf[r] = None
           /\ IF node[r] # None
              THEN Fail(s) /\ UNCHANGED faults
              ELSE /\ nodeOf' = [nodeOf EXCEPT ![r] = s]
                   /\ Goto(s, "look", at[s] + 1)
                   /\ UNCHANGED <<seeded, users, inserts, node, missing, removed, late, faults>>

\* The commit; the process serves from here on.
CommitStart(s) ==
    /\ pc[s] = "look" /\ at[s] > Len(Roles)
    /\ \A n \in inserts[s] : seeded[n] < MaxRows
    /\ seeded' = [n \in Names |-> seeded[n] + (IF n \in inserts[s] THEN 1 ELSE 0)]
    /\ inserts' = [inserts EXCEPT ![s] = {}]
    /\ node' = [r \in RoleSet |-> IF nodeOf[r] = s THEN "default" ELSE node[r]]
    /\ nodeOf' = [r \in RoleSet |-> IF nodeOf[r] = s THEN None ELSE nodeOf[r]]
    /\ missing' = [missing EXCEPT ![s] = {}]
    /\ Goto(s, "up", 1)
    /\ UNCHANGED <<users, removed, late, faults>>

\* The database is lost or the process is killed during the start.
Abort(s) ==
    /\ pc[s] \in Starting
    /\ faults < MaxFaults
    /\ faults' = faults + 1
    /\ Fail(s)

Shutdown(s) ==
    /\ pc[s] = "up"
    /\ Goto(s, "down", 1)
    /\ UNCHANGED <<seeded, users, inserts, node, nodeOf, missing, removed, late, faults>>

-----------------------------------------------------------------------------
\* Requests, which some process serves.  A persona gets a preset's name.
NamePersona(n) ==
    /\ Serving
    /\ users[n] < MaxRows
    /\ users' = [users EXCEPT ![n] = @ + 1]
    /\ UNCHANGED <<seeded, inserts, node, nodeOf, pc, at, missing, removed, late, faults>>

\* delete_persona, or update_persona with another name; presets are not spared.
RemovePersona(n) ==
    /\ Serving
    /\ \/ /\ users[n] > 0
          /\ users' = [users EXCEPT ![n] = @ - 1]
          /\ UNCHANGED <<seeded, removed>>
       \/ /\ seeded[n] > 0
          /\ seeded' = [seeded EXCEPT ![n] = @ - 1]
          /\ removed' = removed \cup {n}
          /\ UNCHANGED users
    /\ UNCHANGED <<inserts, node, nodeOf, pc, at, missing, late, faults>>

\* upsert_org_node and deactivate_org_node; all roles are there by now.
ChangeNode(r) ==
    /\ Serving
    /\ nodeOf[r] = None
    /\ node' = [node EXCEPT ![r] = "custom"]
    /\ UNCHANGED <<seeded, users, inserts, nodeOf, pc, at, missing, removed, late, faults>>

StartStep(s) ==
    \/ SeedPreset(s) \/ ListChart(s) \/ LookForRole(s)
    \/ InsertRole(s) \/ CommitStart(s)

Request ==
    \/ \E n \in Names : NamePersona(n) \/ RemovePersona(n)
    \/ \E r \in RoleSet : ChangeNode(r)

Next ==
    \/ \E s \in Servers : Launch(s) \/ StartStep(s) \/ Abort(s) \/ Shutdown(s)
    \/ Request

Spec == Init /\ [][Next]_vars

\* Processes run, and their manager starts them again.
FairSpec == Spec /\ \A s \in Servers : WF_vars(Launch(s)) /\ WF_vars(StartStep(s))

-----------------------------------------------------------------------------
TypeOK ==
    /\ seeded \in [Names -> 0..MaxRows]
    /\ users \in [Names -> 0..MaxRows]
    /\ inserts \in [Servers -> SUBSET Names]
    /\ node \in [RoleSet -> {None, "default", "custom"}]
    /\ nodeOf \in [RoleSet -> Servers \cup {None}]
    /\ pc \in [Servers -> Starting \cup {"down", "failed", "up"}]
    /\ at \in [Servers -> Nat \ {0}]
    /\ missing \in [Servers -> SUBSET RoleSet]
    /\ faults \in 0..MaxFaults
    /\ late \subseteq Servers
    /\ removed \subseteq Names

\* A process that serves stands on a seeded database: every role has a node,
\* and every preset its persona, unless a request has taken it away.
UpMeansSeeded ==
    Serving =>
        /\ \A r \in RoleSet : node[r] # None
        /\ \A n \in Names : seeded[n] > 0 \/ n \in removed

\* A restart is idempotent: a start launched after the first process has
\* served finds every role, so it writes to no node, and inserts no preset
\* but those that requests have removed.  (Starts that overlap the first one
\* may put back a node a user has just changed.)
RestartsAreIdempotent ==
    \A s \in late :
        /\ \A r \in RoleSet : nodeOf[r] # s
        /\ pc[s] # "insert"
        /\ inserts[s] \subseteq removed

\* A start ends, and with a served process, unless two personas have the name
\* of a preset: conflicts with other starts are over once one has committed.
ComesUp ==
    \A s \in Servers :
        pc[s] \in Starting ~>
            pc[s] = "up" \/ \E n \in Names : seeded[n] + users[n] > 1
=============================================================================
