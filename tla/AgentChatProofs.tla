-------------------------- MODULE AgentChatProofs --------------------------
(***************************************************************************)
(* Proofs about AgentChat, for any requests, agents and session ids.       *)
(*                                                                         *)
(* NoDangling and TurnIsWhole say nothing of the requests under way, and   *)
(* are not inductive.  What makes them so is what a request knows between  *)
(* its statements: whose its rows are, that a session it inserted is its   *)
(* own until it commits, that rows it waits with cannot be deleted, and    *)
(* that its messages are committed exactly when it has been answered       *)
(* (ChatInv).  CountExactUnlessRaced and ContextIsTranscript need more on  *)
(* top of that: what a request has loaded, how many messages it has added, *)
(* and the counts of sessions nobody sees yet (TalkInv).                   *)
(***************************************************************************)
EXTENDS AgentChat, FiniteSetTheorems, TLAPS

\* The messages of a request are in its session, and uncommitted as long as
\* it works; committed ones are gone with their session.
OwnMessages ==
    \A m \in messages :
        /\ m.row = row[m.req]
        /\ m.at < clock
        /\ pc[m.req] \in {"llm", "appended", "ok"}
        /\ m.done <=> pc[m.req] = "ok"
        /\ m.done => session[m.row] = "stored"

\* What a request has found out, by where it is.
Knows(r) ==
    /\ pc[r] = "create" => op[r] \in {"invoke", "open"} /\ want[r] \in Sids
    /\ pc[r] \in {"history", "turn", "llm"} => op[r] = "invoke"
    /\ pc[r] \in {"append", "appended"} => op[r] = "append"
    /\ pc[r] \in {"create", "history", "turn", "llm", "delete agent"} => who[r] \in Agents
    /\ pc[r] \in {"history", "turn", "llm", "append", "appended", "delete session"} =>
          row[r] \in Rows
    /\ pc[r] = "delete session" => row[r] # r
    /\ pc[r] \in {"llm", "appended"} =>
          \/ session[row[r]] = "stored"
          \/ session[row[r]] = "open" /\ row[r] = r

\* The session row a request inserts, and the one it works on.
OwnSession(r) ==
    /\ session[r] # "none" => pc[r] \notin {"idle", "create"}
    /\ session[r] = "open" =>
          row[r] = r /\ owner[r] = who[r] /\ pc[r] \in {"history", "turn", "llm"}
    /\ row[r] \in Rows /\ row[r] # r => session[row[r]] \in {"stored", "deleted"}
    /\ session[r] \in {"open", "stored"} => owner[r] \in Agents /\ agent[owner[r]] = "stored"

\* The run a request inserts.
OwnRun(r) ==
    /\ run[r] # "none" =>
          /\ op[r] = "invoke" /\ pc[r] \in {"llm", "ok"}
          /\ row[r] \in Rows
          /\ who[r] \in Agents /\ agent[who[r]] = "stored"
    /\ run[r] = "running" <=> pc[r] = "llm"
    /\ pc[r] = "llm" => \E n \in messages : n.req = r /\ n.role = "user"
    /\ run[r] = "completed" /\ session[row[r]] = "stored" =>
          \E m \in messages : m.req = r /\ m.role = "assistant"

\* The answers of invocations.
Answers ==
    \A m \in messages : m.role = "assistant" /\ op[m.req] = "invoke" =>
        /\ m.done
        /\ who[m.req] \in Agents /\ agent[who[m.req]] # "none"
        /\ agent[who[m.req]] = "stored" => run[m.req] = "completed"
        /\ \E n \in messages : /\ n.role = "user" /\ n.req = m.req /\ n.at < m.at
                                /\ n.done /\ n.row = m.row

ChatInv ==
    /\ TypeOK
    /\ OwnMessages
    /\ \A r \in Requests : Knows(r) /\ OwnSession(r) /\ OwnRun(r)
    /\ Answers

-----------------------------------------------------------------------------
(* Facts about messages.                                                   *)

\* A message of a request, as it is inserted.
LEMMA InsertedMessage ==
    ASSUME TypeOK, NEW r \in Requests, NEW role \in {"user", "assistant"},
           row[r] \in Rows, clock <= MaxMessages
    PROVE  /\ Insert(r, role) \in Messages
           /\ Insert(r, role).at = clock /\ Insert(r, role).row = row[r]
           /\ Insert(r, role).role = role /\ Insert(r, role).req = r
           /\ Insert(r, role).done = FALSE
<1>1. clock \in 1..MaxMessages
  <2>1. clock \in 1..MaxMessages + 1
    BY DEF TypeOK
  <2>2. QED
    BY <2>1, LimitsAssumption
<1>2. QED
  BY <1>1 DEF Insert, Messages

\* A commit changes nothing of a message but that everybody sees it.
SameMessage(m, k) ==
    m.at = k.at /\ m.row = k.row /\ m.role = k.role /\ m.req = k.req

LEMMA CommittedMessages ==
    ASSUME NEW r \in Requests, NEW ms \in SUBSET Messages
    PROVE  /\ Committed(r, ms) \subseteq Messages
           /\ \A m \in Committed(r, ms) : \E k \in ms :
                 SameMessage(m, k) /\ m.done = (k.done \/ k.req = r)
           /\ \A k \in ms : \E m \in Committed(r, ms) :
                 SameMessage(m, k) /\ m.done = (k.done \/ k.req = r)
<1> DEFINE seal(k) == IF k.req = r THEN [k EXCEPT !.done = TRUE] ELSE k
<1>1. ASSUME NEW k \in Messages
      PROVE  /\ seal(k) \in Messages
             /\ SameMessage(seal(k), k)
             /\ seal(k).done = (k.done \/ k.req = r)
  <2>1. CASE k.req = r
    <3>1. seal(k) = [k EXCEPT !.done = TRUE]
      BY <2>1
    <3>2. QED
      BY <2>1, <3>1 DEF Messages, SameMessage
  <2>2. CASE k.req # r
    BY <2>2 DEF Messages, SameMessage
  <2>3. QED
    BY <2>1, <2>2
<1>2. Committed(r, ms) = {seal(k) : k \in ms}
  BY DEF Committed
<1> HIDE DEF seal
<1>3. QED
  BY <1>1, <1>2

-----------------------------------------------------------------------------
(* The type invariant.                                                     *)

LEMMA ClockTypes ==
    ASSUME TypeOK, clock <= MaxMessages, clock' = clock + 1
    PROVE  clock' \in 1..MaxMessages + 1
<1>1. clock \in 1..MaxMessages + 1
  BY DEF TypeOK
<1>2. QED
  BY <1>1, LimitsAssumption

\* A request that reads: it changes nothing but what it remembers.
LEMMA ReadTypes ==
    ASSUME TypeOK, NEW r \in Requests, UNCHANGED <<tables, context, raced>>,
           op' \in [Requests -> {"none", "invoke", "open", "append", "delete session",
                                 "delete agent"}],
           who' \in [Requests -> Agents \cup {None}],
           want' \in [Requests -> Sids \cup {None}],
           row' \in [Requests -> Rows \cup {None}],
           seen' \in [Requests -> Nat],
           NEW to \in {"not found", "conflict", "error", "create", "history", "append",
                       "delete session", "delete agent"},
           pc' = [pc EXCEPT ![r] = to]
    PROVE  TypeOK'
<1>1. pc' \in [Requests -> Ended \cup {"idle", "create", "history", "turn", "llm",
                    "append", "appended", "delete session", "delete agent"}]
  BY DEF TypeOK, Ended
<1>2. UNCHANGED <<agent, session, sid, owner, count, messages, clock, run, context, raced>>
  BY DEF tables
<1>3. QED
  BY <1>1, <1>2 DEF TypeOK

LEMMA RollbackTypes ==
    ASSUME TypeOK, NEW r \in Requests, Rollback(r)
    PROVE  TypeOK'
<1>1. /\ session' \in [Rows -> {"none", "open", "stored", "deleted"}]
      /\ messages' \subseteq Messages
      /\ run' \in [Requests -> {"none", "running", "completed", "unavailable", "failed"}]
      /\ pc' = [pc EXCEPT ![r] = "error"]
  BY DEF Rollback, Answer, TypeOK, Rows
<1>2. QED
  BY <1>1 DEF Rollback, TypeOK, Ended

\* The first step of a request.
Begin(r) ==
    \/ \E a \in Agents, s \in Sids :
          \E e \in {"invoke", "open"} : Lookup(r, e, a, s)
    \/ \E s \in Sids : BeginAppend(r, s) \/ BeginDeleteSession(r, s)
    \/ \E a \in Agents : BeginDeleteAgent(r, a)

LEMMA LookupTypes ==
    ASSUME TypeOK, NEW r \in Requests, Begin(r)
    PROVE  TypeOK'
<1>1. ASSUME NEW x \in Rows, Load(r, x)
      PROVE  row' \in [Requests -> Rows \cup {None}] /\ seen' \in [Requests -> Nat]
  BY <1>1 DEF Load, TypeOK
<1>2. ASSUME NEW a \in Agents, NEW s \in Sids, NEW e \in {"invoke", "open"}, Lookup(r, e, a, s)
      PROVE  TypeOK'
  <2>1. row' \in [Requests -> Rows \cup {None}] /\ seen' \in [Requests -> Nat]
    BY <1>1, <1>2 DEF Lookup, Named, TypeOK
  <2>2. \E to \in {"not found", "create", "history", "conflict"} :
            pc' = [pc EXCEPT ![r] = to]
    BY <1>2 DEF Lookup, Answer
  <2>3. /\ op' \in [Requests -> {"none", "invoke", "open", "append", "delete session",
                                 "delete agent"}]
        /\ who' \in [Requests -> Agents \cup {None}]
        /\ want' \in [Requests -> Sids \cup {None}]
        /\ UNCHANGED <<tables, context, raced>>
    BY <1>2 DEF Lookup, TypeOK
  <2>4. QED
    BY <2>1, <2>2, <2>3, ReadTypes
<1>3. ASSUME NEW s \in Sids, BeginAppend(r, s) PROVE TypeOK'
  <2>1. row' \in [Requests -> Rows \cup {None}] /\ seen' \in [Requests -> Nat]
    BY <1>1, <1>3 DEF BeginAppend, Named, TypeOK
  <2>2. \E to \in {"append", "not found"} : pc' = [pc EXCEPT ![r] = to]
    BY <1>3 DEF BeginAppend, Answer
  <2>3. /\ op' \in [Requests -> {"none", "invoke", "open", "append", "delete session",
                                 "delete agent"}]
        /\ who' \in [Requests -> Agents \cup {None}]
        /\ want' \in [Requests -> Sids \cup {None}]
        /\ UNCHANGED <<tables, context, raced>>
    BY <1>3 DEF BeginAppend, TypeOK
  <2>4. QED
    BY <2>1, <2>2, <2>3, ReadTypes
<1>4. ASSUME NEW s \in Sids, BeginDeleteSession(r, s) PROVE TypeOK'
  <2>1. row' \in [Requests -> Rows \cup {None}]
    BY <1>4 DEF BeginDeleteSession, Named, TypeOK
  <2>2. \E to \in {"delete session", "error", "not found"} : pc' = [pc EXCEPT ![r] = to]
    BY <1>4 DEF BeginDeleteSession, Answer
  <2>3. /\ op' \in [Requests -> {"none", "invoke", "open", "append", "delete session",
                                 "delete agent"}]
        /\ who' \in [Requests -> Agents \cup {None}]
        /\ want' \in [Requests -> Sids \cup {None}]
        /\ seen' \in [Requests -> Nat]
        /\ UNCHANGED <<tables, context, raced>>
    BY <1>4 DEF BeginDeleteSession, TypeOK
  <2>4. QED
    BY <2>1, <2>2, <2>3, ReadTypes
<1>5. ASSUME NEW a \in Agents, BeginDeleteAgent(r, a) PROVE TypeOK'
  <2>1. \E to \in {"delete agent", "error", "not found"} : pc' = [pc EXCEPT ![r] = to]
    BY <1>5 DEF BeginDeleteAgent, Answer
  <2>2. /\ op' \in [Requests -> {"none", "invoke", "open", "append", "delete session",
                                 "delete agent"}]
        /\ who' \in [Requests -> Agents \cup {None}]
        /\ want' \in [Requests -> Sids \cup {None}]
        /\ row' \in [Requests -> Rows \cup {None}]
        /\ seen' \in [Requests -> Nat]
        /\ UNCHANGED <<tables, context, raced>>
    BY <1>5 DEF BeginDeleteAgent, TypeOK
  <2>3. QED
    BY <2>1, <2>2, ReadTypes
<1>6. QED
  BY <1>2, <1>3, <1>4, <1>5 DEF Begin

LEMMA CountTypes ==
    ASSUME TypeOK, NEW r \in Requests, row[r] \in Rows, IncrementMessageCount(r)
    PROVE  count' \in [Rows -> Nat] /\ raced' \subseteq Rows
<1>1. seen[r] + 1 \in Nat
  <2>1. seen \in [Requests -> Nat]
    BY DEF TypeOK
  <2>2. QED
    BY <2>1
<1>2. QED
  BY <1>1 DEF IncrementMessageCount, TypeOK

LEMMA StepTypes ==
    ASSUME ChatInv, NEW r \in Requests, Step(r) \/ Llm(r) \/ Abandon(r)
    PROVE  TypeOK'
<1>1. TypeOK /\ Knows(r)
  BY DEF ChatInv
<1>2. ASSUME Rollback(r) PROVE TypeOK'
  BY <1>1, <1>2, RollbackTypes
<1>3. CASE CreateSession(r)
  <2>1. CASE Rollback(r)
    BY <1>2, <2>1
  <2>2. CASE ~Rollback(r)
    <3>1. want[r] \in Sids /\ who[r] \in Agents
      BY <1>1, <1>3 DEF CreateSession, Knows
    <3>2. /\ sid' = [sid EXCEPT ![r] = want[r]]
          /\ owner' = [owner EXCEPT ![r] = who[r]]
          /\ \/ session' = [session EXCEPT ![r] = "stored"]
             \/ session' = [session EXCEPT ![r] = "open"]
          /\ \/ pc' = [pc EXCEPT ![r] = "ok"]
             \/ pc' = [pc EXCEPT ![r] = "history"]
          /\ row' = [row EXCEPT ![r] = r]
          /\ seen' = [seen EXCEPT ![r] = count[r]]
          /\ UNCHANGED <<agent, count, messages, clock, run, op, who, want, context, raced>>
      BY <1>3, <2>2 DEF CreateSession, Answer, Load
    <3>3. /\ sid' \in [Rows -> Sids \cup {None}]
          /\ owner' \in [Rows -> Agents \cup {None}]
          /\ session' \in [Rows -> {"none", "open", "stored", "deleted"}]
          /\ row' \in [Requests -> Rows \cup {None}]
          /\ seen' \in [Requests -> Nat]
      BY <1>1, <3>1, <3>2 DEF TypeOK, Rows
    <3>4. QED
      BY <1>1, <3>2, <3>3 DEF TypeOK, Ended
  <2>3. QED
    BY <2>1, <2>2
<1>4. CASE LoadHistory(r)
  <2>1. History(row[r]) \in SUBSET Messages
    BY <1>1 DEF History, Transcript, TypeOK
  <2>2. QED
    BY <1>1, <1>4, <2>1 DEF LoadHistory, Answer, tables, TypeOK, Ended
<1>5. CASE AddTurn(r)
  <2>1. CASE Rollback(r)
    BY <1>2, <2>1
  <2>2. CASE ~Rollback(r)
    <3>1. messages' \subseteq Messages /\ clock' \in 1..MaxMessages + 1
      <4>1. Insert(r, "user") \in Messages
        BY <1>1, <1>5, InsertedMessage DEF AddTurn, Knows
      <4>2. messages' = messages \cup {Insert(r, "user")}
            /\ clock' = clock + 1 /\ clock <= MaxMessages
        BY <1>5, <2>2 DEF AddTurn
      <4>3. QED
        BY <1>1, <4>1, <4>2, ClockTypes DEF TypeOK
    <3>2. /\ run' = [run EXCEPT ![r] = "running"]
          /\ pc' = [pc EXCEPT ![r] = "llm"]
          /\ UNCHANGED <<agent, session, sid, owner, count, op, who, want, row, seen,
                         context, raced>>
      BY <1>5, <2>2 DEF AddTurn, Answer
    <3>3. QED
      BY <1>1, <3>1, <3>2 DEF TypeOK
  <2>3. QED
    BY <2>1, <2>2
<1>6. CASE AppendMessage(r)
  <2>1. CASE Rollback(r)
    BY <1>2, <2>1
  <2>2. CASE ~Rollback(r)
    <3>1. PICK role \in {"user", "assistant"} : messages' = messages \cup {Insert(r, role)}
      BY <1>6, <2>2 DEF AppendMessage
    <3>2. Insert(r, role) \in Messages
      BY <1>1, <1>6, InsertedMessage DEF AppendMessage, Knows
    <3>3. clock' \in 1..MaxMessages + 1
      BY <1>1, <1>6, <2>2, ClockTypes DEF AppendMessage
    <3>4. /\ pc' = [pc EXCEPT ![r] = "appended"]
          /\ UNCHANGED <<agent, session, sid, owner, count, run, op, who, want, row, seen,
                         context, raced>>
      BY <1>6, <2>2 DEF AppendMessage, Answer
    <3>5. QED
      BY <1>1, <3>1, <3>2, <3>3, <3>4 DEF TypeOK
  <2>3. QED
    BY <2>1, <2>2
<1>7. CASE CommitAppend(r)
  <2>1. messages' \subseteq Messages
    BY <1>1, <1>7, CommittedMessages DEF CommitAppend, TypeOK
  <2>2. count' \in [Rows -> Nat] /\ raced' \subseteq Rows
    BY <1>1, <1>7, CountTypes DEF CommitAppend, Knows
  <2>3. QED
    BY <1>1, <1>7, <2>1, <2>2 DEF CommitAppend, Answer, TypeOK, Ended
<1>8. CASE DeleteSession(r)
  <2>1. session' \in [Rows -> {"none", "open", "stored", "deleted"}]
    BY <1>1, <1>8 DEF DeleteSession, TypeOK
  <2>2. messages' \subseteq Messages
    BY <1>1, <1>8 DEF DeleteSession, TypeOK
  <2>3. QED
    BY <1>1, <1>8, <2>1, <2>2 DEF DeleteSession, Answer, TypeOK, Ended
<1>9. CASE DeleteAgent(r)
  <2>1. session' \in [Rows -> {"none", "open", "stored", "deleted"}]
    BY <1>1, <1>9 DEF DeleteAgent, TypeOK
  <2>2. messages' \subseteq Messages /\ agent' \in [Agents -> {"none", "stored", "deleted"}]
    BY <1>1, <1>9 DEF DeleteAgent, TypeOK
  <2>3. run' \in [Requests -> {"none", "running", "completed", "unavailable", "failed"}]
    BY <1>1, <1>9 DEF DeleteAgent, TypeOK
  <2>4. QED
    BY <1>1, <1>9, <2>1, <2>2, <2>3 DEF DeleteAgent, Answer, TypeOK, Ended
<1>10. CASE Reply(r)
  <2>1. messages' \subseteq Messages
    <3>1. messages \cup {Insert(r, "assistant")} \in SUBSET Messages
      <4>1. Insert(r, "assistant") \in Messages
        BY <1>1, <1>10, InsertedMessage DEF Reply, Knows
      <4>2. QED
        BY <1>1, <4>1 DEF TypeOK
    <3>2. QED
      BY <1>10, <3>1, CommittedMessages DEF Reply
  <2>2. count' \in [Rows -> Nat] /\ raced' \subseteq Rows
    BY <1>1, <1>10, CountTypes DEF Reply, Knows
  <2>3. clock' \in 1..MaxMessages + 1
    BY <1>1, <1>10, ClockTypes DEF Reply
  <2>4. session' \in [Rows -> {"none", "open", "stored", "deleted"}]
    BY <1>1, <1>10 DEF Reply, Commit, TypeOK, Rows
  <2>5. QED
    BY <1>1, <1>10, <2>1, <2>2, <2>3, <2>4 DEF Reply, Answer, TypeOK, Ended
<1>11. ASSUME NEW status \in {"unavailable", "failed"}, NoReply(r, status)
       PROVE  TypeOK'
  <2>1. messages' \subseteq Messages
    BY <1>1, <1>11, CommittedMessages DEF NoReply, TypeOK
  <2>2. session' \in [Rows -> {"none", "open", "stored", "deleted"}]
    BY <1>1, <1>11 DEF NoReply, Commit, TypeOK, Rows
  <2>3. QED
    BY <1>1, <1>11, <2>1, <2>2 DEF NoReply, Answer, TypeOK, Ended
<1>12. QED
  BY <1>2, <1>3, <1>4, <1>5, <1>6, <1>7, <1>8, <1>9, <1>10, <1>11 DEF Step, Llm, Abandon

-----------------------------------------------------------------------------
(* The inductive invariant, action by action.                              *)

LEMMA ChatInit == Init => ChatInv
<1> SUFFICES ASSUME Init PROVE ChatInv
  OBVIOUS
<1>1. TypeOK
  BY LimitsAssumption DEF Init, TypeOK, Ended
<1>2. \A r \in Requests : row[r] \notin Rows
  BY RequestsAssumption DEF Init, Rows
<1>3. QED
  BY <1>1, <1>2 DEF Init, ChatInv, OwnMessages, Knows, OwnSession, OwnRun, Answers, Rows

\* Another request than r keeps its place and its parameters.
Untouched(r) ==
    \A q \in Requests : q # r =>
        /\ pc'[q] = pc[q] /\ op'[q] = op[q] /\ who'[q] = who[q]
        /\ want'[q] = want[q] /\ row'[q] = row[q]

LEMMA Domains ==
    ASSUME TypeOK
    PROVE  /\ DOMAIN pc = Requests /\ DOMAIN op = Requests /\ DOMAIN who = Requests
           /\ DOMAIN want = Requests /\ DOMAIN row = Requests /\ DOMAIN run = Requests
           /\ DOMAIN session = Requests /\ DOMAIN owner = Requests
           /\ DOMAIN agent = Agents
  BY DEF TypeOK, Rows

LEMMA MessageTypes ==
    ASSUME TypeOK
    PROVE  \A m \in messages : /\ m.req \in Requests /\ m.row \in Rows
                               /\ m.at \in Nat /\ m.done \in BOOLEAN
                               /\ m.role \in {"user", "assistant"}
<1>1. messages \subseteq Messages
  BY DEF TypeOK
<1>2. QED
  BY <1>1, LimitsAssumption DEF Messages

\* What a step of r has to leave alone for another request q to know what it
\* knew: sessions may only be deleted, and not under a request with messages.
LEMMA OthersKeep ==
    ASSUME NEW r \in Requests, Untouched(r), NEW q \in Requests, q # r, ChatInv,
           owner'[q] = owner[q],
           session'[q] = session[q] \/ (session[q] = "stored" /\ session'[q] = "deleted"),
           row[q] \in Rows =>
               \/ session'[row[q]] = session[row[q]]
               \/ /\ session[row[q]] = "stored" /\ session'[row[q]] = "deleted"
                  /\ pc[q] \notin {"llm", "appended"},
           session'[q] \in {"open", "stored"} => agent'[owner[q]] = "stored",
           run'[q] = run[q] \/ (run'[q] = "none" /\ run[q] # "running"),
           run'[q] # "none" => agent'[who[q]] = "stored",
           \A m \in messages : m.req = q /\ session'[row[q]] # "deleted" =>
               \E k \in messages' : k.req = q /\ k.role = m.role
    PROVE  Knows(q)' /\ OwnSession(q)' /\ OwnRun(q)'
<1>1. /\ pc'[q] = pc[q] /\ op'[q] = op[q] /\ who'[q] = who[q]
      /\ want'[q] = want[q] /\ row'[q] = row[q]
  BY DEF Untouched
<1>2. Knows(q) /\ OwnSession(q) /\ OwnRun(q)
  BY DEF ChatInv
<1>3. Knows(q)'
  BY <1>1, <1>2 DEF Knows
<1>4. OwnSession(q)'
  <2>1. session'[q] # "none" => pc'[q] \notin {"idle", "create"}
    BY <1>1, <1>2 DEF OwnSession
  <2>2. session'[q] = "open" =>
            row'[q] = q /\ owner'[q] = who'[q] /\ pc'[q] \in {"history", "turn", "llm"}
    BY <1>1, <1>2 DEF OwnSession
  <2>3. row'[q] \in Rows /\ row'[q] # q => session'[row'[q]] \in {"stored", "deleted"}
    BY <1>1, <1>2 DEF OwnSession
  <2>4. session'[q] \in {"open", "stored"} =>
            owner'[q] \in Agents /\ agent'[owner'[q]] = "stored"
    BY <1>1, <1>2 DEF OwnSession
  <2>5. QED
    BY <2>1, <2>2, <2>3, <2>4 DEF OwnSession
<1>5. OwnRun(q)'
  <2>1. run'[q] # "none" =>
            /\ op'[q] = "invoke" /\ pc'[q] \in {"llm", "ok"} /\ row'[q] \in Rows
            /\ who'[q] \in Agents /\ agent'[who'[q]] = "stored"
    BY <1>1, <1>2 DEF OwnRun
  <2>2. run'[q] = "running" <=> pc'[q] = "llm"
    BY <1>1, <1>2 DEF OwnRun
  <2>3. pc'[q] = "llm" => \E n \in messages' : n.req = q /\ n.role = "user"
    <3>1. SUFFICES ASSUME pc[q] = "llm"
                   PROVE  \E n \in messages' : n.req = q /\ n.role = "user"
      BY <1>1
    <3>2. session'[row[q]] # "deleted"
      BY <1>2, <3>1 DEF Knows
    <3>3. PICK n \in messages : n.req = q /\ n.role = "user"
      BY <1>2, <3>1 DEF OwnRun
    <3>4. QED
      BY <3>2, <3>3
  <2>4. run'[q] = "completed" /\ session'[row'[q]] = "stored" =>
            \E m \in messages' : m.req = q /\ m.role = "assistant"
    <3>1. SUFFICES ASSUME run'[q] = "completed", session'[row[q]] = "stored"
                   PROVE  \E m \in messages' : m.req = q /\ m.role = "assistant"
      BY <1>1
    <3>2. run[q] = "completed" /\ row[q] \in Rows /\ session[row[q]] = "stored"
      BY <1>2, <3>1 DEF OwnRun
    <3>3. PICK m \in messages : m.req = q /\ m.role = "assistant"
      BY <1>2, <3>2 DEF OwnRun
    <3>4. QED
      BY <3>1, <3>3
  <2>5. QED
    BY <2>1, <2>2, <2>3, <2>4 DEF OwnRun
<1>6. QED
  BY <1>3, <1>4, <1>5

\* And for a message of another request.
LEMMA OldMessages ==
    ASSUME ChatInv, NEW r \in Requests, Untouched(r),
           NEW m \in messages, m.req \in Requests, m.req # r,
           m.at < clock' \/ clock' = clock,
           m.row \in Rows /\ session[m.row] = "stored" => session'[m.row] = "stored"
    PROVE  /\ m.row = row'[m.req] /\ m.at < clock'
           /\ pc'[m.req] \in {"llm", "appended", "ok"}
           /\ m.done <=> pc'[m.req] = "ok"
           /\ m.done => session'[m.row] = "stored"
<1>1. /\ m.row = row[m.req] /\ m.at < clock
      /\ pc[m.req] \in {"llm", "appended", "ok"}
      /\ m.done <=> pc[m.req] = "ok"
      /\ m.done => session[m.row] = "stored"
  BY DEF ChatInv, OwnMessages
<1>2. pc'[m.req] = pc[m.req] /\ row'[m.req] = row[m.req]
  BY DEF Untouched
<1>3. m.row \in Rows
  BY MessageTypes DEF ChatInv
<1>4. QED
  BY <1>1, <1>2, <1>3

\* A request that starts, and reads.
LEMMA ReadKeeps ==
    ASSUME ChatInv, TypeOK', NEW r \in Requests, UNCHANGED tables, Untouched(r),
           pc[r] = "idle",
           pc'[r] \notin {"idle", "llm", "appended", "ok"},
           Knows(r)',
           row'[r] = row[r] \/ session[row'[r]] = "stored"
    PROVE  ChatInv'
<1>1. UNCHANGED <<agent, session, sid, owner, messages, clock, run>>
  BY DEF tables
<1>2. TypeOK /\ session[r] = "none" /\ run[r] = "none"
  BY DEF ChatInv, OwnSession, OwnRun
<1>3. \A m \in messages : m.req \in Requests /\ m.req # r
  BY <1>2, MessageTypes DEF ChatInv, OwnMessages
<1>4. OwnMessages'
  BY <1>1, <1>3 DEF ChatInv, OwnMessages, Untouched
<1>5. ASSUME NEW q \in Requests
      PROVE  Knows(q)' /\ OwnSession(q)' /\ OwnRun(q)'
  <2>1. CASE q = r
    BY <1>1, <1>2, <2>1 DEF ChatInv, OwnSession, OwnRun
  <2>2. CASE q # r
    <3>1. /\ session[q] \in {"open", "stored"} => agent[owner[q]] = "stored"
          /\ run[q] # "none" => agent[who[q]] = "stored"
      BY DEF ChatInv, OwnSession, OwnRun
    <3>2. QED
      BY <1>1, <2>2, <3>1, OthersKeep
  <2>3. QED
    BY <2>1, <2>2
<1>6. Answers'
  BY <1>1, <1>3 DEF ChatInv, Answers, Untouched
<1>7. QED
  BY <1>4, <1>5, <1>6 DEF ChatInv

\* The first step of a request, whichever it is.
LEMMA BeginFrame ==
    ASSUME ChatInv, NEW r \in Requests, Begin(r)
    PROVE  /\ Untouched(r) /\ pc[r] = "idle"
           /\ pc'[r] \notin {"turn", "llm", "appended"}
           /\ UNCHANGED <<tables, session, messages, clock, count, raced, context>>
<1>1. TypeOK
  BY DEF ChatInv
<1>2. \E to \in {"not found", "create", "history", "conflict", "append", "error",
                 "delete session", "delete agent"} : pc' = [pc EXCEPT ![r] = to]
  BY DEF Begin, Lookup, BeginAppend, BeginDeleteSession, BeginDeleteAgent, Answer
<1>3. \/ row' = row
      \/ \E x : row' = [row EXCEPT ![r] = x]
  BY DEF Begin, Lookup, BeginAppend, BeginDeleteSession, BeginDeleteAgent, Load
<1>4. /\ \E v : op' = [op EXCEPT ![r] = v]
      /\ who' = who \/ \E v : who' = [who EXCEPT ![r] = v]
      /\ want' = want \/ \E v : want' = [want EXCEPT ![r] = v]
  BY DEF Begin, Lookup, BeginAppend, BeginDeleteSession, BeginDeleteAgent
<1>5. Untouched(r) /\ pc'[r] \notin {"turn", "llm", "appended"}
  BY <1>1, <1>2, <1>3, <1>4, Domains DEF Untouched
<1>6. pc[r] = "idle" /\ UNCHANGED <<tables, context, raced>>
  BY DEF Begin, Lookup, BeginAppend, BeginDeleteSession, BeginDeleteAgent
<1>7. QED
  BY <1>5, <1>6 DEF tables

LEMMA BeginKeeps ==
    ASSUME ChatInv, NEW r \in Requests, Begin(r)
    PROVE  ChatInv'
<1>1. TypeOK /\ TypeOK'
  BY LookupTypes DEF ChatInv
<1>2. UNCHANGED tables /\ pc[r] = "idle"
  BY BeginFrame
<1>3. Untouched(r)
  BY BeginFrame
<1>4. session' = session
  BY <1>2 DEF tables
<1>5. ASSUME NEW a \in Agents, NEW s \in Sids, NEW e \in {"invoke", "open"}, Lookup(r, e, a, s)
      PROVE  ChatInv'
  <2>1. /\ op'[r] = e /\ who'[r] = a /\ want'[r] = s
        /\ pc'[r] \in {"not found", "create", "history", "conflict"}
        /\ row'[r] = row[r] \/ (row'[r] \in Rows /\ session[row'[r]] = "stored")
        /\ pc'[r] = "history" => row'[r] \in Rows /\ op'[r] = "invoke"
    <3>1. /\ op'[r] = e /\ who'[r] = a /\ want'[r] = s
      BY <1>1, <1>5, Domains DEF Lookup
    <3>2. \/ /\ \E to \in {"not found", "create", "conflict"} : pc' = [pc EXCEPT ![r] = to]
             /\ row' = row
          \/ /\ e = "invoke" /\ pc' = [pc EXCEPT ![r] = "history"]
             /\ \E x \in Rows : Stored(x) /\ row' = [row EXCEPT ![r] = x]
      BY <1>5 DEF Lookup, Load, Answer, Named
    <3>3. QED
      BY <1>1, <3>1, <3>2, Domains DEF Stored
  <2>2. Knows(r)'
    BY <1>4, <2>1 DEF Knows
  <2>3. QED
    BY <1>1, <1>2, <1>3, <2>1, <2>2, ReadKeeps
<1>6. ASSUME NEW s \in Sids, BeginAppend(r, s) PROVE ChatInv'
  <2>1. /\ op'[r] = "append"
        /\ pc'[r] \in {"not found", "append"}
        /\ row'[r] = row[r] \/ (row'[r] \in Rows /\ session[row'[r]] = "stored")
        /\ pc'[r] = "append" => row'[r] \in Rows
    <3>1. op'[r] = "append"
      BY <1>1, <1>6, Domains DEF BeginAppend
    <3>2. \/ pc' = [pc EXCEPT ![r] = "not found"] /\ row' = row
          \/ /\ pc' = [pc EXCEPT ![r] = "append"]
             /\ \E x \in Rows : Stored(x) /\ row' = [row EXCEPT ![r] = x]
      BY <1>6 DEF BeginAppend, Load, Answer, Named
    <3>3. QED
      BY <1>1, <3>1, <3>2, Domains DEF Stored
  <2>2. Knows(r)'
    BY <1>4, <2>1 DEF Knows
  <2>3. QED
    BY <1>1, <1>2, <1>3, <2>1, <2>2, ReadKeeps
<1>7. ASSUME NEW s \in Sids, BeginDeleteSession(r, s) PROVE ChatInv'
  <2>1. /\ pc'[r] \in {"not found", "delete session", "error"}
        /\ row'[r] = row[r] \/ (row'[r] \in Rows /\ session[row'[r]] = "stored")
        /\ pc'[r] = "delete session" => row'[r] \in Rows /\ row'[r] # r
    <3>1. \/ pc' = [pc EXCEPT ![r] = "not found"] /\ row' = row
          \/ /\ \E to \in {"delete session", "error"} : pc' = [pc EXCEPT ![r] = to]
             /\ \E x \in Rows : Stored(x) /\ row' = [row EXCEPT ![r] = x]
      BY <1>7 DEF BeginDeleteSession, Answer, Named
    <3>2. session[r] = "none"
      BY <1>2 DEF ChatInv, OwnSession
    <3>3. QED
      BY <1>1, <3>1, <3>2, Domains DEF Stored
  <2>2. Knows(r)'
    BY <1>4, <2>1 DEF Knows
  <2>3. QED
    BY <1>1, <1>2, <1>3, <2>1, <2>2, ReadKeeps
<1>8. ASSUME NEW a \in Agents, BeginDeleteAgent(r, a) PROVE ChatInv'
  <2>1. /\ pc'[r] \in {"not found", "delete agent", "error"}
        /\ who'[r] = a /\ row' = row
    BY <1>1, <1>8, Domains DEF BeginDeleteAgent, Answer
  <2>2. Knows(r)'
    BY <1>4, <2>1 DEF Knows
  <2>3. QED
    BY <1>1, <1>2, <1>3, <2>1, <2>2, ReadKeeps
<1>9. QED
  BY <1>5, <1>6, <1>7, <1>8 DEF Begin

LEMMA CreateAgentKeeps ==
    ASSUME ChatInv, NEW a \in Agents, CreateAgent(a)
    PROVE  ChatInv'
<1>1. /\ TypeOK /\ agent[a] = "none" /\ agent' = [agent EXCEPT ![a] = "stored"]
      /\ UNCHANGED <<session, sid, owner, count, messages, clock, run,
                     pc, op, who, want, row, seen, context, raced>>
  BY DEF ChatInv, CreateAgent, request
<1>2. TypeOK'
  BY <1>1 DEF TypeOK
<1>3. \A b \in Agents : agent[b] # "none" => agent'[b] = agent[b]
  BY <1>1 DEF TypeOK
<1>4. OwnMessages' /\ \A q \in Requests : Knows(q)'
  BY <1>1 DEF ChatInv, OwnMessages, Knows
<1>5. ASSUME NEW q \in Requests PROVE OwnSession(q)' /\ OwnRun(q)'
  BY <1>1, <1>3 DEF ChatInv, OwnSession, OwnRun
<1>6. Answers'
  BY <1>1, <1>3 DEF ChatInv, Answers
<1>7. QED
  BY <1>2, <1>4, <1>5, <1>6 DEF ChatInv

LEMMA RollbackKeeps ==
    ASSUME ChatInv, NEW r \in Requests, Rollback(r), pc[r] \notin Ended \cup {"idle"}
    PROVE  ChatInv'
<1>1. TypeOK /\ TypeOK'
  BY RollbackTypes DEF ChatInv
<1>2. /\ Untouched(r) /\ pc'[r] = "error" /\ run'[r] = "none"
      /\ \A q \in Requests : q # r => run'[q] = run[q] /\ session'[q] = session[q]
      /\ session'[r] = IF session[r] = "open" THEN "none" ELSE session[r]
      /\ UNCHANGED <<agent, owner, clock, op, who, row>>
  BY <1>1, Domains DEF Rollback, Answer, Untouched, Rows
<1>3. messages' = {m \in messages : m.req # r}
  <2>1. \A m \in messages : m.req = r => ~m.done
    BY DEF ChatInv, OwnMessages, Ended
  <2>2. QED
    BY <2>1 DEF Rollback
<1>4. \A m \in messages : m.req \in Requests
  BY <1>1, MessageTypes
<1>5. OwnMessages'
  <2>1. \A x \in Rows : session[x] = "stored" => session'[x] = "stored"
    BY <1>2 DEF Rows
  <2>2. QED
    BY <1>2, <1>3, <1>4, <2>1, OldMessages DEF OwnMessages
<1>6. \A q \in Requests : q # r /\ row[q] \in Rows => session'[row[q]] = session[row[q]]
  BY <1>2 DEF ChatInv, OwnSession, Rows
<1>7. ASSUME NEW q \in Requests
      PROVE  Knows(q)' /\ OwnSession(q)' /\ OwnRun(q)'
  <2>1. CASE q = r
    <3>1. Knows(q)' /\ OwnRun(q)'
      BY <1>2, <2>1 DEF Knows, OwnRun
    <3>2. OwnSession(q)'
      BY <1>2, <2>1 DEF ChatInv, OwnSession, Rows
    <3>3. QED
      BY <3>1, <3>2
  <2>2. CASE q # r
    <3>1. /\ session[q] \in {"open", "stored"} => agent[owner[q]] = "stored"
          /\ run[q] # "none" => agent[who[q]] = "stored"
      BY DEF ChatInv, OwnSession, OwnRun
    <3>2. \A m \in messages : m.req = q => m \in messages'
      BY <1>3, <2>2
    <3>3. QED
      BY <1>2, <1>6, <2>2, <3>1, <3>2, OthersKeep
  <2>3. QED
    BY <2>1, <2>2
<1>8. Answers'
  BY <1>2, <1>3, <1>4 DEF ChatInv, Answers, Untouched
<1>9. QED
  BY <1>1, <1>5, <1>7, <1>8 DEF ChatInv

LEMMA CreateSessionKeeps ==
    ASSUME ChatInv, NEW r \in Requests, CreateSession(r)
    PROVE  ChatInv'
<1>1. TypeOK /\ TypeOK' /\ pc[r] = "create"
  BY StepTypes DEF ChatInv, Step, CreateSession
<1>2. CASE Rollback(r)
  BY <1>1, <1>2, RollbackKeeps DEF Ended
<1>3. CASE ~Rollback(r)
  <2>1. /\ Untouched(r) /\ row'[r] = r /\ owner'[r] = who[r]
        /\ \/ op[r] = "open" /\ session'[r] = "stored" /\ pc'[r] = "ok"
           \/ op[r] # "open" /\ session'[r] = "open" /\ pc'[r] = "history"
        /\ \A q \in Requests : q # r => session'[q] = session[q] /\ owner'[q] = owner[q]
        /\ agent[who[r]] = "stored"
        /\ UNCHANGED <<agent, messages, clock, run, op, who, want>>
    BY <1>1, <1>3, Domains DEF CreateSession, Answer, Load, Untouched, Exists
  <2>2. /\ session[r] = "none" /\ run[r] = "none"
        /\ op[r] \in {"invoke", "open"} /\ who[r] \in Agents
    BY <1>1 DEF ChatInv, OwnSession, OwnRun, Knows
  <2>3. \A m \in messages : m.req \in Requests /\ m.req # r
    BY <1>1, MessageTypes DEF ChatInv, OwnMessages
  <2>4. OwnMessages'
    <3>1. \A x \in Rows : session[x] = "stored" => session'[x] = "stored"
      BY <2>1, <2>2 DEF Rows
    <3>2. QED
      BY <2>1, <2>3, <3>1, OldMessages DEF OwnMessages
  <2>5. \A q \in Requests : q # r /\ row[q] \in Rows => session'[row[q]] = session[row[q]]
    BY <2>1, <2>2 DEF ChatInv, OwnSession, Rows
  <2>6. ASSUME NEW q \in Requests
        PROVE  Knows(q)' /\ OwnSession(q)' /\ OwnRun(q)'
    <3>1. CASE q = r
      <4>1. Knows(q)'
        BY <2>1, <2>2, <3>1 DEF Knows, Rows
      <4>2. OwnSession(q)'
        BY <2>1, <2>2, <3>1 DEF OwnSession, Rows
      <4>3. OwnRun(q)'
        BY <2>1, <2>2, <3>1 DEF OwnRun
      <4>4. QED
        BY <4>1, <4>2, <4>3
    <3>2. CASE q # r
      <4>1. /\ session[q] \in {"open", "stored"} => agent[owner[q]] = "stored"
            /\ run[q] # "none" => agent[who[q]] = "stored"
        BY DEF ChatInv, OwnSession, OwnRun
      <4>2. QED
        BY <2>1, <2>5, <3>2, <4>1, OthersKeep
    <3>3. QED
      BY <3>1, <3>2
  <2>7. Answers'
    BY <2>1, <2>3 DEF ChatInv, Answers
  <2>8. QED
    BY <1>1, <2>4, <2>6, <2>7 DEF ChatInv
<1>4. QED
  BY <1>2, <1>3

LEMMA LoadHistoryKeeps ==
    ASSUME ChatInv, NEW r \in Requests, LoadHistory(r)
    PROVE  ChatInv'
<1>1. TypeOK /\ TypeOK'
  BY StepTypes DEF ChatInv, Step
<1>2. /\ Untouched(r) /\ pc[r] = "history" /\ pc'[r] = "turn"
      /\ UNCHANGED <<agent, session, owner, messages, clock, run, op, who, want, row>>
  BY <1>1, Domains DEF LoadHistory, Answer, tables, Untouched
<1>3. \A m \in messages : m.req \in Requests /\ m.req # r
  BY <1>1, <1>2, MessageTypes DEF ChatInv, OwnMessages
<1>4. OwnMessages'
  BY <1>2, <1>3 DEF ChatInv, OwnMessages, Untouched
<1>5. ASSUME NEW q \in Requests
      PROVE  Knows(q)' /\ OwnSession(q)' /\ OwnRun(q)'
  <2>1. CASE q = r
    <3>1. Knows(r) /\ OwnSession(r) /\ OwnRun(r)
      BY DEF ChatInv
    <3>2. Knows(r)'
      BY <1>2, <3>1 DEF Knows
    <3>3. OwnSession(r)'
      BY <1>2, <3>1 DEF OwnSession
    <3>4. OwnRun(r)'
      BY <1>2, <3>1 DEF OwnRun
    <3>5. QED
      BY <2>1, <3>2, <3>3, <3>4
  <2>2. CASE q # r
    <3>1. /\ session[q] \in {"open", "stored"} => agent[owner[q]] = "stored"
          /\ run[q] # "none" => agent[who[q]] = "stored"
      BY DEF ChatInv, OwnSession, OwnRun
    <3>2. QED
      BY <1>2, <2>2, <3>1, OthersKeep
  <2>3. QED
    BY <2>1, <2>2
<1>6. Answers'
  BY <1>2, <1>3 DEF ChatInv, Answers
<1>7. QED
  BY <1>1, <1>4, <1>5, <1>6 DEF ChatInv

\* The insert of a message: by a turn, with the run, or by append_message.
LEMMA InsertKeeps ==
    ASSUME ChatInv, TypeOK', NEW r \in Requests, NEW role \in {"user", "assistant"},
           Untouched(r), clock <= MaxMessages,
           pc[r] \in {"turn", "append"},
           messages' = messages \cup {Insert(r, role)}, clock' = clock + 1,
           UNCHANGED <<agent, session, owner, op, who, want, row>>,
           \A q \in Requests : q # r => run'[q] = run[q],
           \/ /\ pc[r] = "turn" /\ pc'[r] = "llm" /\ role = "user"
              /\ run'[r] = "running" /\ agent[who[r]] = "stored"
              /\ session[row[r]] \in {"open", "stored"}
           \/ /\ pc[r] = "append" /\ pc'[r] = "appended"
              /\ run'[r] = run[r] /\ session[row[r]] = "stored"
    PROVE  ChatInv'
<1>1. TypeOK /\ row[r] \in Rows /\ Knows(r) /\ OwnSession(r) /\ OwnRun(r)
  BY DEF ChatInv, Knows
<1> DEFINE new == Insert(r, role)
<1>2. /\ new.at = clock /\ new.row = row[r] /\ new.role = role /\ new.req = r
      /\ new.done = FALSE
  BY <1>1, InsertedMessage
<1>3. \A m \in messages : m.req \in Requests /\ m.req # r /\ m.at \in Nat
  BY <1>1, MessageTypes DEF ChatInv, OwnMessages
<1>4. clock \in Nat
  <2>1. clock \in 1..MaxMessages + 1
    BY <1>1 DEF TypeOK
  <2>2. QED
    BY <2>1, LimitsAssumption
<1> HIDE DEF new
<1>5. messages' = messages \cup {new}
  BY DEF new
<1>6. OwnMessages'
  <2>1. ASSUME NEW m \in messages
        PROVE  /\ m.row = row'[m.req] /\ m.at < clock'
               /\ pc'[m.req] \in {"llm", "appended", "ok"}
               /\ m.done <=> pc'[m.req] = "ok"
               /\ m.done => session'[m.row] = "stored"
    <3>1. m.at < clock'
      BY <1>3, <1>4 DEF ChatInv, OwnMessages
    <3>2. QED
      BY <1>3, <3>1, OldMessages
  <2>2. /\ new.row = row'[new.req] /\ new.at < clock'
        /\ pc'[new.req] \in {"llm", "appended", "ok"}
        /\ new.done <=> pc'[new.req] = "ok"
        /\ new.done => session'[new.row] = "stored"
    BY <1>2, <1>4
  <2>3. QED
    BY <1>5, <2>1, <2>2 DEF OwnMessages
<1>7. ASSUME NEW q \in Requests
      PROVE  Knows(q)' /\ OwnSession(q)' /\ OwnRun(q)'
  <2>1. CASE q = r
    <3>1. Knows(r)'
      <4>1. session[row[r]] = "open" => row[r] = r
        BY <1>1 DEF OwnSession
      <4>2. QED
        BY <1>1, <4>1 DEF Knows
    <3>2. OwnSession(r)'
      BY <1>1 DEF OwnSession
    <3>3. OwnRun(r)'
      <4>1. pc'[r] = "llm" => new \in messages' /\ new.req = r /\ new.role = "user"
        BY <1>2, <1>5
      <4>2. run[r] = "none"
        BY <1>1 DEF OwnRun
      <4>3. pc[r] = "turn" => op[r] = "invoke" /\ who[r] \in Agents
        BY <1>1 DEF Knows
      <4>4. QED
        BY <1>1, <4>1, <4>2, <4>3 DEF OwnRun
    <3>4. QED
      BY <2>1, <3>1, <3>2, <3>3
  <2>2. CASE q # r
    <3>1. /\ session[q] \in {"open", "stored"} => agent[owner[q]] = "stored"
          /\ run[q] # "none" => agent[who[q]] = "stored"
      BY DEF ChatInv, OwnSession, OwnRun
    <3>2. \A m \in messages : m \in messages'
      BY <1>5
    <3>3. QED
      BY <2>2, <3>1, <3>2, OthersKeep
  <2>3. QED
    BY <2>1, <2>2
<1>8. Answers'
  <2>1. ~(new.role = "assistant" /\ op[new.req] = "invoke")
    BY <1>1, <1>2 DEF Knows
  <2>2. \A m \in messages : run'[m.req] = run[m.req]
    BY <1>3
  <2>3. QED
    BY <1>5, <2>1, <2>2 DEF ChatInv, Answers
<1>9. QED
  BY <1>6, <1>7, <1>8 DEF ChatInv

LEMMA TurnKeeps ==
    ASSUME ChatInv, NEW r \in Requests, AddTurn(r) \/ AppendMessage(r)
    PROVE  ChatInv'
<1>1. TypeOK /\ TypeOK' /\ pc[r] \in {"turn", "append"}
  BY StepTypes DEF ChatInv, Step, AddTurn, AppendMessage
<1>2. CASE Rollback(r)
  BY <1>1, <1>2, RollbackKeeps DEF Ended
<1>3. CASE ~Rollback(r) /\ AddTurn(r)
  <2>1. /\ Untouched(r) /\ clock <= MaxMessages
        /\ messages' = messages \cup {Insert(r, "user")} /\ clock' = clock + 1
        /\ UNCHANGED <<agent, session, owner, op, who, want, row>>
        /\ \A q \in Requests : q # r => run'[q] = run[q]
        /\ pc[r] = "turn" /\ pc'[r] = "llm" /\ run'[r] = "running"
        /\ agent[who[r]] = "stored" /\ session[row[r]] \in {"open", "stored"}
    BY <1>1, <1>3, Domains DEF AddTurn, Answer, Exists, Untouched
  <2>2. QED
    BY <1>1, <2>1, InsertKeeps
<1>4. CASE ~Rollback(r) /\ AppendMessage(r)
  <2>1. PICK role \in {"user", "assistant"} : messages' = messages \cup {Insert(r, role)}
    BY <1>4 DEF AppendMessage
  <2>2. /\ Untouched(r) /\ clock <= MaxMessages /\ clock' = clock + 1
        /\ UNCHANGED <<agent, session, owner, op, who, want, row, run>>
        /\ pc[r] = "append" /\ pc'[r] = "appended" /\ session[row[r]] = "stored"
    BY <1>1, <1>4, Domains DEF AppendMessage, Answer, Stored, Untouched
  <2>3. QED
    BY <1>1, <2>1, <2>2, InsertKeeps
<1>5. QED
  BY <1>2, <1>3, <1>4

\* A request with messages ends well; base is what it has inserted by then.
LEMMA CommitKeeps ==
    ASSUME ChatInv, TypeOK', NEW r \in Requests, Untouched(r),
           pc[r] \in {"llm", "appended"}, pc'[r] = "ok",
           UNCHANGED <<agent, owner, op, who, row>>,
           session'[r] = IF session[r] = "open" THEN "stored" ELSE session[r],
           \A q \in Requests : q # r => session'[q] = session[q] /\ run'[q] = run[q],
           clock \in Nat, clock' \in Nat, clock <= clock',
           NEW base \in SUBSET Messages, messages \subseteq base,
           \A k \in base \ messages :
               /\ k.at = clock /\ clock < clock' /\ k.row = row[r] /\ k.req = r
               /\ k.role = "assistant" /\ pc[r] = "llm" /\ run'[r] = "completed",
           pc[r] = "llm" => run'[r] \in {"completed", "unavailable", "failed"},
           pc[r] = "llm" /\ run'[r] = "completed" => \E k \in base : k \notin messages,
           pc[r] = "appended" => run'[r] = run[r],
           messages' = Committed(r, base)
    PROVE  ChatInv'
<1>1. TypeOK /\ Knows(r) /\ OwnSession(r) /\ OwnRun(r) /\ row[r] \in Rows
  BY DEF ChatInv, Knows
<1>2. /\ \A m \in messages' : \E k \in base :
             SameMessage(m, k) /\ m.done = (k.done \/ k.req = r)
      /\ \A k \in base : \E m \in messages' :
             SameMessage(m, k) /\ m.done = (k.done \/ k.req = r)
  BY CommittedMessages
<1>3. \A k \in base : k.req # r => k \in messages
  OBVIOUS
<1>4. \A m \in messages : m.req \in Requests /\ m.at \in Nat
  BY <1>1, MessageTypes
<1>5. OwnMessages'
  <2> SUFFICES ASSUME NEW m \in messages'
               PROVE  /\ m.row = row'[m.req] /\ m.at < clock'
                      /\ pc'[m.req] \in {"llm", "appended", "ok"}
                      /\ m.done <=> pc'[m.req] = "ok"
                      /\ m.done => session'[m.row] = "stored"
    BY DEF OwnMessages
  <2>1. PICK k \in base : SameMessage(m, k) /\ m.done = (k.done \/ k.req = r)
    BY <1>2
  <2>2. m.at < clock'
    <3>1. CASE k \in messages
      <4>1. k.at < clock
        BY <3>1 DEF ChatInv, OwnMessages
      <4>2. QED
        BY <1>4, <2>1, <3>1, <4>1 DEF SameMessage
    <3>2. CASE k \notin messages
      BY <2>1, <3>2 DEF SameMessage
    <3>3. QED
      BY <3>1, <3>2
  <2>3. CASE k.req = r
    <3>1. k.row = row[r]
      BY <2>3 DEF ChatInv, OwnMessages
    <3>2. session'[row[r]] = "stored"
      BY <1>1 DEF Knows, Rows
    <3>3. QED
      BY <2>1, <2>2, <2>3, <3>1, <3>2 DEF SameMessage
  <2>4. CASE k.req # r
    <3>1. /\ k.row = row[k.req] /\ pc[k.req] \in {"llm", "appended", "ok"}
          /\ k.done <=> pc[k.req] = "ok"
          /\ k.done => session[k.row] = "stored"
      BY <1>3, <2>4 DEF ChatInv, OwnMessages
    <3>2. pc'[k.req] = pc[k.req] /\ row'[k.req] = row[k.req]
      BY <1>3, <1>4, <2>4 DEF Untouched
    <3>3. session[k.row] = "stored" => session'[k.row] = "stored"
      BY <1>1, <1>3, <2>4, MessageTypes DEF Rows
    <3>4. m.done <=> k.done
      BY <2>1, <2>4
    <3>5. QED
      BY <2>1, <2>2, <2>4, <3>1, <3>2, <3>3, <3>4 DEF SameMessage
  <2>5. QED
    BY <2>3, <2>4
<1>6. \A q \in Requests : q # r /\ row[q] \in Rows => session'[row[q]] = session[row[q]]
  BY DEF ChatInv, OwnSession, Rows
<1>7. ASSUME NEW q \in Requests
      PROVE  Knows(q)' /\ OwnSession(q)' /\ OwnRun(q)'
  <2>1. CASE q = r
    <3>1. Knows(r)'
      BY DEF Knows
    <3>2. OwnSession(r)'
      BY <1>1 DEF OwnSession, Rows
    <3>3. OwnRun(r)'
      <4>1. CASE pc[r] = "appended"
        BY <1>1, <4>1 DEF OwnRun
      <4>2. CASE pc[r] = "llm"
        <5>1. /\ op[r] = "invoke" /\ who[r] \in Agents /\ agent[who[r]] = "stored"
          BY <1>1, <4>2 DEF OwnRun
        <5>2. run'[r] = "completed" =>
                  \E m \in messages' : m.req = r /\ m.role = "assistant"
          <6>1. SUFFICES ASSUME run'[r] = "completed"
                         PROVE  \E m \in messages' : m.req = r /\ m.role = "assistant"
            OBVIOUS
          <6>2. PICK k \in base : k \notin messages
            BY <4>2, <6>1
          <6>3. PICK m \in messages' : SameMessage(m, k)
            BY <1>2
          <6>4. QED
            BY <6>2, <6>3 DEF SameMessage
        <5>3. QED
          BY <1>1, <4>2, <5>1, <5>2 DEF OwnRun
      <4>3. QED
        BY <4>1, <4>2
    <3>4. QED
      BY <2>1, <3>1, <3>2, <3>3
  <2>2. CASE q # r
    <3>1. /\ session[q] \in {"open", "stored"} => agent[owner[q]] = "stored"
          /\ run[q] # "none" => agent[who[q]] = "stored"
      BY DEF ChatInv, OwnSession, OwnRun
    <3>2. \A m \in messages : m.req = q => \E k \in messages' : k.req = q /\ k.role = m.role
      BY <1>2 DEF SameMessage
    <3>3. QED
      BY <1>6, <2>2, <3>1, <3>2, OthersKeep
  <2>3. QED
    BY <2>1, <2>2
<1>8. Answers'
  <2> SUFFICES ASSUME NEW m \in messages', m.role = "assistant", op[m.req] = "invoke"
               PROVE  /\ m.done
                      /\ who[m.req] \in Agents /\ agent[who[m.req]] # "none"
                      /\ agent[who[m.req]] = "stored" => run'[m.req] = "completed"
                      /\ \E n \in messages' :
                            /\ n.role = "user" /\ n.req = m.req /\ n.at < m.at
                            /\ n.done /\ n.row = m.row
    BY DEF Answers
  <2>1. PICK k \in base : SameMessage(m, k) /\ m.done = (k.done \/ k.req = r)
    BY <1>2
  <2>2. CASE k \in messages
    <3>1. /\ k.done /\ who[k.req] \in Agents /\ agent[who[k.req]] # "none"
          /\ agent[who[k.req]] = "stored" => run[k.req] = "completed"
      BY <2>1, <2>2 DEF ChatInv, Answers, SameMessage
    <3>2. k.req # r
      BY <2>2, <3>1 DEF ChatInv, OwnMessages
    <3>3. PICK n \in messages : /\ n.role = "user" /\ n.req = k.req /\ n.at < k.at
                                 /\ n.done /\ n.row = k.row
      BY <2>1, <2>2 DEF ChatInv, Answers, SameMessage
    <3>4. PICK p \in messages' : SameMessage(p, n) /\ p.done = (n.done \/ n.req = r)
      BY <1>2, <3>3
    <3>5. run'[k.req] = run[k.req]
      BY <1>4, <2>2, <3>2
    <3>6. p.done /\ m.done
      BY <2>1, <3>1, <3>3, <3>4
    <3>7. m.req = k.req /\ m.at = k.at /\ m.row = k.row
      BY <2>1 DEF SameMessage
    <3>8. p.role = "user" /\ p.req = m.req /\ p.at < m.at /\ p.row = m.row
      BY <3>3, <3>4, <3>7 DEF SameMessage
    <3>9. QED
      BY <3>1, <3>5, <3>6, <3>7, <3>8
  <2>3. CASE k \notin messages
    <3>1. /\ k.at = clock /\ k.row = row[r] /\ k.req = r
          /\ pc[r] = "llm" /\ run'[r] = "completed"
      BY <2>3
    <3>2. who[r] \in Agents /\ agent[who[r]] = "stored"
      BY <1>1, <3>1 DEF OwnRun
    <3>3. PICK n \in messages : n.req = r /\ n.role = "user"
      BY <1>1, <3>1 DEF OwnRun
    <3>4. n.at < clock /\ n.row = row[r]
      BY <3>3 DEF ChatInv, OwnMessages
    <3>5. PICK p \in messages' : SameMessage(p, n) /\ p.done = (n.done \/ n.req = r)
      BY <1>2, <3>3
    <3>6. QED
      BY <2>1, <3>1, <3>2, <3>3, <3>4, <3>5 DEF SameMessage
  <2>4. QED
    BY <2>2, <2>3
<1>9. QED
  BY <1>5, <1>7, <1>8 DEF ChatInv

LEMMA AnswerKeeps ==
    ASSUME ChatInv, NEW r \in Requests, CommitAppend(r) \/ Llm(r)
    PROVE  ChatInv'
<1>1. TypeOK /\ TypeOK' /\ OwnSession(r) /\ Knows(r)
  BY StepTypes DEF ChatInv, Step
<1>2. clock \in 1..MaxMessages + 1 /\ messages \in SUBSET Messages
  BY <1>1 DEF TypeOK
<1>3. clock \in Nat
  BY <1>2, LimitsAssumption
<1>4. CASE CommitAppend(r)
  <2>1. /\ Untouched(r) /\ pc[r] = "appended" /\ pc'[r] = "ok"
        /\ UNCHANGED <<agent, owner, op, who, row, session, run, clock>>
        /\ messages' = Committed(r, messages)
    BY <1>1, <1>4, Domains DEF CommitAppend, Answer, Untouched
  <2>2. session[r] # "open"
    BY <1>1, <2>1 DEF OwnSession
  <2>3. QED
    BY <1>1, <1>2, <1>3, <2>1, <2>2, CommitKeeps
<1>5. ASSUME NEW status \in {"unavailable", "failed"}, NoReply(r, status)
      PROVE  ChatInv'
  <2>1. /\ Untouched(r) /\ pc[r] = "llm" /\ pc'[r] = "ok"
        /\ UNCHANGED <<agent, owner, op, who, row, clock>>
        /\ session'[r] = IF session[r] = "open" THEN "stored" ELSE session[r]
        /\ \A q \in Requests : q # r => session'[q] = session[q] /\ run'[q] = run[q]
        /\ run'[r] = status
        /\ messages' = Committed(r, messages)
    BY <1>1, <1>5, Domains DEF NoReply, Answer, Commit, Untouched
  <2>2. QED
    BY <1>1, <1>2, <1>3, <2>1, CommitKeeps
<1>6. CASE Reply(r)
  <2> DEFINE new == Insert(r, "assistant")
  <2>1. /\ Untouched(r) /\ pc[r] = "llm" /\ pc'[r] = "ok"
        /\ UNCHANGED <<agent, owner, op, who, row>>
        /\ session'[r] = IF session[r] = "open" THEN "stored" ELSE session[r]
        /\ \A q \in Requests : q # r => session'[q] = session[q] /\ run'[q] = run[q]
        /\ run'[r] = "completed" /\ clock' = clock + 1 /\ clock <= MaxMessages
        /\ messages' = Committed(r, messages \cup {new})
    BY <1>1, <1>6, Domains DEF Reply, Answer, Commit, Untouched
  <2>2. /\ new \in Messages /\ new.at = clock /\ new.row = row[r] /\ new.req = r
        /\ new.role = "assistant"
    BY <1>1, <2>1, InsertedMessage DEF Knows
  <2>3. new \notin messages
    <3>1. SUFFICES ASSUME new \in messages PROVE FALSE
      OBVIOUS
    <3>2. new.at < clock
      BY <3>1 DEF ChatInv, OwnMessages
    <3>3. QED
      BY <1>3, <2>2, <3>2
  <2> HIDE DEF new
  <2>4. messages \cup {new} \in SUBSET Messages
    BY <1>2, <2>2
  <2>5. clock' \in Nat /\ clock <= clock' /\ clock < clock'
    BY <1>3, <2>1
  <2>6. \A k \in (messages \cup {new}) \ messages :
            /\ k.at = clock /\ clock < clock' /\ k.row = row[r] /\ k.req = r
            /\ k.role = "assistant" /\ pc[r] = "llm" /\ run'[r] = "completed"
    BY <2>1, <2>2, <2>5
  <2>7. \E k \in messages \cup {new} : k \notin messages
    BY <2>3
  <2>8. QED
    BY <1>1, <1>3, <2>1, <2>4, <2>5, <2>6, <2>7, CommitKeeps
<1>7. QED
  BY <1>4, <1>5, <1>6 DEF Llm

\* Messages that go with their sessions take no answer's question away.
LEMMA AnswersKeep ==
    ASSUME ChatInv, op' = op, who' = who, messages' \subseteq messages,
           \A m \in messages' : \A n \in messages : n.row = m.row => n \in messages',
           \A a \in Agents : agent[a] # "none" => agent'[a] # "none",
           \A m \in messages :
               op[m.req] = "invoke" /\ who[m.req] \in Agents
                 /\ agent'[who[m.req]] = "stored" =>
                   agent[who[m.req]] = "stored" /\ run'[m.req] = run[m.req]
    PROVE  Answers'
<1>1. ASSUME NEW m \in messages', m.role = "assistant", op[m.req] = "invoke"
      PROVE  /\ m.done
             /\ who[m.req] \in Agents /\ agent'[who[m.req]] # "none"
             /\ agent'[who[m.req]] = "stored" => run'[m.req] = "completed"
             /\ \E n \in messages' : /\ n.role = "user" /\ n.req = m.req /\ n.at < m.at
                                      /\ n.done /\ n.row = m.row
  <2>1. /\ m.done /\ who[m.req] \in Agents /\ agent[who[m.req]] # "none"
        /\ agent[who[m.req]] = "stored" => run[m.req] = "completed"
    BY <1>1 DEF ChatInv, Answers
  <2>2. PICK n \in messages : /\ n.role = "user" /\ n.req = m.req /\ n.at < m.at
                               /\ n.done /\ n.row = m.row
    BY <1>1 DEF ChatInv, Answers
  <2>3. n \in messages'
    BY <1>1, <2>2
  <2>4. QED
    BY <1>1, <2>1, <2>2, <2>3
<1>2. QED
  BY <1>1 DEF Answers

\* A deletion; gone are the sessions that fall to it.
LEMMA DeleteKeeps ==
    ASSUME ChatInv, TypeOK', NEW r \in Requests, Untouched(r),
           pc[r] \in {"delete session", "delete agent"}, pc'[r] = "ok",
           UNCHANGED <<owner, op, who, row, clock>>,
           NEW gone \in SUBSET Rows,
           \A x \in gone : session[x] \in {"stored", "deleted"} /\ session'[x] = "deleted",
           \A x \in Rows \ gone : session'[x] = session[x],
           \A q \in Requests : pc[q] \in {"llm", "appended"} => row[q] \notin gone,
           messages' = {m \in messages : m.row \notin gone},
           \A x \in Rows : session'[x] \in {"open", "stored"} => agent'[owner[x]] = "stored",
           \A a \in Agents : agent[a] # "none" => agent'[a] # "none",
           \A a \in Agents : agent'[a] = "stored" => agent[a] = "stored",
           \A q \in Requests :
               /\ run'[q] = run[q] \/ (run'[q] = "none" /\ run[q] # "running")
               /\ run'[q] # "none" => agent'[who[q]] = "stored"
               /\ op[q] = "invoke" /\ agent'[who[q]] = "stored" => run'[q] = run[q]
    PROVE  ChatInv'
<1>1. TypeOK /\ session[r] # "open" /\ run[r] = "none"
  BY DEF ChatInv, OwnSession, OwnRun
<1>2. \A m \in messages : m.req \in Requests /\ m.row \in Rows /\ m.req # r
  BY <1>1, MessageTypes DEF ChatInv, OwnMessages
<1>3. OwnMessages'
  <2> SUFFICES ASSUME NEW m \in messages'
               PROVE  /\ m.row = row'[m.req] /\ m.at < clock'
                      /\ pc'[m.req] \in {"llm", "appended", "ok"}
                      /\ m.done <=> pc'[m.req] = "ok"
                      /\ m.done => session'[m.row] = "stored"
    BY DEF OwnMessages
  <2>1. m \in messages /\ m.row \notin gone
    OBVIOUS
  <2>2. m.row \in Rows /\ session'[m.row] = session[m.row]
    BY <1>2, <2>1
  <2>3. m.req \in Requests /\ m.req # r /\ clock' = clock
    BY <1>2, <2>1
  <2>4. m.row \in Rows /\ session[m.row] = "stored" => session'[m.row] = "stored"
    BY <2>2
  <2>5. QED
    BY <2>1, <2>3, <2>4, OldMessages, Zenon
<1>4. ASSUME NEW x \in Rows
      PROVE  \/ session'[x] = session[x]
             \/ session[x] = "stored" /\ session'[x] = "deleted" /\ x \in gone
  <2>1. CASE x \in gone
    <3>1. session[x] \in {"stored", "deleted"} /\ session'[x] = "deleted"
      BY <2>1
    <3>2. QED
      BY <2>1, <3>1
  <2>2. CASE x \notin gone
    BY <2>2
  <2>3. QED
    BY <2>1, <2>2
<1>5. ASSUME NEW q \in Requests
      PROVE  Knows(q)' /\ OwnSession(q)' /\ OwnRun(q)'
  <2>1. CASE q = r
    <3>1. Knows(r)'
      BY DEF Knows
    <3>2. OwnSession(r)'
      BY <1>1, <1>4 DEF ChatInv, OwnSession, Rows
    <3>3. OwnRun(r)'
      BY <1>1 DEF OwnRun
    <3>4. QED
      BY <2>1, <3>1, <3>2, <3>3
  <2>2. CASE q # r
    <3>1. ASSUME NEW m \in messages, m.req = q, session'[row[q]] # "deleted"
          PROVE  m \in messages'
      <4>1. m.row = row[q]
        BY <3>1 DEF ChatInv, OwnMessages
      <4>2. m.row \notin gone
        BY <3>1, <4>1
      <4>3. QED
        BY <4>2
    <3>2. /\ session'[q] = session[q] \/ (session[q] = "stored" /\ session'[q] = "deleted")
          /\ row[q] \in Rows =>
                \/ session'[row[q]] = session[row[q]]
                \/ /\ session[row[q]] = "stored" /\ session'[row[q]] = "deleted"
                   /\ pc[q] \notin {"llm", "appended"}
          /\ session'[q] \in {"open", "stored"} => agent'[owner[q]] = "stored"
      BY <1>4 DEF Rows
    <3>3. QED
      BY <2>2, <3>1, <3>2, OthersKeep
  <2>3. QED
    BY <2>1, <2>2
<1>6. Answers'
  <2>1. op' = op /\ who' = who /\ messages' \subseteq messages
    OBVIOUS
  <2>2. \A m \in messages' : \A n \in messages : n.row = m.row => n \in messages'
    OBVIOUS
  <2>3. ASSUME NEW m \in messages, op[m.req] = "invoke", who[m.req] \in Agents,
               agent'[who[m.req]] = "stored"
        PROVE  agent[who[m.req]] = "stored" /\ run'[m.req] = run[m.req]
    BY <1>2, <2>3
  <2>4. QED
    BY <2>1, <2>2, <2>3, AnswersKeep
<1>7. QED
  BY <1>3, <1>5, <1>6 DEF ChatInv

LEMMA DeleteSessionKeeps ==
    ASSUME ChatInv, NEW r \in Requests, DeleteSession(r)
    PROVE  ChatInv'
<1>1. TypeOK /\ TypeOK' /\ pc[r] = "delete session"
  BY StepTypes DEF ChatInv, Step, DeleteSession
<1>2. row[r] \in Rows /\ session[row[r]] \in {"stored", "deleted"}
  BY <1>1 DEF ChatInv, Knows, OwnSession
<1>3. /\ Untouched(r) /\ pc'[r] = "ok" /\ session'[row[r]] = "deleted"
      /\ \A x \in Rows : x # row[r] => session'[x] = session[x]
      /\ messages' = {m \in messages : m.row # row[r]}
      /\ UNCHANGED <<agent, owner, op, who, row, clock, run>>
  BY <1>1, <1>2, Domains DEF DeleteSession, Answer, Untouched, Rows
<1>4. \A q \in Requests : pc[q] \in {"llm", "appended"} => row[q] # row[r]
  BY DEF DeleteSession, HoldsSession
<1>5. \A x \in Rows : session'[x] \in {"open", "stored"} => agent[owner[x]] = "stored"
  BY <1>3 DEF ChatInv, OwnSession, Rows
<1>6. \A q \in Requests : run[q] # "none" => agent[who[q]] = "stored"
  BY DEF ChatInv, OwnRun
<1>7. {row[r]} \in SUBSET Rows /\ messages' = {m \in messages : m.row \notin {row[r]}}
  BY <1>2, <1>3
<1>8. QED
  BY <1>1, <1>2, <1>3, <1>4, <1>5, <1>6, <1>7, DeleteKeeps

LEMMA DeleteAgentKeeps ==
    ASSUME ChatInv, NEW r \in Requests, DeleteAgent(r)
    PROVE  ChatInv'
<1> DEFINE gone == {x \in Rows : session[x] = "stored" /\ owner[x] = who[r]}
<1>1. TypeOK /\ TypeOK' /\ pc[r] = "delete agent" /\ who[r] \in Agents
  BY StepTypes DEF ChatInv, Step, DeleteAgent, Knows
<1>2. /\ Untouched(r) /\ pc'[r] = "ok"
      /\ agent'[who[r]] = "deleted"
      /\ \A a \in Agents : a # who[r] => agent'[a] = agent[a]
      /\ UNCHANGED <<owner, op, who, row, clock>>
  BY <1>1, Domains DEF DeleteAgent, Answer, Untouched
<1>3. /\ \A x \in Rows : session'[x] = IF x \in gone THEN "deleted" ELSE session[x]
      /\ messages' = {m \in messages : m.row \notin gone}
      /\ \A q \in Requests :
            run'[q] = IF op[q] = "invoke" /\ who[q] = who[r] THEN "none" ELSE run[q]
  BY DEF DeleteAgent, Stored
<1>4. \A q \in Requests : /\ session[q] = "open" => owner[q] # who[r]
                          /\ pc[q] = "llm" => who[q] # who[r]
                          /\ pc[q] \in {"llm", "appended"} => row[q] \notin gone
  BY DEF DeleteAgent, HoldsAgent, HoldsSession, Stored
<1>5. \A x \in Rows : session'[x] \in {"open", "stored"} => agent'[owner[x]] = "stored"
  <2> SUFFICES ASSUME NEW x \in Rows, session'[x] \in {"open", "stored"}
               PROVE  agent'[owner[x]] = "stored"
    OBVIOUS
  <2>1. x \notin gone /\ session[x] \in {"open", "stored"} /\ x \in Requests
    BY <1>3 DEF Rows
  <2>2. owner[x] \in Agents /\ agent[owner[x]] = "stored"
    BY <2>1 DEF ChatInv, OwnSession
  <2>3. owner[x] # who[r]
    BY <1>4, <2>1
  <2>4. QED
    BY <1>2, <2>2, <2>3
<1>6. ASSUME NEW q \in Requests
      PROVE  /\ run'[q] = run[q] \/ (run'[q] = "none" /\ run[q] # "running")
             /\ run'[q] # "none" => agent'[who[q]] = "stored"
             /\ op[q] = "invoke" /\ agent'[who[q]] = "stored" => run'[q] = run[q]
  <2>1. OwnRun(q)
    BY DEF ChatInv
  <2>2. run[q] = "running" => who[q] # who[r]
    BY <1>4, <2>1 DEF OwnRun
  <2>3. run'[q] # "none" => agent'[who[q]] = "stored"
    <3>1. SUFFICES ASSUME run'[q] # "none" PROVE agent'[who[q]] = "stored"
      OBVIOUS
    <3>2. run[q] # "none" /\ ~(op[q] = "invoke" /\ who[q] = who[r])
      BY <1>3, <3>1
    <3>3. who[q] \in Agents /\ who[q] # who[r] /\ agent[who[q]] = "stored"
      BY <2>1, <3>2 DEF OwnRun
    <3>4. QED
      BY <1>2, <3>3
  <2>4. QED
    BY <1>2, <1>3, <2>2, <2>3
<1>7. /\ \A a \in Agents : agent[a] # "none" => agent'[a] # "none"
      /\ \A a \in Agents : agent'[a] = "stored" => agent[a] = "stored"
  BY <1>2
<1>8. /\ gone \in SUBSET Rows
      /\ \A x \in gone : session[x] \in {"stored", "deleted"} /\ session'[x] = "deleted"
      /\ \A x \in Rows \ gone : session'[x] = session[x]
  BY <1>3
<1> HIDE DEF gone
<1>9. QED
  BY <1>1, <1>2, <1>3, <1>4, <1>5, <1>6, <1>7, <1>8, DeleteKeeps

LEMMA ChatNext == ChatInv /\ [Next]_vars => ChatInv'
<1> SUFFICES ASSUME ChatInv, [Next]_vars PROVE ChatInv'
  OBVIOUS
<1>1. CASE UNCHANGED vars
  <2>1. UNCHANGED <<agent, session, sid, owner, count, messages, clock, run,
                    pc, op, who, want, row, seen, context, raced>>
    BY <1>1 DEF vars, tables, request
  <2>2. TypeOK' /\ OwnMessages' /\ Answers'
    BY <2>1 DEF ChatInv, TypeOK, OwnMessages, Answers
  <2>3. \A r \in Requests : Knows(r)'
    BY <2>1 DEF ChatInv, Knows
  <2>4. \A r \in Requests : OwnSession(r)'
    BY <2>1 DEF ChatInv, OwnSession
  <2>5. \A r \in Requests : OwnRun(r)'
    BY <2>1 DEF ChatInv, OwnRun
  <2>6. QED
    BY <2>2, <2>3, <2>4, <2>5 DEF ChatInv
<1>2. ASSUME NEW r \in Requests, Begin(r)
      PROVE  ChatInv'
  BY <1>2, BeginKeeps
<1>3. ASSUME NEW r \in Requests, Step(r) \/ Llm(r) \/ Abandon(r)
      PROVE  ChatInv'
  BY <1>3, CreateSessionKeeps, LoadHistoryKeeps, TurnKeeps, AnswerKeeps,
     DeleteSessionKeeps, DeleteAgentKeeps, RollbackKeeps DEF Step, Abandon
<1>4. CASE Next
  BY <1>2, <1>3, <1>4, CreateAgentKeeps DEF Next, Begin
<1>5. QED
  BY <1>1, <1>4

\* What requests rely on between their statements holds in every state.
THEOREM ChatCorrect == Spec => []ChatInv
  BY ChatInit, ChatNext, PTL DEF Spec

\* Rows and requests keep their types.
THEOREM ChatTypes == Spec => []TypeOK
<1>1. ChatInv => TypeOK
  BY DEF ChatInv
<1>2. QED
  BY <1>1, ChatCorrect, PTL

\* However delete_session and delete_agent race with invoke_agent,
\* create_session and append_message, no message is left without its session
\* and no session and no run without its agent.
THEOREM NothingDangles == Spec => []NoDangling
<1>1. ChatInv => NoDangling
  <2> SUFFICES ASSUME ChatInv PROVE NoDangling
    OBVIOUS
  <2>1. ASSUME NEW m \in messages
        PROVE  \/ session[m.row] = "stored"
               \/ session[m.row] = "open" /\ m.row = m.req /\ ~m.done
    <3>1. m.row = row[m.req] /\ m.req \in Requests
      BY MessageTypes DEF ChatInv, OwnMessages
    <3>2. CASE m.done
      BY <3>2 DEF ChatInv, OwnMessages
    <3>3. CASE ~m.done
      <4>1. pc[m.req] \in {"llm", "appended"}
        BY <3>3 DEF ChatInv, OwnMessages
      <4>2. QED
        BY <3>1, <3>3, <4>1 DEF ChatInv, Knows
    <3>4. QED
      BY <3>2, <3>3
  <2>2. /\ \A x \in Rows : session[x] \in {"open", "stored"} => Exists(owner[x])
        /\ \A r \in Requests : run[r] # "none" => Exists(who[r])
    BY DEF ChatInv, OwnSession, OwnRun, Exists, Rows
  <2>3. QED
    BY <2>1, <2>2 DEF NoDangling
<1>2. QED
  BY <1>1, ChatCorrect, PTL

\* invoke_agent stores both messages of a turn and its completed run, or
\* neither answer nor completion; nobody sees a run that is still running.
THEOREM TurnsAreWhole == Spec => []TurnIsWhole
<1>1. ChatInv => TurnIsWhole
  BY DEF ChatInv, Answers, OwnRun, TurnIsWhole, Exists, Stored
<1>2. QED
  BY <1>1, ChatCorrect, PTL

-----------------------------------------------------------------------------
(* The history an invocation sends along, and the message count.           *)

\* created_at tells messages apart.
DistinctTimes == \A m, n \in messages : m.at = n.at => m = n

\* The history a request has loaded is in the session as long as that exists,
\* older than what the request adds, and within the limit.
Remembers(r) ==
    pc[r] \in {"turn", "llm"} =>
        /\ Cardinality(context[r]) <= HistoryLimit
        /\ session[row[r]] # "deleted" => context[r] \subseteq Transcript(row[r])
        /\ \A m \in context[r] : m.at < clock
        /\ \A m \in context[r] : \A n \in messages : n.req = r => m.at < n.at

\* An append that is not committed yet has added one message.
AddedOne(r) ==
    pc[r] = "appended" =>
        \E m \in messages : m.req = r /\ \A n \in messages : n.req = r => n = m

\* A session that nobody sees yet counts nothing, one that nobody has written
\* from a stale copy what it has.
CountsRight(x) ==
    /\ session[x] \in {"none", "open"} => count[x] = 0
    /\ session[x] = "stored" /\ x \notin raced => count[x] = Cardinality(Counted(x))

TalkInv ==
    /\ DistinctTimes
    /\ \A r \in Requests : Remembers(r) /\ AddedOne(r)
    /\ \A x \in Rows : CountsRight(x)

-----------------------------------------------------------------------------
\* There are finitely many messages, as created_at tells them apart.
LEMMA FiniteMessages ==
    ASSUME TypeOK, DistinctTimes
    PROVE  IsFiniteSet(messages)
<1> DEFINE time == [m \in messages |-> m.at]
<1>1. \A m \in messages : m.at \in 1..MaxMessages
  BY DEF TypeOK, Messages
<1>2. time \in [messages -> 1..MaxMessages]
  BY <1>1
<1>3. \A m, n \in messages : time[m] = time[n] => m = n
  BY DEF DistinctTimes
<1>4. time \in Injection(messages, 1..MaxMessages)
  BY <1>2, <1>3 DEF Injection, IsInjective
<1>5. IsFiniteSet(1..MaxMessages)
  BY LimitsAssumption, FS_Interval
<1>6. QED
  BY <1>4, <1>5, FS_Injection

\* get_history never returns more than the limit: the number of older ones
\* tells its messages apart, and is below the limit.
LEMMA HistoryWithinLimit ==
    ASSUME TypeOK, DistinctTimes, NEW x
    PROVE  Cardinality(History(x)) <= HistoryLimit
<1> DEFINE Older(m) == {n \in Transcript(x) : n.at < m.at}
           rank == [m \in History(x) |-> Cardinality(Older(m))]
<1>1. IsFiniteSet(Transcript(x))
  BY FiniteMessages, FS_Subset DEF Transcript
<1>2. \A m \in Transcript(x) : m \in messages /\ m.at \in Nat
  BY MessageTypes DEF Transcript
<1>3. \A m : IsFiniteSet(Older(m)) /\ Cardinality(Older(m)) \in Nat
  <2> SUFFICES ASSUME NEW m PROVE IsFiniteSet(Older(m)) /\ Cardinality(Older(m)) \in Nat
    OBVIOUS
  <2>1. Older(m) \in SUBSET Transcript(x)
    OBVIOUS
  <2>2. IsFiniteSet(Older(m))
    BY <1>1, <2>1, FS_Subset
  <2>3. QED
    BY <2>2, FS_CardinalityType
<1>4. ASSUME NEW m \in Transcript(x), NEW n \in Transcript(x), m.at < n.at
      PROVE  Cardinality(Older(m)) < Cardinality(Older(n))
  <2>1. Older(m) \in SUBSET Older(n)
    BY <1>2, <1>4
  <2>2. m \in Older(n) /\ m \notin Older(m)
    BY <1>2, <1>4
  <2>3. Cardinality(Older(m)) <= Cardinality(Older(n))
        /\ Cardinality(Older(n)) # Cardinality(Older(m))
    BY <1>3, <2>1, <2>2, FS_Subset
  <2>4. Cardinality(Older(m)) \in Nat /\ Cardinality(Older(n)) \in Nat
    BY <1>3
  <2> HIDE DEF Older
  <2>5. QED
    BY <2>3, <2>4
<1> HIDE DEF Older
<1>5. History(x) = {m \in Transcript(x) : Cardinality(Older(m)) < HistoryLimit}
  BY DEF History, Older
<1>6. rank \in [History(x) -> 0..(HistoryLimit - 1)]
  BY <1>3, <1>5, LimitsAssumption
<1>7. ASSUME NEW m \in History(x), NEW n \in History(x), rank[m] = rank[n]
      PROVE  m = n
  <2>1. Cardinality(Older(m)) = Cardinality(Older(n)) /\ m \in Transcript(x) /\ n \in Transcript(x)
    BY <1>5, <1>7
  <2>2. ~(m.at < n.at) /\ ~(n.at < m.at)
    BY <1>3, <1>4, <2>1
  <2>3. m.at = n.at
    BY <1>2, <2>1, <2>2
  <2>4. QED
    BY <1>2, <2>1, <2>3 DEF DistinctTimes
<1>8. rank \in Injection(History(x), 0..(HistoryLimit - 1))
  BY <1>6, <1>7 DEF Injection, IsInjective
<1>9. /\ IsFiniteSet(0..(HistoryLimit - 1))
      /\ Cardinality(0..(HistoryLimit - 1)) = HistoryLimit
  <2>1. 0 \in Int /\ HistoryLimit - 1 \in Int
    BY LimitsAssumption
  <2>2. QED
    BY <2>1, FS_Interval, LimitsAssumption
<1>10. QED
  BY <1>8, <1>9, FS_Injection

\* What a commit of r does to messages: those of others are as they were.
LEMMA CommittedExactly ==
    ASSUME NEW r \in Requests, NEW ms \in SUBSET Messages
    PROVE  /\ \A m : m.req # r => (m \in Committed(r, ms) <=> m \in ms)
           /\ \A m \in Committed(r, ms) : m.req = r =>
                 \E k \in ms : k.req = r /\ m = [k EXCEPT !.done = TRUE]
           /\ \A k \in ms : k.req = r => [k EXCEPT !.done = TRUE] \in Committed(r, ms)
<1> DEFINE seal(k) == IF k.req = r THEN [k EXCEPT !.done = TRUE] ELSE k
<1>1. Committed(r, ms) = {seal(k) : k \in ms}
  BY DEF Committed
<1>2. \A k \in ms : seal(k).req = k.req
  BY DEF Messages
<1>3. ASSUME NEW m, m.req # r PROVE m \in Committed(r, ms) <=> m \in ms
  BY <1>1, <1>2, <1>3
<1>4. QED
  BY <1>1, <1>2, <1>3

-----------------------------------------------------------------------------
(* What a step has to leave alone.                                         *)

\* For the history another request has loaded.
LEMMA RemembersKeeps ==
    ASSUME NEW q, Remembers(q), Knows(q),
           pc'[q] = pc[q], row'[q] = row[q], context'[q] = context[q],
           row[q] \in Rows /\ session'[row[q]] # "deleted" => session[row[q]] # "deleted",
           \A m \in messages :
               m.done /\ m.row = row[q] /\ session'[row[q]] # "deleted" => m \in messages',
           clock \in Nat, clock' \in Nat, clock <= clock',
           context[q] \subseteq Messages,
           \A n \in messages' : n.req = q => \E k \in messages : k.req = q /\ k.at = n.at
    PROVE  Remembers(q)'
<1> SUFFICES ASSUME pc[q] \in {"turn", "llm"}
             PROVE  /\ Cardinality(context[q]) <= HistoryLimit
                    /\ session'[row[q]] # "deleted" => context[q] \subseteq Transcript(row[q])'
                    /\ \A m \in context[q] : m.at < clock'
                    /\ \A m \in context[q] : \A n \in messages' : n.req = q => m.at < n.at
  BY DEF Remembers, Transcript
<1>1. /\ Cardinality(context[q]) <= HistoryLimit
      /\ session[row[q]] # "deleted" => context[q] \subseteq Transcript(row[q])
      /\ \A m \in context[q] : m.at < clock
      /\ \A m \in context[q] : \A n \in messages : n.req = q => m.at < n.at
  BY DEF Remembers
<1>2. session'[row[q]] # "deleted" => context[q] \subseteq Transcript(row[q])'
  BY <1>1 DEF Transcript, Knows
<1>3. \A m \in context[q] : m.at < clock'
  <2>1. \A m \in context[q] : m.at \in Nat
    BY LimitsAssumption DEF Messages
  <2>2. QED
    BY <1>1, <2>1
<1>4. \A m \in context[q] : \A n \in messages' : n.req = q => m.at < n.at
  BY <1>1
<1>5. QED
  BY <1>1, <1>2, <1>3, <1>4

\* For the message another request has appended.
LEMMA AddedKeeps ==
    ASSUME NEW q, AddedOne(q), pc'[q] = pc[q],
           pc[q] = "appended" => \A n : n.req = q => (n \in messages' <=> n \in messages)
    PROVE  AddedOne(q)'
  BY DEF AddedOne

\* For the messages that count in a session, and for their number.
LEMMA CountedKeeps ==
    ASSUME NEW x,
           \A m \in messages : m.row = x /\ m.done => m \in messages' /\ op'[m.req] = op[m.req],
           \A m \in messages' : m.row = x /\ m.done =>
               \/ m \in messages /\ op'[m.req] = op[m.req]
               \/ op'[m.req] # "append" /\ m.role # "assistant"
    PROVE  Counted(x)' = Counted(x)
<1>1. ASSUME NEW m \in Counted(x) PROVE m \in Counted(x)'
  BY <1>1 DEF Counted, Transcript
<1>2. ASSUME NEW m \in Counted(x)' PROVE m \in Counted(x)
  BY <1>2 DEF Counted, Transcript
<1>3. QED
  BY <1>1, <1>2

LEMMA CountsKeeps ==
    ASSUME NEW x, CountsRight(x), count'[x] = count[x], raced \subseteq raced',
           session'[x] \in {"none", "open"} => session[x] \in {"none", "open"},
           session'[x] = "stored" => session[x] = "stored" /\ Counted(x)' = Counted(x)
    PROVE  CountsRight(x)'
<1>1. session'[x] \in {"none", "open"} => count'[x] = 0
  BY DEF CountsRight
<1>2. ASSUME session'[x] = "stored", x \notin raced'
      PROVE  count'[x] = Cardinality(Counted(x)')
  BY <1>2 DEF CountsRight
<1>3. Cardinality(Counted(x)') = Cardinality(Counted(x))'
  OBVIOUS
<1>4. QED
  BY <1>1, <1>2, <1>3 DEF CountsRight

\* The types these facts need.
LEMMA TalkTypes ==
    ASSUME TypeOK
    PROVE  /\ clock \in Nat /\ messages \in SUBSET Messages
           /\ \A q \in Requests : context[q] \subseteq Messages
           /\ \A x \in Rows : count[x] \in Nat
           /\ \A q \in Requests : seen[q] \in Nat
           /\ DOMAIN context = Requests /\ DOMAIN count = Rows
<1>1. clock \in 1..MaxMessages + 1
  BY DEF TypeOK
<1>2. clock \in Nat
  BY <1>1, LimitsAssumption
<1>3. QED
  BY <1>2 DEF TypeOK

-----------------------------------------------------------------------------
(* The steps of requests.                                                  *)

\* A step that leaves messages, counts and sessions alone.
LEMMA QuietTalk ==
    ASSUME ChatInv, TalkInv, NEW r \in Requests, Untouched(r),
           UNCHANGED <<session, messages, clock, count, raced, context>>,
           pc[r] = "idle",
           pc'[r] \notin {"turn", "llm", "appended"}
    PROVE  TalkInv'
<1>1. \A m \in messages : m.req \in Requests /\ m.req # r
  BY MessageTypes DEF ChatInv, OwnMessages
<1>2. TypeOK /\ clock' = clock
  BY DEF ChatInv
<1>3. DistinctTimes'
  BY DEF TalkInv, DistinctTimes
<1>4. ASSUME NEW q \in Requests PROVE Remembers(q)' /\ AddedOne(q)'
  <2>1. CASE q = r
    BY <2>1 DEF Remembers, AddedOne
  <2>2. CASE q # r
    <3>1. Remembers(q) /\ Knows(q) /\ AddedOne(q) /\ pc'[q] = pc[q] /\ row'[q] = row[q]
      BY <2>2 DEF TalkInv, ChatInv, Untouched
    <3>2. clock \in Nat /\ context[q] \subseteq Messages
      BY <1>2, TalkTypes
    <3>3. clock <= clock'
      BY ONLY <1>2, <3>2
    <3>4. Remembers(q)'
      BY <3>1, <3>2, <3>3, RemembersKeeps
    <3>5. AddedOne(q)'
      BY <3>1, AddedKeeps
    <3>6. QED
      BY <3>4, <3>5
  <2>3. QED
    BY <2>1, <2>2
<1>5. ASSUME NEW x \in Rows PROVE CountsRight(x)'
  <2>1. \A m \in messages : op'[m.req] = op[m.req]
    BY <1>1 DEF Untouched
  <2>2. Counted(x)' = Counted(x)
    BY <2>1, CountedKeeps
  <2>3. CountsRight(x)
    BY DEF TalkInv
  <2>4. QED
    BY <2>2, <2>3, CountsKeeps
<1>6. QED
  BY <1>3, <1>4, <1>5 DEF TalkInv

LEMMA RollbackTalk ==
    ASSUME ChatInv, TalkInv, NEW r \in Requests, Rollback(r), pc[r] \notin Ended
    PROVE  TalkInv'
<1>1. TypeOK
  BY DEF ChatInv
<1>2. /\ Untouched(r) /\ pc'[r] = "error"
      /\ session'[r] = IF session[r] = "open" THEN "none" ELSE session[r]
      /\ \A q \in Requests : q # r => session'[q] = session[q]
      /\ messages' = {m \in messages : m.req # r \/ m.done}
      /\ UNCHANGED <<clock, count, raced, context, op, row>>
  BY <1>1, Domains DEF Rollback, Answer, Untouched
<1>3. \A m \in messages : m.req \in Requests /\ (m.req = r => ~m.done)
  BY <1>1, MessageTypes DEF ChatInv, OwnMessages, Ended
<1>4. \A m \in messages : m.done => m \in messages'
  BY <1>2
<1>5. DistinctTimes'
  BY <1>2 DEF TalkInv, DistinctTimes
<1>6. ASSUME NEW q \in Requests PROVE Remembers(q)' /\ AddedOne(q)'
  <2>1. CASE q = r
    BY <1>2, <2>1 DEF Remembers, AddedOne
  <2>2. CASE q # r
    <3>1. Remembers(q) /\ Knows(q) /\ AddedOne(q) /\ pc'[q] = pc[q] /\ row'[q] = row[q]
      BY <1>2, <2>2 DEF TalkInv, ChatInv, Untouched
    <3>2. clock \in Nat /\ context[q] \subseteq Messages
      BY <1>1, TalkTypes
    <3>3. clock <= clock'
      BY <1>2, <3>2
    <3>4. row[q] \in Rows /\ session'[row[q]] # "deleted" => session[row[q]] # "deleted"
      BY <1>2 DEF Rows
    <3>5. Remembers(q)'
      BY <1>2, <1>4, <3>1, <3>2, <3>3, <3>4, RemembersKeeps
    <3>6. \A n : n.req = q => (n \in messages' <=> n \in messages)
      BY <1>2, <2>2
    <3>7. QED
      BY <3>1, <3>5, <3>6, AddedKeeps
  <2>3. QED
    BY <2>1, <2>2
<1>7. ASSUME NEW x \in Rows PROVE CountsRight(x)'
  <2>1. Counted(x)' = Counted(x)
    BY <1>2, <1>4, CountedKeeps
  <2>2. CountsRight(x)
    BY DEF TalkInv
  <2>3. /\ session'[x] \in {"none", "open"} => session[x] \in {"none", "open"}
        /\ session'[x] = "stored" => session[x] = "stored"
    BY <1>2 DEF Rows
  <2>4. QED
    BY <1>2, <2>1, <2>2, <2>3, CountsKeeps
<1>8. QED
  BY <1>5, <1>6, <1>7 DEF TalkInv

\* Nothing counts in a session nobody sees.
LEMMA CountNow ==
    ASSUME ChatInv, TalkInv, NEW x \in Rows, x \notin raced, session[x] # "deleted"
    PROVE  count[x] = Cardinality(Counted(x))
<1>1. CountsRight(x) /\ TypeOK
  BY DEF TalkInv, ChatInv
<1>2. CASE session[x] = "stored"
  BY <1>1, <1>2 DEF CountsRight
<1>3. CASE session[x] # "stored"
  <2>1. session[x] \in {"none", "open"}
    BY <1>1, <1>3 DEF TypeOK
  <2>2. Counted(x) = {}
    BY <1>3 DEF Counted, Transcript, ChatInv, OwnMessages
  <2>3. QED
    BY <1>1, <2>1, <2>2, FS_EmptySet DEF CountsRight
<1>4. QED
  BY <1>2, <1>3

LEMMA CreateSessionTalk ==
    ASSUME ChatInv, TalkInv, NEW r \in Requests, CreateSession(r)
    PROVE  TalkInv'
<1>1. TypeOK /\ pc[r] = "create" /\ session[r] = "none"
  BY DEF ChatInv, CreateSession, OwnSession
<1>2. CASE Rollback(r)
  BY <1>1, <1>2, RollbackTalk DEF Ended
<1>3. CASE ~Rollback(r)
  <2>1. /\ Untouched(r) /\ pc'[r] \in {"ok", "history"}
        /\ session'[r] \in {"stored", "open"}
        /\ \A q \in Requests : q # r => session'[q] = session[q]
        /\ UNCHANGED <<messages, clock, count, raced, context, op>>
    BY <1>1, <1>3, Domains DEF CreateSession, Answer, Load, Untouched
  <2>2. clock' = clock /\ messages' = messages /\ op' = op /\ context' = context
        /\ count' = count /\ raced' = raced
    BY <2>1
  <2>3. DistinctTimes'
    BY <2>2 DEF TalkInv, DistinctTimes
  <2>4. ASSUME NEW q \in Requests PROVE Remembers(q)' /\ AddedOne(q)'
    <3>1. CASE q = r
      BY <2>1, <3>1 DEF Remembers, AddedOne
    <3>2. CASE q # r
      <4>1. Remembers(q) /\ Knows(q) /\ AddedOne(q) /\ pc'[q] = pc[q] /\ row'[q] = row[q]
        BY <2>1, <3>2 DEF TalkInv, ChatInv, Untouched
      <4>2. clock \in Nat /\ context[q] \subseteq Messages
        BY <1>1, TalkTypes
      <4>3. clock <= clock'
        BY ONLY <2>2, <4>2
      <4>4. row[q] \in Rows /\ session'[row[q]] # "deleted" => session[row[q]] # "deleted"
        BY <1>1, <2>1 DEF Rows
      <4>5. Remembers(q)'
        BY <2>2, <4>1, <4>2, <4>3, <4>4, RemembersKeeps
      <4>6. QED
        BY <2>2, <4>1, <4>5, AddedKeeps
    <3>3. QED
      BY <3>1, <3>2
  <2>5. ASSUME NEW x \in Rows PROVE CountsRight(x)'
    <3>1. Counted(x)' = Counted(x)
      BY <2>2, CountedKeeps
    <3>2. CASE x = r
      <4>1. session[x] # "deleted" /\ count[x] = 0
        BY <1>1, <3>2 DEF TalkInv, CountsRight
      <4>2. x \notin raced => count[x] = Cardinality(Counted(x))
        BY <4>1, CountNow
      <4>3. Cardinality(Counted(x))' = Cardinality(Counted(x))
        BY <3>1
      <4>4. QED
        BY <2>2, <4>1, <4>2, <4>3 DEF CountsRight
    <3>3. CASE x # r
      <4>1. CountsRight(x) /\ session'[x] = session[x]
        BY <2>1, <3>3 DEF TalkInv, Rows
      <4>2. QED
        BY <2>2, <3>1, <4>1, CountsKeeps
    <3>4. QED
      BY <3>2, <3>3
  <2>6. QED
    BY <2>3, <2>4, <2>5 DEF TalkInv
<1>4. QED
  BY <1>2, <1>3

LEMMA LoadHistoryTalk ==
    ASSUME ChatInv, TalkInv, NEW r \in Requests, LoadHistory(r)
    PROVE  TalkInv'
<1>1. TypeOK /\ pc[r] = "history"
  BY DEF ChatInv, LoadHistory
<1>2. /\ \A q \in Requests : q # r => pc'[q] = pc[q] /\ context'[q] = context[q]
      /\ pc'[r] = "turn" /\ context'[r] = History(row[r])
      /\ messages' = messages /\ clock' = clock /\ op' = op /\ row' = row
      /\ count' = count /\ raced' = raced /\ session' = session
  BY <1>1, Domains, TalkTypes DEF LoadHistory, Answer, tables
<1>3. \A m \in messages : m.req \in Requests /\ m.req # r /\ m.at < clock
  BY <1>1, MessageTypes DEF ChatInv, OwnMessages
<1>4. DistinctTimes /\ DistinctTimes'
  BY <1>2 DEF TalkInv, DistinctTimes
<1>5. ASSUME NEW q \in Requests PROVE Remembers(q)' /\ AddedOne(q)'
  <2>1. CASE q = r
    <3>1. Cardinality(History(row[r])) <= HistoryLimit
      BY <1>1, <1>4, HistoryWithinLimit
    <3>2. History(row[r]) \subseteq Transcript(row[r]) /\ Transcript(row[r]) \subseteq messages
      BY DEF History, Transcript
    <3>3. Transcript(row[r])' = Transcript(row[r])
      BY <1>2 DEF Transcript
    <3>4. Cardinality(context[r])' = Cardinality(History(row[r]))
      BY <1>2
    <3>5. \A m \in History(row[r]) : m.at < clock'
      BY <1>2, <1>3, <3>2
    <3>6. \A m \in History(row[r]) : \A n \in messages' : n.req = r => m.at < n.at
      BY <1>2, <1>3
    <3>7. Remembers(r)'
      BY <1>2, <3>1, <3>2, <3>3, <3>4, <3>5, <3>6 DEF Remembers
    <3>8. AddedOne(r)'
      BY <1>2 DEF AddedOne
    <3>9. QED
      BY <2>1, <3>7, <3>8
  <2>2. CASE q # r
    <3>1. Remembers(q) /\ Knows(q) /\ AddedOne(q) /\ pc'[q] = pc[q] /\ row'[q] = row[q]
          /\ context'[q] = context[q]
      BY <1>2, <2>2 DEF TalkInv, ChatInv
    <3>2. clock \in Nat /\ context[q] \subseteq Messages
      BY <1>1, TalkTypes
    <3>3. clock <= clock'
      BY ONLY <1>2, <3>2
    <3>4. Remembers(q)'
      BY <1>2, <3>1, <3>2, <3>3, RemembersKeeps
    <3>5. QED
      BY <1>2, <3>1, <3>4, AddedKeeps
  <2>3. QED
    BY <2>1, <2>2
<1>6. ASSUME NEW x \in Rows PROVE CountsRight(x)'
  <2>1. Counted(x)' = Counted(x) /\ CountsRight(x)
    BY <1>2, CountedKeeps DEF TalkInv
  <2>2. QED
    BY <1>2, <2>1, CountsKeeps
<1>7. QED
  BY <1>4, <1>5, <1>6 DEF TalkInv

\* The message of a turn, or the one that is appended.
LEMMA InsertTalk ==
    ASSUME ChatInv, TalkInv, NEW r \in Requests, Untouched(r), NEW new \in Messages,
           new.at = clock, new.req = r, new.done = FALSE,
           messages' = messages \cup {new}, clock' = clock + 1,
           session' = session, count' = count, raced' = raced, context' = context,
           op' = op, row' = row,
           \/ pc[r] = "turn" /\ pc'[r] = "llm"
           \/ pc[r] = "append" /\ pc'[r] = "appended"
    PROVE  TalkInv'
<1>1. TypeOK
  BY DEF ChatInv
<1>2. clock \in Nat
  BY <1>1, TalkTypes
<1>3. \A m \in messages : m.req \in Requests /\ m.req # r /\ m.at \in Nat /\ m.at < clock
  BY <1>1, MessageTypes DEF ChatInv, OwnMessages
<1>4. clock' \in Nat /\ clock <= clock' /\ clock < clock'
  BY <1>2
<1>5. \A m \in messages : m.at # new.at
  BY <1>2, <1>3
<1>6. DistinctTimes'
  <2> SUFFICES ASSUME NEW m \in messages', NEW n \in messages', m.at = n.at
               PROVE  m = n
    BY DEF DistinctTimes
  <2>1. CASE m \in messages /\ n \in messages
    BY <2>1 DEF TalkInv, DistinctTimes
  <2>2. QED
    BY <1>5, <2>1
<1>7. ASSUME NEW q \in Requests PROVE Remembers(q)' /\ AddedOne(q)'
  <2>1. CASE q = r
    <3>1. Remembers(r)'
      <4> SUFFICES ASSUME pc[r] = "turn"
                   PROVE  /\ Cardinality(context[r]) <= HistoryLimit
                          /\ session[row[r]] # "deleted" =>
                                context[r] \subseteq Transcript(row[r])'
                          /\ \A m \in context[r] : m.at < clock'
                          /\ \A m \in context[r] : \A n \in messages' :
                                n.req = r => m.at < n.at
        BY DEF Remembers
      <4>1. /\ Cardinality(context[r]) <= HistoryLimit
            /\ session[row[r]] # "deleted" => context[r] \subseteq Transcript(row[r])
            /\ \A m \in context[r] : m.at < clock
        BY DEF TalkInv, Remembers
      <4>2. Transcript(row[r]) \subseteq Transcript(row[r])'
        BY DEF Transcript
      <4>3. \A m \in context[r] : m.at \in Nat
        BY <1>1, TalkTypes, LimitsAssumption DEF Messages
      <4>4. \A m \in context[r] : m.at < clock'
        BY <1>2, <1>4, <4>1, <4>3
      <4>5. \A m \in context[r] : \A n \in messages' : n.req = r => m.at < n.at
        BY <1>3, <4>1
      <4>6. QED
        BY <4>1, <4>2, <4>4, <4>5
    <3>2. AddedOne(r)'
      BY <1>3 DEF AddedOne
    <3>3. QED
      BY <2>1, <3>1, <3>2
  <2>2. CASE q # r
    <3>1. Remembers(q) /\ Knows(q) /\ AddedOne(q) /\ pc'[q] = pc[q]
      BY <2>2 DEF TalkInv, ChatInv, Untouched
    <3>2. context[q] \subseteq Messages
      BY <1>1, TalkTypes
    <3>3. \A n : n.req = q => (n \in messages' <=> n \in messages)
      BY <2>2
    <3>4. \A n \in messages' : n.req = q => \E k \in messages : k.req = q /\ k.at = n.at
      BY <3>3
    <3>5. Remembers(q)'
      BY <1>2, <1>4, <3>1, <3>2, <3>4, RemembersKeeps
    <3>6. QED
      BY <3>1, <3>3, <3>5, AddedKeeps
  <2>3. QED
    BY <2>1, <2>2
<1>8. ASSUME NEW x \in Rows PROVE CountsRight(x)'
  <2>1. Counted(x)' = Counted(x)
    BY CountedKeeps
  <2>2. CountsRight(x)
    BY DEF TalkInv
  <2>3. QED
    BY <2>1, <2>2, CountsKeeps
<1>9. QED
  BY <1>6, <1>7, <1>8 DEF TalkInv

LEMMA TurnTalk ==
    ASSUME ChatInv, TalkInv, NEW r \in Requests, AddTurn(r) \/ AppendMessage(r)
    PROVE  TalkInv'
<1>1. TypeOK /\ Knows(r)
  BY DEF ChatInv
<1>2. pc[r] \in {"turn", "append"} /\ row[r] \in Rows /\ clock <= MaxMessages
  BY <1>1 DEF AddTurn, AppendMessage, Knows
<1>3. CASE Rollback(r)
  BY <1>2, <1>3, RollbackTalk DEF Ended
<1>4. CASE ~Rollback(r)
  <2>1. PICK role \in {"user", "assistant"} : messages' = messages \cup {Insert(r, role)}
    BY <1>4 DEF AddTurn, AppendMessage
  <2>2. /\ \/ pc[r] = "turn" /\ pc' = [pc EXCEPT ![r] = "llm"]
           \/ pc[r] = "append" /\ pc' = [pc EXCEPT ![r] = "appended"]
        /\ clock' = clock + 1
        /\ UNCHANGED <<session, count, raced, context, op, who, want, row>>
    BY <1>4 DEF AddTurn, AppendMessage, Answer
  <2>3. /\ \/ pc[r] = "turn" /\ pc'[r] = "llm"
           \/ pc[r] = "append" /\ pc'[r] = "appended"
        /\ Untouched(r)
        /\ session' = session /\ count' = count /\ raced' = raced /\ context' = context
        /\ op' = op /\ row' = row
    BY <1>1, <2>2, Domains DEF Untouched
  <2>4. /\ Insert(r, role) \in Messages /\ Insert(r, role).at = clock
        /\ Insert(r, role).req = r /\ Insert(r, role).done = FALSE
    BY <1>1, <1>2, InsertedMessage
  <2>5. QED
    BY <2>1, <2>2, <2>3, <2>4, InsertTalk
<1>5. QED
  BY <1>3, <1>4

\* A request is answered: what it has added is there for all to see.  What
\* that does to the count of its session is left open here.
LEMMA CommitTalk ==
    ASSUME ChatInv, TalkInv, NEW r \in Requests, Untouched(r),
           NEW ms \in SUBSET Messages, messages \subseteq ms,
           \A k \in ms \ messages : k.req = r /\ k.row = row[r] /\ k.at = clock,
           \A k, l \in ms \ messages : k = l,
           messages' = Committed(r, ms), clock' \in Nat, clock <= clock',
           pc[r] \in {"llm", "appended"}, pc'[r] = "ok",
           op' = op, row' = row, context' = context, raced \subseteq raced',
           session'[r] = IF session[r] = "open" THEN "stored" ELSE session[r],
           \A q \in Requests : q # r => session'[q] = session[q],
           \A x \in Rows : x # row[r] => count'[x] = count[x],
           CountsRight(row[r])'
    PROVE  TalkInv'
<1>1. TypeOK /\ Knows(r) /\ clock \in Nat
  BY TalkTypes DEF ChatInv
<1>2. \A m \in messages : /\ m.req \in Requests /\ m.at \in Nat /\ m.at < clock
                          /\ m.req = r => ~m.done /\ m.row = row[r]
  BY <1>1, MessageTypes DEF ChatInv, OwnMessages
<1>3. /\ \A m : m.req # r => (m \in messages' <=> m \in ms)
      /\ \A m \in messages' : m.req = r =>
            \E k \in ms : k.req = r /\ m = [k EXCEPT !.done = TRUE]
  BY CommittedExactly
<1>4. \A m : m.req # r => (m \in messages' <=> m \in messages)
  BY <1>3
<1>5. \A m \in messages' : m.req = r => m.row = row[r]
  BY <1>2, <1>3 DEF Messages
<1>6. \A k, l \in ms : k.at = l.at => k = l
  <2> SUFFICES ASSUME NEW k \in ms, NEW l \in ms, k.at = l.at PROVE k = l
    OBVIOUS
  <2>1. CASE k \in messages /\ l \in messages
    BY <2>1 DEF TalkInv, DistinctTimes
  <2>2. CASE k \notin messages /\ l \in messages
    BY <1>1, <1>2, <2>2
  <2>3. CASE k \in messages /\ l \notin messages
    BY <1>1, <1>2, <2>3
  <2>4. QED
    BY <2>1, <2>2, <2>3
<1>7. DistinctTimes'
  <2> SUFFICES ASSUME NEW m \in messages', NEW n \in messages', m.at = n.at
               PROVE  m = n
    BY DEF DistinctTimes
  <2>1. \A k \in ms : [k EXCEPT !.done = TRUE].at = k.at
    BY DEF Messages
  <2> DEFINE seal(k) == IF k.req = r THEN [k EXCEPT !.done = TRUE] ELSE k
  <2>2. messages' = {seal(k) : k \in ms} /\ \A k \in ms : seal(k).at = k.at
    BY <2>1 DEF Committed
  <2> HIDE DEF seal
  <2>3. PICK k \in ms : m = seal(k)
    BY <2>2
  <2>4. PICK l \in ms : n = seal(l)
    BY <2>2
  <2>5. k = l
    BY <1>6, <2>2, <2>3, <2>4
  <2>6. QED
    BY <2>3, <2>4, <2>5
<1>8. ASSUME NEW q \in Requests PROVE Remembers(q)' /\ AddedOne(q)'
  <2>1. CASE q = r
    BY <2>1 DEF Remembers, AddedOne
  <2>2. CASE q # r
    <3>1. Remembers(q) /\ Knows(q) /\ AddedOne(q) /\ pc'[q] = pc[q]
      BY <2>2 DEF TalkInv, ChatInv, Untouched
    <3>2. context[q] \subseteq Messages
      BY <1>1, TalkTypes
    <3>3. \A n : n.req = q => (n \in messages' <=> n \in messages)
      BY <1>4, <2>2
    <3>4. \A n \in messages' : n.req = q => \E k \in messages : k.req = q /\ k.at = n.at
      BY <3>3
    <3>5. row[q] \in Rows /\ session'[row[q]] # "deleted" => session[row[q]] # "deleted"
      BY DEF Rows
    <3>6. \A m \in messages : m.done => m \in messages'
      BY <1>2, <1>4
    <3>7. Remembers(q)'
      BY <1>1, <3>1, <3>2, <3>4, <3>5, <3>6, RemembersKeeps
    <3>8. QED
      BY <3>1, <3>3, <3>7, AddedKeeps
  <2>3. QED
    BY <2>1, <2>2
<1>9. ASSUME NEW x \in Rows PROVE CountsRight(x)'
  <2>1. CASE x = row[r]
    BY <2>1
  <2>2. CASE x # row[r]
    <3>1. \A m \in messages : m.row = x /\ m.done => m \in messages'
      BY <1>2, <1>4
    <3>2. \A m \in messages' : m.row = x => m \in messages
      BY <1>4, <1>5, <2>2
    <3>3. Counted(x)' = Counted(x)
      BY <3>1, <3>2, CountedKeeps
    <3>4. x = r => session[r] # "open"
      BY <2>2 DEF ChatInv, OwnSession
    <3>5. session'[x] = session[x]
      BY <3>4 DEF Rows
    <3>6. CountsRight(x)
      BY DEF TalkInv
    <3>7. QED
      BY <2>2, <3>3, <3>5, <3>6, CountsKeeps
  <2>3. QED
    BY <2>1, <2>2
<1>10. QED
  BY <1>7, <1>8, <1>9 DEF TalkInv

\* One more message counts, and the count says so unless it was stale.
LEMMA CountOneMore ==
    ASSUME ChatInv, TalkInv, NEW r \in Requests, IncrementMessageCount(r), row' = row,
           row[r] \in Rows, session[row[r]] # "deleted", session'[row[r]] = "stored",
           NEW e, e \notin Counted(row[r]),
           Counted(row[r])' = Counted(row[r]) \cup {e}
    PROVE  CountsRight(row[r])'
<1> DEFINE x == row[r]
<1>1. TypeOK /\ DistinctTimes
  BY DEF ChatInv, TalkInv
<1>2. count' = [count EXCEPT ![x] = seen[r] + 1]
      /\ raced' = IF count[x] = seen[r] THEN raced ELSE raced \cup {x}
  BY DEF IncrementMessageCount
<1>3. count'[x] = seen[r] + 1
  BY <1>1, <1>2, TalkTypes
<1>4. ASSUME x \notin raced' PROVE count'[x] = Cardinality(Counted(x)')
  <2>1. count[x] = seen[r] /\ x \notin raced
    BY <1>2, <1>4
  <2>2. count[x] = Cardinality(Counted(x))
    BY <2>1, CountNow
  <2>3. IsFiniteSet(Counted(x))
    BY <1>1, FiniteMessages, FS_Subset DEF Counted, Transcript
  <2>4. Cardinality(Counted(x) \cup {e}) = Cardinality(Counted(x)) + 1
    BY <2>3, FS_AddElement
  <2>5. Cardinality(Counted(x)') = Cardinality(Counted(x)) + 1
    BY <2>4
  <2>6. QED
    BY <1>3, <2>1, <2>2, <2>5
<1>5. Cardinality(Counted(x))' = Cardinality(Counted(x)')
  OBVIOUS
<1>6. QED
  BY <1>4, <1>5 DEF CountsRight

\* An append is committed.
LEMMA CommitAppendTalk ==
    ASSUME ChatInv, TalkInv, NEW r \in Requests, CommitAppend(r)
    PROVE  TalkInv'
<1>1. TypeOK /\ Knows(r) /\ pc[r] = "appended" /\ AddedOne(r) /\ OwnSession(r)
  BY DEF ChatInv, TalkInv, CommitAppend
<1>2. /\ Untouched(r) /\ pc'[r] = "ok" /\ messages' = Committed(r, messages)
      /\ op' = op /\ row' = row /\ context' = context /\ session' = session
      /\ clock' = clock /\ IncrementMessageCount(r)
  BY <1>1, Domains DEF CommitAppend, Answer, Untouched
<1>3. row[r] \in Rows /\ op[r] = "append" /\ session[r] # "open" /\ session[row[r]] = "stored"
  BY <1>1 DEF Knows, OwnSession
<1>4. /\ raced \subseteq raced'
      /\ \A x \in Rows : x # row[r] => count'[x] = count[x]
  BY <1>1, <1>2, TalkTypes DEF IncrementMessageCount
<1>5. PICK k \in messages : k.req = r /\ \A n \in messages : n.req = r => n = k
  BY <1>1 DEF AddedOne
<1>6. k \in Messages /\ k.row = row[r] /\ ~k.done /\ messages \in SUBSET Messages
  BY <1>1, <1>5, TalkTypes DEF ChatInv, OwnMessages
<1> DEFINE e == [k EXCEPT !.done = TRUE]
<1>7. e.row = row[r] /\ e.req = r /\ e.done = TRUE
  BY <1>5, <1>6 DEF Messages
<1>8. /\ \A m : m.req # r => (m \in messages' <=> m \in messages)
      /\ \A m \in messages' : m.req = r => m = e
      /\ e \in messages'
  BY <1>2, <1>5, <1>6, CommittedExactly
<1>9. \A m \in messages : m.req = r => ~m.done
  BY <1>5, <1>6
<1> HIDE DEF e
<1>10. e \notin Counted(row[r])
  BY <1>7, <1>9 DEF Counted, Transcript
<1>11. Counted(row[r])' = Counted(row[r]) \cup {e}
  <2>1. ASSUME NEW m \in Counted(row[r])' PROVE m \in Counted(row[r]) \cup {e}
    BY <1>2, <1>8, <2>1 DEF Counted, Transcript
  <2>2. ASSUME NEW m \in Counted(row[r]) PROVE m \in Counted(row[r])'
    BY <1>2, <1>8, <1>9, <2>2 DEF Counted, Transcript
  <2>3. e \in Counted(row[r])'
    BY <1>2, <1>3, <1>7, <1>8 DEF Counted, Transcript
  <2>4. QED
    BY <2>1, <2>2, <2>3
<1>12. CountsRight(row[r])'
  BY <1>2, <1>3, <1>10, <1>11, CountOneMore
<1>13. clock' \in Nat /\ clock <= clock'
  <2>1. clock \in Nat
    BY <1>1, TalkTypes
  <2>2. QED
    BY ONLY <1>2, <2>1
<1>14. /\ session'[r] = IF session[r] = "open" THEN "stored" ELSE session[r]
       /\ \A q \in Requests : q # r => session'[q] = session[q]
  BY <1>2, <1>3
<1>15. QED
  BY <1>1, <1>2, <1>4, <1>6, <1>12, <1>13, <1>14, CommitTalk

\* The user's message alone, and a run that says why.
LEMMA NoReplyTalk ==
    ASSUME ChatInv, TalkInv, NEW r \in Requests, NEW status, NoReply(r, status)
    PROVE  TalkInv'
<1>1. TypeOK /\ Knows(r) /\ pc[r] = "llm" /\ OwnSession(r)
  BY DEF ChatInv, NoReply
<1>2. /\ Untouched(r) /\ pc'[r] = "ok" /\ messages' = Committed(r, messages)
      /\ op' = op /\ row' = row /\ context' = context /\ count' = count /\ raced' = raced
      /\ clock' = clock
      /\ session'[r] = IF session[r] = "open" THEN "stored" ELSE session[r]
      /\ \A q \in Requests : q # r => session'[q] = session[q]
  BY <1>1, Domains DEF NoReply, Answer, Commit, Untouched
<1>3. /\ row[r] \in Rows /\ op[r] = "invoke" /\ session'[row[r]] = "stored"
      /\ session[row[r]] # "deleted"
  BY <1>1, <1>2 DEF Knows, OwnSession, Rows
<1>4. \A m \in messages : m.req = r => ~m.done /\ m.role # "assistant"
  BY <1>1, <1>3 DEF ChatInv, OwnMessages, Answers
<1>5. messages \in SUBSET Messages /\ clock \in Nat
  BY <1>1, TalkTypes
<1>6. /\ \A m : m.req # r => (m \in messages' <=> m \in messages)
      /\ \A m \in messages' : m.req = r =>
            \E k \in messages : k.req = r /\ m = [k EXCEPT !.done = TRUE]
  BY <1>2, <1>5, CommittedExactly
<1>7. \A m \in messages' : m.req = r => m.role # "assistant"
  BY <1>4, <1>5, <1>6 DEF Messages
<1>8. Counted(row[r])' = Counted(row[r])
  <2>1. \A m \in messages : m.done => m \in messages'
    BY <1>4, <1>6
  <2>2. \A m \in messages' : m \in messages \/ (op[m.req] # "append" /\ m.role # "assistant")
    BY <1>3, <1>6, <1>7
  <2>3. QED
    BY <1>2, <2>1, <2>2, CountedKeeps
<1>9. CountsRight(row[r])'
  <2>1. row[r] \notin raced => count[row[r]] = Cardinality(Counted(row[r]))
    BY <1>3, CountNow
  <2>2. Cardinality(Counted(row[r]))' = Cardinality(Counted(row[r]))
    BY <1>8
  <2>3. QED
    BY <1>2, <1>3, <2>1, <2>2 DEF CountsRight
<1>10. clock' \in Nat /\ clock <= clock'
  BY ONLY <1>2, <1>5
<1>11. QED
  BY <1>1, <1>2, <1>5, <1>9, <1>10, CommitTalk

\* The answer of the LLM is stored with the user's message; it alone counts.
LEMMA ReplyTalk ==
    ASSUME ChatInv, TalkInv, NEW r \in Requests, Reply(r)
    PROVE  TalkInv'
<1> DEFINE new == Insert(r, "assistant")
           ms == messages \cup {new}
           e == [new EXCEPT !.done = TRUE]
<1>1. TypeOK /\ Knows(r) /\ pc[r] = "llm" /\ OwnSession(r)
  BY DEF ChatInv, Reply
<1>2. /\ Untouched(r) /\ pc'[r] = "ok" /\ messages' = Committed(r, ms)
      /\ op' = op /\ row' = row /\ context' = context
      /\ clock' = clock + 1 /\ clock <= MaxMessages
      /\ IncrementMessageCount(r)
      /\ session'[r] = IF session[r] = "open" THEN "stored" ELSE session[r]
      /\ \A q \in Requests : q # r => session'[q] = session[q]
  BY <1>1, Domains DEF Reply, Answer, Commit, Untouched
<1>3. /\ row[r] \in Rows /\ op[r] = "invoke" /\ session'[row[r]] = "stored"
      /\ session[row[r]] # "deleted"
  BY <1>1, <1>2 DEF Knows, OwnSession, Rows
<1>4. /\ new \in Messages /\ new.at = clock /\ new.row = row[r] /\ new.req = r
      /\ new.role = "assistant"
  BY <1>1, <1>2, <1>3, InsertedMessage
<1>5. \A m \in messages : m.req = r => ~m.done /\ m.role # "assistant"
  BY <1>1, <1>3 DEF ChatInv, OwnMessages, Answers
<1>6. messages \in SUBSET Messages /\ clock \in Nat
  BY <1>1, TalkTypes
<1>7. clock' \in Nat /\ clock <= clock'
  BY <1>2, <1>6
<1>8. /\ raced \subseteq raced'
      /\ \A x \in Rows : x # row[r] => count'[x] = count[x]
  BY <1>1, <1>2, TalkTypes DEF IncrementMessageCount
<1>9. e.row = row[r] /\ e.req = r /\ e.done = TRUE /\ e.role = "assistant"
  BY <1>4 DEF Messages
<1> HIDE DEF new
<1>10. ms \in SUBSET Messages
  BY <1>4, <1>6
<1>11. /\ \A m : m.req # r => (m \in messages' <=> m \in ms)
       /\ \A m \in messages' : m.req = r =>
             \E k \in ms : k.req = r /\ m = [k EXCEPT !.done = TRUE]
       /\ \A k \in ms : k.req = r => [k EXCEPT !.done = TRUE] \in messages'
  BY <1>2, <1>10, CommittedExactly
<1>12. e \in messages'
  BY <1>4, <1>11
<1>13. ASSUME NEW m \in messages', m.req = r PROVE m = e \/ m.role # "assistant"
  <2>1. PICK k \in ms : k.req = r /\ m = [k EXCEPT !.done = TRUE]
    BY <1>11, <1>13
  <2>2. CASE k = new
    BY <2>1, <2>2
  <2>3. CASE k \in messages
    BY <1>5, <1>6, <2>1, <2>3 DEF Messages
  <2>4. QED
    BY <2>2, <2>3
<1>14. \A m : m.req # r => (m \in messages' <=> m \in messages)
  BY <1>4, <1>11
<1> HIDE DEF e
<1>15. e \notin Counted(row[r])
  BY <1>5, <1>9 DEF Counted, Transcript
<1>16. Counted(row[r])' = Counted(row[r]) \cup {e}
  <2>1. ASSUME NEW m \in Counted(row[r])' PROVE m \in Counted(row[r]) \cup {e}
    BY <1>2, <1>3, <1>13, <1>14, <2>1 DEF Counted, Transcript
  <2>2. ASSUME NEW m \in Counted(row[r]) PROVE m \in Counted(row[r])'
    BY <1>2, <1>5, <1>14, <2>2 DEF Counted, Transcript
  <2>3. e \in Counted(row[r])'
    BY <1>2, <1>9, <1>12 DEF Counted, Transcript
  <2>4. QED
    BY <2>1, <2>2, <2>3
<1>17. CountsRight(row[r])'
  BY <1>2, <1>3, <1>15, <1>16, CountOneMore
<1>18. /\ \A k \in ms \ messages : k.req = r /\ k.row = row[r] /\ k.at = clock
       /\ \A k, l \in ms \ messages : k = l
       /\ messages \subseteq ms
  BY <1>4
<1> HIDE DEF ms
<1>19. QED
  BY <1>1, <1>2, <1>7, <1>8, <1>10, <1>17, <1>18, CommitTalk

\* A deletion takes the messages of its sessions along and no others.
LEMMA DeleteTalk ==
    ASSUME ChatInv, TalkInv, NEW r \in Requests, Untouched(r),
           pc[r] \in {"delete session", "delete agent"}, pc'[r] = "ok",
           op' = op, row' = row, context' = context, count' = count, raced' = raced,
           clock' = clock,
           NEW gone \in SUBSET Rows,
           \A x \in gone : session'[x] = "deleted",
           \A x \in Rows \ gone : session'[x] = session[x],
           \A q \in Requests : pc[q] \in {"llm", "appended"} => row[q] \notin gone,
           messages' = {m \in messages : m.row \notin gone}
    PROVE  TalkInv'
<1>1. TypeOK
  BY DEF ChatInv
<1>2. DistinctTimes'
  BY DEF TalkInv, DistinctTimes
<1>3. \A m \in messages : m.row = row[m.req] /\ m.row \in Rows
  BY <1>1, MessageTypes DEF ChatInv, OwnMessages
<1>4. ASSUME NEW q \in Requests PROVE Remembers(q)' /\ AddedOne(q)'
  <2>1. CASE q = r
    BY <2>1 DEF Remembers, AddedOne
  <2>2. CASE q # r
    <3>1. Remembers(q) /\ Knows(q) /\ AddedOne(q) /\ pc'[q] = pc[q]
      BY <2>2 DEF TalkInv, ChatInv, Untouched
    <3>2. clock \in Nat /\ context[q] \subseteq Messages
      BY <1>1, TalkTypes
    <3>3. clock <= clock'
      BY ONLY <3>2, clock' = clock
    <3>4. row[q] \in Rows /\ session'[row[q]] # "deleted" => session[row[q]] # "deleted"
      OBVIOUS
    <3>5. \A m \in messages : m.row = row[q] /\ session'[row[q]] # "deleted" => m \in messages'
      BY <1>3
    <3>6. \A n \in messages' : n.req = q => \E k \in messages : k.req = q /\ k.at = n.at
      OBVIOUS
    <3>7. Remembers(q)'
      BY <3>1, <3>2, <3>3, <3>4, <3>5, <3>6, RemembersKeeps
    <3>8. pc[q] = "appended" => \A n : n.req = q => (n \in messages' <=> n \in messages)
      BY <1>3
    <3>9. QED
      BY <3>1, <3>7, <3>8, AddedKeeps
  <2>3. QED
    BY <2>1, <2>2
<1>5. ASSUME NEW x \in Rows PROVE CountsRight(x)'
  <2>1. CASE x \in gone
    BY <2>1 DEF CountsRight
  <2>2. CASE x \notin gone
    <3>1. Counted(x)' = Counted(x)
      BY <2>2, CountedKeeps
    <3>2. session'[x] = session[x] /\ CountsRight(x)
      BY <2>2 DEF TalkInv
    <3>3. QED
      BY <3>1, <3>2, CountsKeeps
  <2>3. QED
    BY <2>1, <2>2
<1>6. QED
  BY <1>2, <1>4, <1>5 DEF TalkInv

LEMMA DeletionsTalk ==
    ASSUME ChatInv, TalkInv, NEW r \in Requests, DeleteSession(r) \/ DeleteAgent(r)
    PROVE  TalkInv'
<1>1. TypeOK
  BY DEF ChatInv
<1>2. CASE DeleteSession(r)
  <2>1. row[r] \in Rows
    BY <1>2 DEF ChatInv, Knows, DeleteSession
  <2>2. /\ Untouched(r) /\ pc[r] = "delete session" /\ pc'[r] = "ok"
        /\ session'[row[r]] = "deleted"
        /\ \A x \in Rows : x # row[r] => session'[x] = session[x]
        /\ messages' = {m \in messages : m.row # row[r]}
        /\ op' = op /\ row' = row /\ context' = context /\ count' = count
        /\ raced' = raced /\ clock' = clock
    BY <1>1, <1>2, <2>1, Domains DEF DeleteSession, Answer, Untouched, Rows
  <2>3. \A q \in Requests : pc[q] \in {"llm", "appended"} => row[q] \notin {row[r]}
    BY <1>2 DEF DeleteSession, HoldsSession
  <2>4. {row[r]} \in SUBSET Rows /\ messages' = {m \in messages : m.row \notin {row[r]}}
    BY <2>1, <2>2
  <2>5. QED
    BY <2>2, <2>3, <2>4, DeleteTalk
<1>3. CASE DeleteAgent(r)
  <2> DEFINE gone == {x \in Rows : session[x] = "stored" /\ owner[x] = who[r]}
  <2>1. /\ Untouched(r) /\ pc[r] = "delete agent" /\ pc'[r] = "ok"
        /\ op' = op /\ row' = row /\ context' = context /\ count' = count
        /\ raced' = raced /\ clock' = clock
    BY <1>1, <1>3, Domains DEF DeleteAgent, Answer, Untouched
  <2>2. /\ \A x \in Rows : session'[x] = IF x \in gone THEN "deleted" ELSE session[x]
        /\ messages' = {m \in messages : m.row \notin gone}
    BY <1>3 DEF DeleteAgent, Stored
  <2>3. \A q \in Requests : pc[q] \in {"llm", "appended"} => row[q] \notin gone
    BY <1>3 DEF DeleteAgent, HoldsAgent, HoldsSession, Stored
  <2>4. /\ gone \in SUBSET Rows
        /\ \A x \in gone : session'[x] = "deleted"
        /\ \A x \in Rows \ gone : session'[x] = session[x]
    BY <2>2
  <2> HIDE DEF gone
  <2>5. QED
    BY <2>1, <2>2, <2>3, <2>4, DeleteTalk
<1>4. QED
  BY <1>2, <1>3

LEMMA TalkInit == Init => TalkInv
<1> SUFFICES ASSUME Init PROVE TalkInv
  OBVIOUS
<1>1. DistinctTimes
  BY DEF Init, DistinctTimes
<1>2. \A r \in Requests : Remembers(r) /\ AddedOne(r)
  BY DEF Init, Remembers, AddedOne
<1>3. \A x \in Rows : CountsRight(x)
  BY DEF Init, CountsRight
<1>4. QED
  BY <1>1, <1>2, <1>3 DEF TalkInv

LEMMA TalkNext == ChatInv /\ TalkInv /\ [Next]_vars => TalkInv'
<1> SUFFICES ASSUME ChatInv, TalkInv, [Next]_vars PROVE TalkInv'
  OBVIOUS
<1>1. ASSUME UNCHANGED <<session, count, messages, clock, pc, op, row, context, raced>>
      PROVE  TalkInv'
  <2>1. DistinctTimes'
    BY <1>1 DEF TalkInv, DistinctTimes
  <2>2. ASSUME NEW r \in Requests PROVE Remembers(r)'
    <3>1. Transcript(row[r])' = Transcript(row[r])
      BY <1>1 DEF Transcript
    <3>2. QED
      BY <1>1, <3>1 DEF TalkInv, Remembers
  <2>3. ASSUME NEW r \in Requests PROVE AddedOne(r)'
    BY <1>1 DEF TalkInv, AddedOne
  <2>4. ASSUME NEW x \in Rows PROVE CountsRight(x)'
    <3>1. Counted(x)' = Counted(x)
      BY <1>1, CountedKeeps
    <3>2. CountsRight(x)
      BY DEF TalkInv
    <3>3. QED
      BY <1>1, <3>1, <3>2, CountsKeeps
  <2>5. QED
    BY <2>1, <2>2, <2>3, <2>4 DEF TalkInv
<1>2. CASE UNCHANGED vars
  BY <1>1, <1>2 DEF vars, tables, request
<1>3. ASSUME NEW a \in Agents, CreateAgent(a) PROVE TalkInv'
  BY <1>1, <1>3 DEF CreateAgent, request
<1>4. ASSUME NEW r \in Requests, Begin(r) PROVE TalkInv'
  BY <1>4, BeginFrame, QuietTalk
<1>5. ASSUME NEW r \in Requests, Step(r) \/ Llm(r) \/ Abandon(r)
      PROVE  TalkInv'
  BY <1>5, CreateSessionTalk, LoadHistoryTalk, TurnTalk, CommitAppendTalk, ReplyTalk,
     NoReplyTalk, DeletionsTalk, RollbackTalk DEF Step, Llm, Abandon
<1>6. CASE Next
  BY <1>3, <1>4, <1>5, <1>6 DEF Next, Begin
<1>7. QED
  BY <1>2, <1>6

\* What requests remember and the counts of sessions nobody has written from a
\* stale copy are right in every state.
THEOREM TalkCorrect == Spec => [](ChatInv /\ TalkInv)
<1>1. Init => ChatInv /\ TalkInv
  BY ChatInit, TalkInit
<1>2. ChatInv /\ TalkInv /\ [Next]_vars => (ChatInv /\ TalkInv)'
  BY ChatNext, TalkNext
<1>3. QED
  BY <1>1, <1>2, PTL DEF Spec

\* message_count is exact unless two requests had the session loaded at a time
\* and wrote it one after the other, however their steps, failures and
\* deletions interleave.
THEOREM CountIsExact == Spec => []CountExactUnlessRaced
<1>1. TalkInv => CountExactUnlessRaced
  BY DEF TalkInv, CountsRight, CountExactUnlessRaced, Stored
<1>2. QED
  BY <1>1, TalkCorrect, PTL

\* What invoke_agent sends to the LLM is committed, of its own session, within
\* the limit of get_history and older than the turn, and stays there until the
\* answer comes: no deletion takes it away meanwhile.
THEOREM ContextHolds == Spec => []ContextIsTranscript
<1>1. ChatInv /\ TalkInv => ContextIsTranscript
  <2> SUFFICES ASSUME ChatInv, TalkInv, NEW r \in Requests, pc[r] = "llm"
               PROVE  /\ context[r] \subseteq Transcript(row[r])
                      /\ Cardinality(context[r]) <= HistoryLimit
                      /\ \A m \in context[r] : \A n \in messages : n.req = r => m.at < n.at
    BY DEF ContextIsTranscript
  <2>1. Remembers(r) /\ session[row[r]] # "deleted"
    BY DEF ChatInv, TalkInv, Knows
  <2>2. QED
    BY <2>1 DEF Remembers
<1>2. QED
  BY <1>1, TalkCorrect, PTL

=============================================================================
