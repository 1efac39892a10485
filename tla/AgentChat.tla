----------------------------- MODULE AgentChat -----------------------------
(***************************************************************************)
(* Conversations with an agent (api/main.py): sessions, their messages and *)
(* the runs of an agent.  A request is one transaction.  An invocation     *)
(* finds or inserts its session, loads the history, inserts the user's     *)
(* message and a run, and then waits for the LLM with all of that          *)
(* uncommitted.  message_count is incremented in memory, from the value    *)
(* the session row had when the request loaded it.                         *)
(*                                                                         *)
(* Deleting goes through the ORM, whose relationships have no delete       *)
(* cascade: the children it finds get a NULL parent, which their NOT NULL  *)
(* columns refuse.  Children committed after that look, by transactions    *)
(* the DELETE has waited for, fall to ON DELETE CASCADE.  Foreign keys,    *)
(* row locks and the unique session id are PostgreSQL's (external).        *)
(*                                                                         *)
(* Message texts, personas and prompts are left out.  A request is made    *)
(* once, so it also names the session row and the run it inserts.          *)
(***************************************************************************)
EXTENDS Naturals, FiniteSets

CONSTANTS
    Requests,      \* HTTP requests
    Agents,        \* agents
    Sids,          \* external session ids a client may name
    HistoryLimit,  \* how many messages an invocation sends along (20)
    MaxMessages    \* bound: messages ever inserted

None == "none"

ASSUME RequestsAssumption == None \notin Requests \cup Agents \cup Sids /\ IsFiniteSet(Requests)
ASSUME LimitsAssumption == HistoryLimit \in Nat /\ MaxMessages \in Nat

VARIABLES
    agent,     \* the life of an agent row: none, stored or deleted
    session,   \* the session row inserted by a request: its life
    sid,       \* its session_id
    owner,     \* its agent_id
    count,     \* its committed message_count
    messages,  \* message rows; done: committed
    clock,     \* created_at of the next message
    run,       \* the run inserted by a request: its status
    pc,        \* what a request does next
    op,        \* which endpoint it is
    who,       \* the agent it names
    want,      \* the session id it names
    row,       \* the session row it works on
    seen,      \* message_count as it loaded it
    context,   \* the history it has loaded
    raced      \* history: sessions whose count was written from a stale read

tables == <<agent, session, sid, owner, count, messages, clock, run>>
request == <<pc, op, who, want, row, seen, context>>
vars == <<tables, request, raced>>

Rows == Requests
Messages == [at : 1..MaxMessages, row : Rows, role : {"user", "assistant"},
             req : Requests, done : BOOLEAN]
Ended == {"ok", "not found", "conflict", "error"}

-----------------------------------------------------------------------------
\* Rows that everybody sees, and the one a session id names.
Exists(a) == agent[a] = "stored"
Stored(x) == session[x] = "stored"
Named(s) == {x \in Rows : Stored(x) /\ sid[x] = s}

\* The messages of a session that everybody sees.
Transcript(x) == {m \in messages : m.row = x /\ m.done}

\* Mutant of History: one message more than the limit.
HistoryOffByOne(x) ==
    {m \in Transcript(x) :
        Cardinality({n \in Transcript(x) : n.at < m.at}) <= HistoryLimit}

\* get_history: the first messages in the order of created_at.
History(x) ==
    {m \in Transcript(x) :
        Cardinality({n \in Transcript(x) : n.at < m.at}) < HistoryLimit}

\* Requests with uncommitted rows that refer to a session or to an agent.
HoldsSession(r, x) == row[r] = x /\ pc[r] \in {"llm", "appended"}
HoldsAgent(r, a) ==
    \/ session[r] = "open" /\ owner[r] = a
    \/ pc[r] = "llm" /\ who[r] = a
    \/ \E x \in Rows : Stored(x) /\ owner[x] = a /\ HoldsSession(r, x)

Init ==
    /\ agent \in [Agents -> {"none", "stored"}]
    /\ session = [x \in Rows |-> "none"]
    /\ sid = [x \in Rows |-> None]
    /\ owner = [x \in Rows |-> None]
    /\ count = [x \in Rows |-> 0]
    /\ messages = {}
    /\ clock = 1
    /\ run = [r \in Requests |-> "none"]
    /\ pc = [r \in Requests |-> "idle"]
    /\ op = [r \in Requests |-> "none"]
    /\ who = [r \in Requests |-> None]
    /\ want = [r \in Requests |-> None]
    /\ row = [r \in Requests |-> None]
    /\ seen = [r \in Requests |-> 0]
    /\ context = [r \in Requests |-> {}]
    /\ raced = {}

-----------------------------------------------------------------------------
\* A request ends: its rows are committed, or none of them is.
Commit(r) ==
    session' = [session EXCEPT ![r] = IF @ = "open" THEN "stored" ELSE @]

Committed(r, ms) ==
    {IF m.req = r THEN [m EXCEPT !.done = TRUE] ELSE m : m \in ms}

Answer(r, a) == pc' = [pc EXCEPT ![r] = a]

\* Mutant of Rollback: the inserted session stays, uncommitted and locked.
RollbackKeepsSession(r) ==
    /\ messages' = {m \in messages : m.req # r \/ m.done}
    /\ run' = [run EXCEPT ![r] = "none"]
    /\ Answer(r, "error")
    /\ UNCHANGED <<agent, session, sid, owner, count, clock,
                   op, who, want, row, seen, context, raced>>

Rollback(r) ==
    /\ session' = [session EXCEPT ![r] = IF @ = "open" THEN "none" ELSE @]
    /\ messages' = {m \in messages : m.req # r \/ m.done}
    /\ run' = [run EXCEPT ![r] = "none"]
    /\ Answer(r, "error")
    /\ UNCHANGED <<agent, sid, owner, count, clock,
                   op, who, want, row, seen, context, raced>>

\* The session a request names, as it loads it: row and count.
Load(r, x) ==
    /\ row' = [row EXCEPT ![r] = x]
    /\ seen' = [seen EXCEPT ![r] = count[x]]

Insert(r, role) ==
    [at |-> clock, row |-> row[r], role |-> role, req |-> r, done |-> FALSE]

\* Mutant of IncrementMessageCount: both messages of a turn are counted.
IncrementByTwo(r) ==
    /\ count' = [count EXCEPT ![row[r]] = seen[r] + 2]
    /\ raced' = IF count[row[r]] = seen[r] THEN raced ELSE raced \cup {row[r]}

\* The in-memory increment, written whatever the row holds by now.
IncrementMessageCount(r) ==
    /\ count' = [count EXCEPT ![row[r]] = seen[r] + 1]
    /\ raced' = IF count[row[r]] = seen[r] THEN raced ELSE raced \cup {row[r]}

\* create_agent.
CreateAgent(a) ==
    /\ agent[a] = "none"
    /\ agent' = [agent EXCEPT ![a] = "stored"]
    /\ UNCHANGED <<session, sid, owner, count, messages, clock, run, request,
                   raced>>

\* invoke_agent and create_session look for the agent, then for the session.
Lookup(r, e, a, s) ==
    /\ pc[r] = "idle"
    /\ op' = [op EXCEPT ![r] = e]
    /\ who' = [who EXCEPT ![r] = a]
    /\ want' = [want EXCEPT ![r] = s]
    /\ \/ ~Exists(a) /\ Answer(r, "not found") /\ UNCHANGED <<row, seen>>
       \/ /\ Exists(a) /\ Named(s) = {}
          /\ Answer(r, "create")
          /\ UNCHANGED <<row, seen>>
       \/ /\ Exists(a) /\ e = "invoke"
          /\ \E x \in Named(s) : Load(r, x)
          /\ Answer(r, "history")
       \/ /\ Exists(a) /\ e = "open" /\ Named(s) # {}
          /\ Answer(r, "conflict")
          /\ UNCHANGED <<row, seen>>
    /\ UNCHANGED <<tables, context, raced>>

\* The insert of a session waits for one of the same session_id.
CreateSession(r) ==
    /\ pc[r] = "create"
    /\ \A q \in Requests : session[q] = "open" => sid[q] # want[r]
    /\ IF Named(want[r]) # {} \/ ~Exists(who[r])
       THEN Rollback(r)
       ELSE /\ sid' = [sid EXCEPT ![r] = want[r]]
            /\ owner' = [owner EXCEPT ![r] = who[r]]
            /\ session' = [session EXCEPT
                   ![r] = IF op[r] = "open" THEN "stored" ELSE "open"]
            /\ Answer(r, IF op[r] = "open" THEN "ok" ELSE "history")
            /\ Load(r, r)
            /\ UNCHANGED <<agent, count, messages, clock, run,
                           op, who, want, context, raced>>

LoadHistory(r) ==
    /\ pc[r] = "history"
    /\ context' = [context EXCEPT ![r] = History(row[r])]
    /\ Answer(r, "turn")
    /\ UNCHANGED <<tables, op, who, want, row, seen, raced>>

\* The user's message and the run, both with foreign keys.
AddTurn(r) ==
    /\ pc[r] = "turn"
    /\ clock <= MaxMessages
    /\ IF Exists(who[r]) /\ session[row[r]] \in {"open", "stored"}
       THEN /\ messages' = messages \cup {Insert(r, "user")}
            /\ clock' = clock + 1
            /\ run' = [run EXCEPT ![r] = "running"]
            /\ Answer(r, "llm")
            /\ UNCHANGED <<agent, session, sid, owner, count,
                           op, who, want, row, seen, context, raced>>
       ELSE Rollback(r)

\* Mutant of Reply: mark_completed is forgotten.
ReplyUnmarked(r) ==
    /\ pc[r] = "llm"
    /\ clock <= MaxMessages
    /\ messages' = Committed(r, messages \cup {Insert(r, "assistant")})
    /\ clock' = clock + 1
    /\ IncrementMessageCount(r)
    /\ Commit(r)
    /\ Answer(r, "ok")
    /\ UNCHANGED <<agent, sid, owner, run, op, who, want, row, seen, context>>

Reply(r) ==
    /\ pc[r] = "llm"
    /\ clock <= MaxMessages
    /\ messages' = Committed(r, messages \cup {Insert(r, "assistant")})
    /\ clock' = clock + 1
    /\ IncrementMessageCount(r)
    /\ run' = [run EXCEPT ![r] = "completed"]
    /\ Commit(r)
    /\ Answer(r, "ok")
    /\ UNCHANGED <<agent, sid, owner, op, who, want, row, seen, context>>

\* No provider, or an exception of the provider: the message of the user
\* stays, the run says so, the count does not move.
NoReply(r, status) ==
    /\ pc[r] = "llm"
    /\ messages' = Committed(r, messages)
    /\ run' = [run EXCEPT ![r] = status]
    /\ Commit(r)
    /\ Answer(r, "ok")
    /\ UNCHANGED <<agent, sid, owner, count, clock,
                   op, who, want, row, seen, context, raced>>

\* append_message.
BeginAppend(r, s) ==
    /\ pc[r] = "idle"
    /\ op' = [op EXCEPT ![r] = "append"]
    /\ want' = [want EXCEPT ![r] = s]
    /\ \/ \E x \in Named(s) : Load(r, x) /\ Answer(r, "append")
       \/ Named(s) = {} /\ Answer(r, "not found") /\ UNCHANGED <<row, seen>>
    /\ UNCHANGED <<tables, who, context, raced>>

AppendMessage(r) ==
    /\ pc[r] = "append"
    /\ clock <= MaxMessages
    /\ IF Stored(row[r])
       THEN /\ \E role \in {"user", "assistant"} :
                   messages' = messages \cup {Insert(r, role)}
            /\ clock' = clock + 1
            /\ Answer(r, "appended")
            /\ UNCHANGED <<agent, session, sid, owner, count, run,
                           op, who, want, row, seen, context, raced>>
       ELSE Rollback(r)

CommitAppend(r) ==
    /\ pc[r] = "appended"
    /\ messages' = Committed(r, messages)
    /\ IncrementMessageCount(r)
    /\ Answer(r, "ok")
    /\ UNCHANGED <<agent, session, sid, owner, clock, run,
                   op, who, want, row, seen, context>>

\* delete_session: the ORM refuses when it finds messages; otherwise the
\* DELETE waits for the transactions that refer to the row.
BeginDeleteSession(r, s) ==
    /\ pc[r] = "idle"
    /\ op' = [op EXCEPT ![r] = "delete session"]
    /\ want' = [want EXCEPT ![r] = s]
    /\ \/ Named(s) = {} /\ Answer(r, "not found") /\ UNCHANGED row
       \/ \E x \in Named(s) :
             /\ row' = [row EXCEPT ![r] = x]
             /\ Answer(r, IF Transcript(x) = {} THEN "delete session" ELSE "error")
    /\ UNCHANGED <<tables, who, seen, context, raced>>

\* Mutant of DeleteSession: the DELETE does not wait.
DeleteSessionAtOnce(r) ==
    /\ pc[r] = "delete session"
    /\ session' = [session EXCEPT ![row[r]] = "deleted"]
    /\ messages' = {m \in messages : m.row # row[r]}
    /\ Answer(r, "ok")
    /\ UNCHANGED <<agent, sid, owner, count, clock, run,
                   op, who, want, row, seen, context, raced>>

DeleteSession(r) ==
    /\ pc[r] = "delete session"
    /\ \A q \in Requests : ~HoldsSession(q, row[r])
    /\ session' = [session EXCEPT ![row[r]] = "deleted"]
    /\ messages' = {m \in messages : m.row # row[r]}
    /\ Answer(r, "ok")
    /\ UNCHANGED <<agent, sid, owner, count, clock, run,
                   op, who, want, row, seen, context, raced>>

\* delete_agent, in the same way; it takes sessions, messages and runs along.
BeginDeleteAgent(r, a) ==
    /\ pc[r] = "idle"
    /\ op' = [op EXCEPT ![r] = "delete agent"]
    /\ who' = [who EXCEPT ![r] = a]
    /\ Answer(r, IF ~Exists(a) THEN "not found"
                 ELSE IF \E x \in Rows : Stored(x) /\ owner[x] = a
                      THEN "error" ELSE "delete agent")
    /\ UNCHANGED <<tables, want, row, seen, context, raced>>

DeleteAgent(r) ==
    /\ pc[r] = "delete agent"
    /\ \A q \in Requests : ~HoldsAgent(q, who[r])
    /\ LET gone == {x \in Rows : Stored(x) /\ owner[x] = who[r]}
       IN  /\ session' = [x \in Rows |-> IF x \in gone THEN "deleted" ELSE session[x]]
           /\ messages' = {m \in messages : m.row \notin gone}
    /\ agent' = [agent EXCEPT ![who[r]] = "deleted"]
    /\ run' = [q \in Requests |->
                  IF op[q] = "invoke" /\ who[q] = who[r] THEN "none" ELSE run[q]]
    /\ Answer(r, "ok")
    /\ UNCHANGED <<sid, owner, count, clock,
                   op, who, want, row, seen, context, raced>>

\* A failed statement, a lost connection or the end of the server.
Abandon(r) == pc[r] \notin Ended \cup {"idle"} /\ Rollback(r)

Step(r) ==
    \/ CreateSession(r) \/ LoadHistory(r) \/ AddTurn(r)
    \/ AppendMessage(r) \/ CommitAppend(r)
    \/ DeleteSession(r) \/ DeleteAgent(r)

\* The provider answers, or the HTTP client of the provider times out.
Llm(r) ==
    \/ Reply(r)
    \/ \E status \in {"unavailable", "failed"} : NoReply(r, status)

Next ==
    \/ \E a \in Agents : CreateAgent(a)
    \/ \E r \in Requests :
        \/ \E a \in Agents, s \in Sids :
              \E e \in {"invoke", "open"} : Lookup(r, e, a, s)
        \/ \E s \in Sids : BeginAppend(r, s) \/ BeginDeleteSession(r, s)
        \/ \E a \in Agents : BeginDeleteAgent(r, a)
        \/ Step(r) \/ Llm(r) \/ Abandon(r)

Spec == Init /\ [][Next]_vars

FairSpec == Spec /\ \A r \in Requests : WF_vars(Step(r)) /\ WF_vars(Llm(r))

-----------------------------------------------------------------------------
TypeOK ==
    /\ agent \in [Agents -> {"none", "stored", "deleted"}]
    /\ session \in [Rows -> {"none", "open", "stored", "deleted"}]
    /\ sid \in [Rows -> Sids \cup {None}]
    /\ owner \in [Rows -> Agents \cup {None}]
    /\ count \in [Rows -> Nat]
    /\ messages \subseteq Messages
    /\ clock \in 1..MaxMessages + 1
    /\ run \in [Requests -> {"none", "running", "completed", "unavailable", "failed"}]
    /\ pc \in [Requests -> Ended \cup {"idle", "create", "history", "turn", "llm",
                    "append", "appended", "delete session", "delete agent"}]
    /\ op \in [Requests -> {"none", "invoke", "open", "append", "delete session",
                    "delete agent"}]
    /\ who \in [Requests -> Agents \cup {None}]
    /\ want \in [Requests -> Sids \cup {None}]
    /\ row \in [Requests -> Rows \cup {None}]
    /\ seen \in [Requests -> Nat]
    /\ context \in [Requests -> SUBSET Messages]
    /\ raced \subseteq Rows

\* Whatever deletions race with invocations, appends and new sessions, a
\* message refers to a session that exists (or that its own transaction is
\* inserting), a session to an agent that exists, and so does a run.
NoDangling ==
    /\ \A m \in messages :
          \/ session[m.row] = "stored"
          \/ session[m.row] = "open" /\ m.row = m.req /\ ~m.done
    /\ \A x \in Rows : session[x] \in {"open", "stored"} => Exists(owner[x])
    /\ \A r \in Requests : run[r] # "none" => Exists(who[r])

\* A turn is stored whole: the assistant's message of an invocation never
\* without the user's message before it and a completed run, a completed run
\* never without its answer as long as the session exists, and no run that
\* others see is still "running".
TurnIsWhole ==
    /\ \A m \in messages : m.role = "assistant" /\ op[m.req] = "invoke" =>
          /\ m.done
          /\ Exists(who[m.req]) => run[m.req] = "completed"
          /\ \E n \in messages : /\ n.role = "user" /\ n.req = m.req /\ n.done
                                  /\ n.row = m.row /\ n.at < m.at
    /\ \A r \in Requests :
          /\ run[r] = "completed" /\ Stored(row[r]) =>
                \E m \in messages : m.req = r /\ m.role = "assistant"
          /\ run[r] = "running" <=> pc[r] = "llm"

\* message_count is exact, one for every answer of an invocation and every
\* appended message, as long as no two requests had the session loaded at a
\* time and wrote it one after the other.
Counted(x) == {m \in Transcript(x) : op[m.req] = "append" \/ m.role = "assistant"}

CountExactUnlessRaced ==
    \A x \in Rows : Stored(x) /\ x \notin raced => count[x] = Cardinality(Counted(x))

\* What the LLM is sent as history is committed, of this session alone,
\* older than the turn, and still there when the answer comes.
ContextIsTranscript ==
    \A r \in Requests : pc[r] = "llm" =>
        /\ context[r] \subseteq Transcript(row[r])
        /\ Cardinality(context[r]) <= HistoryLimit
        /\ \A m \in context[r] : \A n \in messages : n.req = r => m.at < n.at

\* Every request is answered: nobody waits for ever for rows of others.
EveryRequestEnds ==
    \A r \in Requests : pc[r] # "idle" ~> pc[r] \in Ended
=============================================================================
