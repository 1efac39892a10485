------------------------------ MODULE CityJobs ------------------------------
(***************************************************************************)
(* Jobs of the city, their workspace and the event feed: CityService       *)
(* (services/city_service.py), the commons tools (orchestration/           *)
(* city_tools.py) and the event stream of api/city.py.                     *)
(*                                                                         *)
(* A request works in one database session through a series of             *)
(* transactions.  What it adds is one log: an artifact, a run or a job is  *)
(* inserted together with the event that tells of it, so log[i] stands for *)
(* both, and i for created_at, which is taken at the insert and not at the *)
(* commit.  An entry is "open" until its transaction ends, "committed" or   *)
(* "lost" from then on, and "sent" once the stream of events has sent it.  *)
(* A lost entry stays in the log, where nobody sees it, and keeps its i.   *)
(*                                                                         *)
(* The session keeps what it has loaded when it commits                    *)
(* (expire_on_commit=False), as long as a caller holds it: seen is the     *)
(* status a request believes its job to have.  Assigning that same status  *)
(* again writes nothing.  Between two helpers that return a dictionary     *)
(* nobody holds the job, and the next helper loads it again.               *)
(*                                                                         *)
(* The events of the service itself have the type they are inserted with.  *)
(* The tool emit_viz_event lets its caller insert events of these types    *)
(* too: what it inserts has type "viz" here, and info is its event_type.   *)
(*                                                                         *)
(* The slots of the ConcurrencyGovernor are in Governor; here batches only *)
(* meet in the database.  Whether a cohesion score reaches its threshold   *)
(* is a free choice.                                                       *)
(***************************************************************************)
EXTENDS Integers, Sequences, FiniteSets, SequencesExt

CONSTANTS
    Requests,       \* requests, and batches the worker pool runs
    Mixes,          \* the kinds of request that may come together
    MaxJobs,        \* bound on city_jobs rows
    Paths,          \* workspace paths
    StartStatuses,  \* statuses POST /jobs is called with
    EarlierStatuses,  \* statuses of the job that was started before
    Batches,        \* the batches of tool calls clients send
    TeamCalls,      \* the calls a team of a conduct makes in its answers
    VizTypes,       \* event types callers of emit_viz_event ask for
    WaveSize,       \* families a pulse or a conduct visits
    District,       \* the district of these families
    Notes,          \* their living members with a supporting role
    Followed,       \* jobs whose events the stream was opened for
    PageSize        \* limit of one poll of the stream

Jobs == 1..MaxJobs
Statuses == {"pending", "planned", "running", "completed", "failed"}
Nobody == "nobody"     \* an earlier request
Absent == "absent"     \* no such row, or none loaded
Nothing == "nothing"   \* no uncommitted write of a job's row
Touch == "touch"       \* a write that leaves the status column alone

Waves == {"pulse", "conduct"}
NewJobKinds == {"start", "demo", "probe"} \cup Waves
JobKinds == {"execute", "invoke", "merge", "veto"}

\* emit_viz_event is "viz" for a pulse, "tell" for a type its caller chooses.
Tools == {"write", "run", "viz", "tell", "denied"}

\* Types of events.  Where one of another type is told, "viz" stands for it.
EventTypes ==
    {"job.started", "job.completed", "wave.started", "wave.finished", "artifact", "run", "viz",
     "cohesion.merge", "cohesion.veto"}

\* ALLOWED_VIZ_EVENT_TYPES: the types of all events of a job are among them.
AllowedVizTypes == EventTypes

\* Where a request is.
Steps == {"idle", "start", "startCommit", "announce", "batch", "tools", "insert",
          "toolCommit", "runCommit", "sandbox", "decide", "merge", "approve",
          "approveCommit", "veto", "settle", "settleCommit", "finish", "close", "done", "failed"}

ASSUME MixesAssumption == Mixes \subseteq [Requests -> NewJobKinds \cup JobKinds \cup {"none"}]
ASSUME RequestsAssumption == Nobody \notin Requests
ASSUME BoundsAssumption ==
    /\ MaxJobs \in Nat \ {0} /\ WaveSize \in Nat \ {0}
    /\ PageSize \in Nat \ {0}
ASSUME BatchesAssumption == Batches \cup TeamCalls \subseteq Seq(Tools)
ASSUME VizTypesAssumption == VizTypes \subseteq AllowedVizTypes
ASSUME FamilyAssumption == District \in STRING /\ Notes \in Nat
ASSUME FollowedAssumption == Followed \subseteq Jobs
ASSUME StatusesAssumption == StartStatuses \cup EarlierStatuses \subseteq Statuses

VARIABLES
    pc,        \* where each request is
    req,       \* its arguments and local variables
    status,    \* committed city_jobs.status
    write,     \* its uncommitted writes of jobs' rows, which lock the rows
    log,       \* events with the rows they tell of, in created_at order
    raced      \* jobs written by a request whose copy was out of date

vars == <<pc, req, status, write, log, raced>>

NoWrite == [j \in Jobs |-> Nothing]

Idle == [kind |-> "none", job |-> 0, seen |-> Absent, calls |-> <<>>, ok |-> TRUE,
         wave |-> 0, mode |-> Nothing, path |-> Nothing, version |-> 0, verdict |-> Nothing]

\* A job was started before.
Init ==
    /\ pc = [c \in Requests |-> "idle"]
    /\ \E mix \in Mixes : req = [c \in Requests |-> [Idle EXCEPT !.kind = mix[c]]]
    /\ \E s \in EarlierStatuses :
          /\ status = [j \in Jobs |-> IF j = 1 THEN s ELSE Absent]
          /\ log = <<[type |-> "job.started", job |-> 1, info |-> s, version |-> 0,
                      by |-> Nobody, state |-> "committed"]>>
    /\ write = [c \in Requests |-> NoWrite]
    /\ raced = {}

-----------------------------------------------------------------------------
(* Transactions.                                                           *)

Job(c) == req[c].job

Goto(c, next) == pc' = [pc EXCEPT ![c] = next]

\* What an entry tells: a status, a wave, an event type, or the path and
\* version of an artifact.
Entry(c, type, info, version) ==
    [type |-> type, job |-> Job(c), info |-> info, version |-> version,
     by |-> c, state |-> "open"]

\* emit_event: an INSERT the transaction may still lose.
Emit(c, type, info) == log' = Append(log, Entry(c, type, info, 0))

\* The entries of c's transaction.
IsOpen(c, e) == e.by = c /\ e.state = "open"

\* The log when the transaction of c ends, committed or lost.
Ended(c, state) == [i \in DOMAIN log |-> IF IsOpen(c, log[i])
                                         THEN [log[i] EXCEPT !.state = state] ELSE log[i]]

\* Entries that every transaction sees.
Visible(e) == e.state \in {"committed", "sent"}

Commit(c) ==
    /\ log' = Ended(c, "committed")
    /\ status' = [j \in Jobs |-> IF write[c][j] \in Statuses THEN write[c][j] ELSE status[j]]
    /\ write' = [write EXCEPT ![c] = NoWrite]

\* The locals of a request that is over.
Over(c) == [Idle EXCEPT !.kind = req[c].kind]

\* The session is closed or rolled back and the request is answered.
Lose(c, end) ==
    /\ log' = Ended(c, "lost")
    /\ write' = [write EXCEPT ![c] = NoWrite]
    /\ Goto(c, end)
    /\ req' = [req EXCEPT ![c] = Over(c)]
    /\ UNCHANGED <<status, raced>>

\* Nobody else has an uncommitted write of c's job.
RowFree(c) == \A d \in Requests \ {c} : write[d][Job(c)] = Nothing

\* The status of c's job as its transaction reads it.
Row(c) == IF write[c][Job(c)] \in Statuses THEN write[c][Job(c)] ELSE status[Job(c)]

\* Assigning s to the loaded job: the flush writes the column only if the
\* loaded value differs.
Assign(c, s) ==
    /\ RowFree(c)
    /\ write' = [write EXCEPT ![c][Job(c)] = IF req[c].seen = s THEN Touch ELSE s]
    /\ raced' = IF req[c].seen = Row(c) THEN raced ELSE raced \cup {Job(c)}

Stored(type, j) == {i \in DOMAIN log : /\ log[i].type = type
                                       /\ log[i].job = j
                                       /\ Visible(log[i])}

-----------------------------------------------------------------------------
(* Requests.                                                               *)

\* jobs.get of a request on an existing job: tools/execute, invoke, an item
\* of the worker pool, team-invoke, cohesion/decide.
Open(c, j) ==
    /\ pc[c] = "idle" /\ req[c].kind \in JobKinds
    /\ status[j] # Absent
    /\ req' = [req EXCEPT ![c].job = j, ![c].seen = status[j]]
    /\ Goto(c, IF req[c].kind \in {"merge", "veto"} THEN req[c].kind ELSE "batch")
    /\ UNCHANGED <<status, write, log, raced>>

\* A request that starts jobs of n families.
OpenNew(c, n, mode) ==
    /\ pc[c] = "idle"
    /\ req' = [req EXCEPT ![c].wave = n, ![c].mode = mode]
    /\ Goto(c, "start")
    /\ UNCHANGED <<status, write, log, raced>>

\* POST /jobs, /wedge/run and /scale/probe.
OpenStart(c) == req[c].kind = "start" /\ OpenNew(c, 1, Nothing)
OpenDemo(c) == req[c].kind = "demo" /\ OpenNew(c, 1, Nothing)
OpenProbe(c) == req[c].kind = "probe" /\ OpenNew(c, WaveSize, Nothing)

\* The waves /pulse and /conduct.  Without auto_merge a pulse completes its
\* jobs and a conduct leaves them running.
OpenPulse(c) ==
    req[c].kind = "pulse" /\ \E mode \in {"auto", "complete"} : OpenNew(c, WaveSize, mode)
OpenConduct(c) ==
    req[c].kind = "conduct" /\ \E mode \in {"auto", "leave"} : OpenNew(c, WaveSize, mode)

\* The helper that held the job has returned.
Forget(c) == req' = [req EXCEPT ![c].seen = Absent]

\* jobs.get of the next helper that works on the job: execute_tool_calls,
\* invoke_team_on_job, cohesion_decide or set_job_status.
LoadJob(c) ==
    /\ pc[c] \in {"batch", "merge", "veto", "settle"}
    /\ req[c].seen = Absent
    /\ req' = [req EXCEPT ![c].seen = Row(c)]
    /\ UNCHANGED <<pc, status, write, log, raced>>

FreshJobs == {j \in Jobs : /\ status[j] = Absent
                           /\ \A c \in Requests : Job(c) # j}

\* Mutant of StartJob: the session is rolled back before the next job.
StartJobAfterRollback(c, s) ==
    /\ pc[c] = "start"
    /\ s \in (IF req[c].kind = "start" THEN StartStatuses ELSE {"pending"})
    /\ FreshJobs # {}
    /\ LET j == CHOOSE j \in FreshJobs : \A k \in FreshJobs : j <= k
       IN /\ req' = [req EXCEPT ![c].job = j, ![c].seen = s]
          /\ log' = Append(Ended(c, "lost"), [Entry(c, "job.started", s, 0) EXCEPT !.job = j])
          /\ write' = [write EXCEPT ![c] = [NoWrite EXCEPT ![j] = s]]
    /\ Goto(c, "startCommit")
    /\ UNCHANGED <<status, raced>>

\* start_job: the row and its event.  In a wave the last event of the job
\* before is still open.
StartJob(c, s) ==
    /\ pc[c] = "start"
    /\ s \in (IF req[c].kind = "start" THEN StartStatuses ELSE {"pending"})
    /\ FreshJobs # {}
    /\ LET j == CHOOSE j \in FreshJobs : \A k \in FreshJobs : j <= k
       IN /\ req' = [req EXCEPT ![c].job = j, ![c].seen = s]
          /\ log' = Append(log, [Entry(c, "job.started", s, 0) EXCEPT !.job = j])
          /\ write' = [write EXCEPT ![c][j] = s]
    /\ Goto(c, "startCommit")
    /\ UNCHANGED <<status, raced>>

CommitStart(c) ==
    /\ pc[c] = "startCommit"
    /\ Commit(c)
    /\ CASE req[c].kind = "start" -> /\ Goto(c, "done")
                                     /\ req' = [req EXCEPT ![c] = Over(c)]
         [] req[c].kind \in Waves -> Goto(c, "announce") /\ Forget(c)
         [] req[c].kind \in {"demo", "probe"} -> Goto(c, "batch") /\ Forget(c)
    /\ UNCHANGED raced

\* city.pulse.started or city.conduct.started; a family without living
\* members has no batch to run.
Announce(c) ==
    /\ pc[c] = "announce"
    /\ Emit(c, "wave.started", req[c].kind)
    /\ \E next \in {"batch", "decide"} : Goto(c, next)
    /\ UNCHANGED <<req, status, write, raced>>

-----------------------------------------------------------------------------
(* Tool batches: execute_tool_calls, invoke_team_on_job.                   *)

\* What the lead of a family does in its district.
DistrictCalls == IF District \in {"viz", "research"} THEN <<"write", "viz">>
                                                    ELSE <<"write", "run">>

\* multi_contributor_plan: the notes of the supporting members come first.
Plan == [i \in 1..Notes |-> "write"] \o DistrictCalls

\* run_wedge_demo: notes and a mood of the siblings, then the program and its
\* run.  The four notes are taken as one.
DemoCalls == <<"write", "viz", "write", "run">>

\* scale_probe: a program and its run.
ProbeCalls == <<"write", "run">>

\* A conduct with an LLM runs the calls of the team instead of the plan.
CallsOf(kind) == CASE kind = "pulse" -> {Plan}
                   [] kind = "conduct" -> {Plan} \cup TeamCalls
                   [] kind = "demo" -> {DemoCalls}
                   [] kind = "probe" -> {ProbeCalls}
                   [] OTHER -> Batches

\* A job that was loaded as pending becomes running.
MarkRunning(c, calls) ==
    /\ IF req[c].seen = "pending" THEN Assign(c, "running") ELSE UNCHANGED <<write, raced>>
    /\ req' = [req EXCEPT ![c].calls = calls,
                          ![c].seen = IF @ = "pending" THEN "running" ELSE @]
    /\ UNCHANGED <<status, log>>

\* The calls of all contributors of a family are taken as one batch.
BeginBatch(c) ==
    /\ pc[c] = "batch" /\ req[c].seen # Absent
    /\ \E calls \in CallsOf(req[c].kind) : MarkRunning(c, calls)
    /\ Goto(c, "tools")

\* The next call of the batch.
Calling(c, tool) == pc[c] = "tools" /\ req[c].calls # <<>> /\ Head(req[c].calls) = tool

Versions(j, p) == {log[i].version : i \in {k \in Stored("artifact", j) : log[k].info = p}}

\* workspace_write up to latest_version: the version the artifact will have.
ReadVersion(c, p) ==
    /\ Calling(c, "write")
    /\ req' = [req EXCEPT ![c].calls = Tail(@), ![c].path = p,
                          ![c].version = Max({0} \cup Versions(Job(c), p)) + 1]
    /\ Goto(c, "insert")
    /\ UNCHANGED <<status, write, log, raced>>

\* Entries with the (job, path, version) c is about to insert.
SameKey(c) == {i \in DOMAIN log : /\ log[i].type = "artifact" /\ log[i].state # "lost"
                                  /\ log[i].job = Job(c)
                                  /\ log[i].info = req[c].path
                                  /\ log[i].version = req[c].version}

\* Mutant of InsertArtifact: the table has no unique key.
InsertArtifactUnchecked(c) ==
    /\ pc[c] = "insert"
    /\ log' = Append(log, Entry(c, "artifact", req[c].path, req[c].version))
    /\ Goto(c, "toolCommit")
    /\ UNCHANGED <<req, status, write, raced>>

\* record_artifact: the INSERT waits for an open one of the same key.
InsertArtifact(c) ==
    /\ pc[c] = "insert"
    /\ SameKey(c) = {}
    /\ log' = Append(log, Entry(c, "artifact", req[c].path, req[c].version))
    /\ Goto(c, "toolCommit")
    /\ UNCHANGED <<req, status, write, raced>>

\* The other writer committed first.  The session is unusable from here on:
\* the remaining tools of the batch fail, then its final commit, then the
\* request.
Conflict(c) ==
    /\ pc[c] = "insert"
    /\ \E i \in SameKey(c) : Visible(log[i])
    /\ Lose(c, "failed")

\* run_python: a row "running" before the sandbox, another one after it.
BeginRun(c) ==
    /\ Calling(c, "run")
    /\ Emit(c, "run", "running")
    /\ req' = [req EXCEPT ![c].calls = Tail(@)]
    /\ Goto(c, "runCommit")
    /\ UNCHANGED <<status, write, raced>>

\* The file to run is not in the workspace.
RunDenied(c) ==
    /\ Calling(c, "run")
    /\ Emit(c, "run", "denied")
    /\ req' = [req EXCEPT ![c].calls = Tail(@), ![c].ok = FALSE]
    /\ Goto(c, "toolCommit")
    /\ UNCHANGED <<status, write, raced>>

\* A program that times out, or that the sandbox refuses, has failed.
EndRun(c) ==
    /\ pc[c] = "sandbox"
    /\ \E s \in {"succeeded", "failed"} :
          /\ Emit(c, "run", s)
          /\ req' = [req EXCEPT ![c].ok = @ /\ s = "succeeded"]
    /\ Goto(c, "toolCommit")
    /\ UNCHANGED <<status, write, raced>>

\* A caller may choose any allowed type and payload.  Nothing but the event
\* is written, whatever it tells.
EmitVizEvent(c) ==
    /\ \/ Calling(c, "viz") /\ Emit(c, "viz", "viz")
       \/ Calling(c, "tell") /\ \E type \in VizTypes : Emit(c, "viz", type)
    /\ req' = [req EXCEPT ![c].calls = Tail(@)]
    /\ Goto(c, "toolCommit")
    /\ UNCHANGED <<status, write, raced>>

\* A tool is denied or raises before it writes.
ToolDenied(c) ==
    /\ Calling(c, "denied")
    /\ req' = [req EXCEPT ![c].calls = Tail(@), ![c].ok = FALSE]
    /\ UNCHANGED <<pc, status, write, log, raced>>

CommitTool(c) ==
    /\ pc[c] \in {"toolCommit", "runCommit"}
    /\ Commit(c)
    /\ Goto(c, IF pc[c] = "runCommit" THEN "sandbox" ELSE "tools")
    /\ UNCHANGED <<req, raced>>

\* conduct_city swallows the failure of the team, with what is not committed.
TeamFails(c) ==
    /\ pc[c] = "tools" /\ req[c].kind = "conduct"
    /\ Goto(c, "decide")
    /\ req' = [req EXCEPT ![c].calls = <<>>, ![c].ok = FALSE, ![c].seen = Absent]
    /\ UNCHANGED <<status, write, log, raced>>

Demoed(c) == \E i \in Stored("run", Job(c)) : log[i].info = "succeeded"

\* The final commit of a batch, and where its caller goes on: the request
\* ends, marks the job, or works on towards its decision.
EndBatch(c) ==
    /\ pc[c] = "tools" /\ req[c].calls = <<>>
    /\ Commit(c)
    /\ \/ /\ req[c].kind \in {"execute", "invoke"}
          /\ Goto(c, "done") /\ req' = [req EXCEPT ![c] = Over(c)]
       \/ /\ req[c].kind = "invoke"
          /\ Goto(c, "settle")
          /\ req' = [req EXCEPT ![c].verdict = IF req[c].ok THEN "completed" ELSE "failed",
                                ![c].seen = Absent]
       \/ /\ req[c].kind = "probe"
          /\ Goto(c, "settle")
          /\ req' = [req EXCEPT ![c].verdict = "completed", ![c].seen = Absent]
       \/ /\ req[c].kind \in Waves
          /\ Goto(c, "decide") /\ Forget(c)
       \/ /\ req[c].kind = "demo"
          /\ Goto(c, "merge") /\ Forget(c)
    /\ UNCHANGED raced

-----------------------------------------------------------------------------
(* Decisions: cohesion_decide, city_pulse, conduct_city, run_wedge_demo.   *)

\* The score of the job reaches the threshold of the family, or not.
ByScore(c) == (\E next \in {"merge", "veto"} : Goto(c, next)) /\ UNCHANGED req

\* A pulse merges or vetoes by the score, or completes the job.
DecidePulse(c) ==
    /\ pc[c] = "decide" /\ req[c].kind = "pulse"
    /\ \/ req[c].mode = "auto" /\ ByScore(c)
       \/ /\ req[c].mode = "complete"
          /\ Goto(c, "settle")
          /\ req' = [req EXCEPT ![c].verdict = "completed"]
    /\ UNCHANGED <<status, write, log, raced>>

\* A conduct merges or vetoes by the score, or leaves the job as it is.
DecideConduct(c) ==
    /\ pc[c] = "decide" /\ req[c].kind = "conduct"
    /\ \/ req[c].mode = "auto" /\ ByScore(c)
       \/ req[c].mode = "leave" /\ Goto(c, "finish") /\ UNCHANGED req
    /\ UNCHANGED <<status, write, log, raced>>

\* cohesion.merge is a batch of one tool with a commit of its own.
Approve(c) ==
    /\ pc[c] = "merge" /\ req[c].seen # Absent
    /\ MarkRunning(c, <<>>)
    /\ Goto(c, "approve")

EmitApproval(c) ==
    /\ pc[c] = "approve"
    /\ Emit(c, "cohesion.merge", "")
    /\ Goto(c, "approveCommit")
    /\ UNCHANGED <<req, status, write, raced>>

\* cohesion_decide holds the job, run_wedge_demo does not.
CommitApproval(c) ==
    /\ pc[c] = "approveCommit"
    /\ Commit(c)
    /\ Goto(c, "settle")
    /\ req' = [req EXCEPT ![c].verdict = IF req[c].kind = "demo" /\ ~Demoed(c)
                                         THEN "failed" ELSE "completed",
                          ![c].seen = IF req[c].kind = "demo" THEN Absent ELSE @]
    /\ UNCHANGED raced

\* cohesion.veto goes into the transaction of the new status.
Veto(c) ==
    /\ pc[c] = "veto" /\ req[c].seen # Absent
    /\ Emit(c, "cohesion.veto", "")
    /\ Goto(c, "settle")
    /\ req' = [req EXCEPT ![c].verdict = "failed"]
    /\ UNCHANGED <<status, write, raced>>

\* Mutant of SetJobStatus: the event tells of success only.
SetJobStatusOnlySuccess(c) ==
    /\ pc[c] = "settle" /\ req[c].seen # Absent
    /\ Assign(c, req[c].verdict)
    /\ IF req[c].verdict = "completed" THEN Emit(c, "job.completed", req[c].verdict)
                                       ELSE UNCHANGED log
    /\ Goto(c, "settleCommit")
    /\ UNCHANGED <<req, status>>

\* set_job_status: completed_at changes in any case, so the row is locked
\* even where the status column is not written.
SetJobStatus(c) ==
    /\ pc[c] = "settle" /\ req[c].seen # Absent
    /\ Assign(c, req[c].verdict)
    /\ Emit(c, "job.completed", req[c].verdict)
    /\ Goto(c, "settleCommit")
    /\ UNCHANGED <<req, status>>

CommitStatus(c) ==
    /\ pc[c] = "settleCommit"
    /\ Commit(c)
    /\ CASE req[c].kind \in Waves -> Goto(c, "finish") /\ UNCHANGED req
         [] req[c].kind = "probe" /\ req[c].wave > 1 ->
               /\ Goto(c, "start")
               /\ req' = [req EXCEPT ![c].wave = @ - 1]
         [] OTHER -> Goto(c, "done") /\ req' = [req EXCEPT ![c] = Over(c)]
    /\ UNCHANGED raced

\* The end of a family is emitted, then comes the next one.  No commit follows
\* the last one.
FinishFamily(c, kind) ==
    /\ pc[c] = "finish" /\ req[c].kind = kind
    /\ Emit(c, "wave.finished", kind)
    /\ req' = [req EXCEPT ![c].wave = @ - 1]
    /\ Goto(c, IF req[c].wave > 1 THEN "start" ELSE "close")
    /\ UNCHANGED <<status, write, raced>>

FinishPulse(c) == FinishFamily(c, "pulse")
FinishConduct(c) == FinishFamily(c, "conduct")

CloseWave(c) == pc[c] = "close" /\ Lose(c, "done")

\* The score is below the threshold, a statement fails, the connection is
\* lost or the server stops: the session is rolled back.
Fail(c) == pc[c] \notin {"idle", "close", "done", "failed"} /\ Lose(c, "failed")

-----------------------------------------------------------------------------
(* The stream of events.                                                   *)

\* The last entry that was sent: after, or the cursor of the stream.
Cursor == Max({0} \cup {i \in DOMAIN log : log[i].state = "sent"})

Unread == LET after == Cursor
          IN {i \in DOMAIN log : /\ log[i].state = "committed" /\ i > after
                                 /\ log[i].job \in Followed}

\* Mutant of Page: the newest entries instead of the oldest ones.
PageNewest == LET rows == Unread
              IN {i \in rows : Cardinality({k \in rows : k > i}) < PageSize}

\* list_since: the oldest entries after the cursor, at most a page.
Page == LET rows == Unread
        IN {i \in rows : Cardinality({k \in rows : k < i}) < PageSize}

\* One cycle of stream_city_events, or one poll with after = Cursor.
Poll ==
    /\ Unread # {}
    /\ LET page == Page
       IN log' = [i \in DOMAIN log |-> IF i \in page THEN [log[i] EXCEPT !.state = "sent"]
                                                     ELSE log[i]]
    /\ UNCHANGED <<pc, req, status, write, raced>>

-----------------------------------------------------------------------------
Request(c) ==
    \/ \E j \in Jobs : Open(c, j)
    \/ OpenStart(c) \/ OpenDemo(c) \/ OpenProbe(c) \/ OpenPulse(c) \/ OpenConduct(c)

Work(c) ==
    \/ \E s \in Statuses : StartJob(c, s)
    \/ CommitStart(c) \/ Announce(c) \/ LoadJob(c)
    \/ BeginBatch(c)
    \/ \E p \in Paths : ReadVersion(c, p)
    \/ InsertArtifact(c) \/ Conflict(c)
    \/ BeginRun(c) \/ RunDenied(c) \/ EndRun(c) \/ EmitVizEvent(c) \/ ToolDenied(c)
    \/ CommitTool(c) \/ EndBatch(c) \/ TeamFails(c)
    \/ DecidePulse(c) \/ DecideConduct(c)
    \/ Approve(c) \/ EmitApproval(c) \/ CommitApproval(c) \/ Veto(c)
    \/ SetJobStatus(c) \/ CommitStatus(c)
    \/ FinishPulse(c) \/ FinishConduct(c) \/ CloseWave(c)

Next ==
    \/ \E c \in Requests : Request(c) \/ Work(c) \/ Fail(c)
    \/ Poll

Spec == Init /\ [][Next]_vars

-----------------------------------------------------------------------------
(* Properties.                                                             *)

Arguments ==
    [kind : NewJobKinds \cup JobKinds \cup {"none"}, job : Jobs \cup {0},
     seen : Statuses \cup {Absent}, calls : Seq(Tools), ok : BOOLEAN, wave : Nat,
     mode : {Nothing, "auto", "complete", "leave"}, path : Paths \cup {Nothing},
     version : Nat, verdict : {Nothing, "completed", "failed"}]

Infos == Statuses \cup Waves \cup Paths \cup EventTypes \cup {"succeeded", "denied", ""}

Entries ==
    [type : EventTypes, job : Jobs, info : Infos, version : Nat, by : Requests \cup {Nobody},
     state : {"open", "committed", "lost", "sent"}]

\* The type invariant.
TypeOK ==
    /\ pc \in [Requests -> Steps]
    /\ req \in [Requests -> Arguments]
    /\ status \in [Jobs -> Statuses \cup {Absent}]
    /\ write \in [Requests -> [Jobs -> Statuses \cup {Nothing, Touch}]]
    /\ log \in Seq(Entries)
    /\ raced \subseteq Jobs

\* However batches of a job interleave and fail, the versions of a path are
\* 1, 2, ... without gap or repetition, and the feed tells of them in that
\* order.
ArtifactHistory ==
    \A j \in Jobs, p \in Paths :
        LET rows == {i \in Stored("artifact", j) : log[i].info = p}
        IN \A i \in rows : log[i].version = Cardinality({k \in rows : k <= i})

Told(j) == Stored("job.started", j) \cup Stored("job.completed", j)

\* The service's own word on a job in the feed is right: its last job.started
\* or job.completed carries the status of the row, which at most has moved from
\* pending to running since, unless a request wrote the job from a copy that
\* was out of date.  What a caller has emit_viz_event tell is left out: it is
\* no one's word on the row, and a follower of the feed cannot rely on it.
StatusTold ==
    \A j \in Jobs \ raced :
        status[j] # Absent =>
            LET told == log[Max(Told(j))].info
            IN \/ status[j] = told
               \/ told = "pending" /\ status[j] = "running"

By(r, type) == {i \in DOMAIN log : /\ log[i].by = r
                                   /\ log[i].type = type
                                   /\ Visible(log[i])}

\* The outcomes of its job that r has told after entry i.
OutcomesAfter(r, i) ==
    {log[k].info : k \in {k \in By(r, "job.completed") : k > i /\ log[k].job = log[i].job}}

\* r is between the two commits of its decision on job j.
HalfDecided(r, j) == pc[r] \in {"settle", "settleCommit"} /\ Job(r) = j

\* Decisions and waves of the service are told as a whole.  Each of its vetoes
\* in the feed is followed by the failure of the job.  Each of its merges is
\* followed by the job's completion, which for a demo may be its failure; the
\* merge has a commit of its own, so the completion may still be to come, or
\* never come because the request failed in between.  In a wave of families
\* the end of one is told exactly when the start of the next one is, so the
\* feed never has the end of the last.  (Decisions and ends of waves that a
\* caller has emit_viz_event tell are not the service's: nothing follows them.)
DecisionsToldWhole ==
    \A r \in Requests :
        /\ \A i \in By(r, "cohesion.veto") : "failed" \in OutcomesAfter(r, i)
        /\ \A i \in By(r, "cohesion.merge") :
              \/ OutcomesAfter(r, i) = {"completed"}
              \/ OutcomesAfter(r, i) = {"failed"} /\ req[r].kind = "demo"
              \/ OutcomesAfter(r, i) = {} /\ (HalfDecided(r, log[i].job) \/ pc[r] = "failed")
        /\ By(r, "wave.started") # {} =>
              Cardinality(By(r, "wave.finished")) + 1 = Cardinality(By(r, "job.started"))

\* No entry that is committed when the stream polls is passed over: the
\* cursor moves past it only by sending it, whatever the size of a page.  (An
\* entry that commits after a younger one was sent is never sent.)
StreamNeverJumps ==
    [][LET after == Cursor'
       IN \A i \in Unread : i <= after => log'[i].state = "sent"]_vars

=============================================================================
