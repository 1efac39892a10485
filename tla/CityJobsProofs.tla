--------------------------- MODULE CityJobsProofs ---------------------------
(***************************************************************************)
(* Proofs about CityJobs, for any requests, jobs, paths, batches, sizes of *)
(* waves and pages.                                                        *)
(*                                                                         *)
(* The log only grows, and an entry's state only moves on: from open to    *)
(* committed or lost when the transaction of its author ends, from         *)
(* committed to sent in a poll.  So what is told stays told, and what has  *)
(* to be said is what the open entries and the uncommitted writes of a     *)
(* request are at each of its steps:                                       *)
(*   Place       where a request is, and what its arguments are there      *)
(*   Writing     which uncommitted writes it has, one writer for each job  *)
(*   Telling     its open job.started or job.completed is the last word on *)
(*               the job, and tells what the write will commit             *)
(*   Deciding    its open veto, and the failure that goes with it          *)
(*   Merging     its merge, and the outcome that follows in a later commit *)
(*   Waving      families it has started and finished, told and untold     *)
(*   Versioning  the versions of a path among the entries that are not     *)
(*               lost, where only the youngest may be open                 *)
(***************************************************************************)
EXTENDS CityJobs, TLAPS, FiniteSetTheorems, SequenceTheorems, WellFoundedInduction

Kind(c) == req[c].kind

\* The steps of a request that works on a job whose row is committed.
AtWork == Steps \ {"idle", "start", "startCommit", "close", "done", "failed"}

Place(c) ==
    /\ pc[c] \in {"start", "startCommit"} => Kind(c) \in NewJobKinds
    /\ pc[c] \in {"announce", "finish", "close"} => Kind(c) \in Waves
    /\ pc[c] \in AtWork \cup {"start", "startCommit"} /\ Kind(c) \in Waves => req[c].wave > 0
    /\ pc[c] \in AtWork => Job(c) \in Jobs /\ status[Job(c)] # Absent
    /\ pc[c] = "startCommit" =>
          /\ Job(c) \in Jobs /\ status[Job(c)] = Absent
          /\ write[c][Job(c)] \in Statuses
    /\ pc[c] = "settle" => req[c].verdict \in {"completed", "failed"}
    /\ pc[c] = "settleCommit" =>
          /\ req[c].verdict \in {"completed", "failed"}
          /\ write[c][Job(c)] # Nothing

\* What an uncommitted write of a job may be.
StartWrite(c, j) == pc[c] = "startCommit" /\ Job(c) = j

SettleWrite(c, j) ==
    /\ pc[c] = "settleCommit" /\ Job(c) = j
    /\ \/ write[c][j] = req[c].verdict
       \/ write[c][j] = Touch /\ (j \notin raced => status[j] = req[c].verdict)

RunningWrite(c, j) ==
    /\ pc[c] \in AtWork \cup {"start", "startCommit", "close"}
    /\ Job(c) = j => /\ pc[c] \notin {"startCommit", "settleCommit"}
                     /\ req[c].seen \in {Absent, "running"}
    /\ write[c][j] = "running"
    /\ status[j] # Absent
    /\ j \notin raced => status[j] = "pending"

WriteOK(c, j) ==
    write[c][j] # Nothing =>
        /\ StartWrite(c, j) \/ SettleWrite(c, j) \/ RunningWrite(c, j)
        /\ \A d \in Requests : write[d][j] # Nothing => d = c

Writing == \A c \in Requests, j \in Jobs : WriteOK(c, j)

Tells(i, j) == log[i].type \in {"job.started", "job.completed"} /\ log[i].job = j
Live(i) == log[i].state # "lost"

\* The open entry i is what c will tell of its job.
Announced(i, c) ==
    /\ c \in Requests
    /\ Job(c) = log[i].job
    /\ \/ /\ pc[c] = "startCommit" /\ log[i].type = "job.started"
          /\ log[i].info = write[c][Job(c)]
       \/ /\ pc[c] = "settleCommit" /\ log[i].type = "job.completed"
          /\ log[i].info = req[c].verdict

Stands(s, told) == s = told \/ (told = "pending" /\ s = "running")

\* The last visible word on j.
LastWord(j, m) ==
    /\ m \in Told(j)
    /\ \A k \in Told(j) : k <= m
    /\ j \notin raced => Stands(status[j], log[m].info)

\* An open word on a job is the last one that is not lost.
OpenWord(i, j) ==
    log[i].state = "open" /\ Tells(i, j) =>
        /\ Announced(i, log[i].by)
        /\ \A k \in DOMAIN log : Tells(k, j) /\ Live(k) => k <= i

HasWord(c) ==
    pc[c] \in {"startCommit", "settleCommit"} =>
        \E i \in DOMAIN log : IsOpen(c, log[i]) /\ Tells(i, Job(c))

Telling ==
    /\ \A i \in DOMAIN log, j \in Jobs : OpenWord(i, j)
    /\ \A c \in Requests : HasWord(c)
    /\ \A j \in Jobs : status[j] = Absent => Told(j) = {}
    /\ \A j \in Jobs : status[j] # Absent => \E m \in DOMAIN log : LastWord(j, m)

\* What c may decide of a job it has told to be merged.
Right(c, v) == v = "completed" \/ (v = "failed" /\ Kind(c) = "demo")

\* Entry k tells of the failure that the veto i decided.
Failed(i, k) ==
    /\ k > i /\ log[k].type = "job.completed" /\ log[k].by = log[i].by
    /\ log[k].job = log[i].job /\ log[k].info = "failed"

\* A veto that is open, and one that is told.
OpenVeto(i) ==
    /\ Job(log[i].by) = log[i].job
    /\ \/ pc[log[i].by] = "settle" /\ req[log[i].by].verdict = "failed"
       \/ /\ pc[log[i].by] = "settleCommit"
          /\ \E k \in DOMAIN log : Failed(i, k) /\ log[k].state = "open"

ToldVeto(i) == \E k \in DOMAIN log : Failed(i, k) /\ Visible(log[k])

Deciding ==
    \A i \in DOMAIN log : log[i].type = "cohesion.veto" =>
        /\ log[i].by \in Requests
        /\ log[i].state = "open" => OpenVeto(i)
        /\ Visible(log[i]) => ToldVeto(i)

\* Entry k tells what became of the merge i.
Outcome(i, k) ==
    /\ k > i /\ log[k].type = "job.completed" /\ log[k].by = log[i].by
    /\ log[k].job = log[i].job

\* A merge that is open has no outcome yet, and one that is told may wait for
\* its outcome, have lost it with its request, or have one for good.
OpenMerge(i) ==
    /\ pc[log[i].by] = "approveCommit" /\ Job(log[i].by) = log[i].job
    /\ \A k \in DOMAIN log : ~Outcome(i, k)

Waiting(i) ==
    /\ Job(log[i].by) = log[i].job
    /\ Right(log[i].by, req[log[i].by].verdict)
    /\ \/ /\ pc[log[i].by] = "settle"
          /\ \A k \in DOMAIN log : ~Outcome(i, k)
       \/ /\ pc[log[i].by] = "settleCommit"
          /\ \E k \in DOMAIN log : Outcome(i, k)
          /\ \A k \in DOMAIN log : Outcome(i, k) =>
                log[k].state = "open" /\ log[k].info = req[log[i].by].verdict

Abandoned(i) ==
    /\ pc[log[i].by] = "failed"
    /\ \A k \in DOMAIN log : Outcome(i, k) => log[k].state = "lost"

Carried(i, v) ==
    /\ Right(log[i].by, v)
    /\ \E k \in DOMAIN log : Outcome(i, k)
    /\ \A k \in DOMAIN log : Outcome(i, k) => Visible(log[k]) /\ log[k].info = v
    /\ pc[log[i].by] # "idle"
    /\ Job(log[i].by) = log[i].job =>
          pc[log[i].by] \in {"finish", "start", "close", "done", "failed"}

ToldMerge(i) == Waiting(i) \/ Abandoned(i) \/ \E v \in {"completed", "failed"} : Carried(i, v)

Merging ==
    \A i \in DOMAIN log : log[i].type = "cohesion.merge" =>
        /\ log[i].by \in Requests
        /\ log[i].state = "open" => OpenMerge(i)
        /\ Visible(log[i]) => ToldMerge(i)

\* Ends of families that c has emitted and not committed.
OpenEnds(c) == {i \in DOMAIN log : IsOpen(c, log[i]) /\ log[i].type = "wave.finished"}

\* All starts but the one of the present family have their end.
Even(c) == Cardinality(By(c, "wave.finished")) + 1 = Cardinality(By(c, "job.started"))

\* A wave before its first family is told, between two families, and in one.
BeforeFamilies(c) ==
    /\ pc[c] \in {"idle", "start", "startCommit"}
    /\ By(c, "job.started") = {} /\ By(c, "wave.finished") = {} /\ OpenEnds(c) = {}

BetweenFamilies(c) ==
    /\ pc[c] \in {"start", "startCommit", "close"}
    /\ By(c, "job.started") # {} /\ Even(c)
    /\ \E i \in DOMAIN log : OpenEnds(c) = {i}

InFamily(c) ==
    /\ pc[c] \in AtWork
    /\ By(c, "job.started") # {} /\ Even(c) /\ OpenEnds(c) = {}

Announces(i, c) == log[i].by = c /\ log[i].type = "wave.started"

WaveBegun(c) ==
    \A i \in DOMAIN log : Announces(i, c) /\ Live(i) =>
        /\ pc[c] \notin {"done", "failed"} => Kind(c) \in Waves /\ By(c, "job.started") # {}
        /\ pc[c] \in {"done", "failed"} /\ Visible(log[i]) => Even(c)

WaveGoesOn(c) ==
    Kind(c) \in Waves /\ pc[c] \notin {"done", "failed"} =>
        BeforeFamilies(c) \/ BetweenFamilies(c) \/ InFamily(c)

Waving == \A c \in Requests : WaveBegun(c) /\ WaveGoesOn(c)

\* The artifacts of a path that are not lost.
Rows(j, p) == {i \in DOMAIN log : /\ log[i].type = "artifact" /\ log[i].job = j
                                  /\ log[i].info = p /\ Live(i)}

Reached(j, p, v) == \E i \in Rows(j, p) : log[i].version = v

InOrder(j, p) ==
    \A i \in Rows(j, p) :
        /\ log[i].version > 0
        /\ \A k \in Rows(j, p) : i < k => log[i].version < log[k].version
        /\ \A v \in 1..log[i].version : Reached(j, p, v)
        /\ log[i].state = "open" => \A k \in Rows(j, p) : k <= i

\* A request that is about to insert has seen the version before its own.
Inserting(c) ==
    pc[c] = "insert" =>
        /\ req[c].path \in Paths /\ req[c].version > 0
        /\ \/ req[c].version = 1
           \/ \E i \in Rows(Job(c), req[c].path) :
                 Visible(log[i]) /\ log[i].version = req[c].version - 1

Versioning ==
    /\ \A j \in Jobs, p \in Paths : InOrder(j, p)
    /\ \A c \in Requests : Inserting(c)

CityInv ==
    /\ TypeOK
    /\ \A c \in Requests : Place(c)
    /\ Writing
    /\ Telling
    /\ Deciding
    /\ Merging
    /\ Waving
    /\ Versioning

\* A set of naturals has a smallest element, and a bounded one a largest.
LEMMA SmallestOf ==
    ASSUME NEW S, S \subseteq Nat, S # {}
    PROVE  \E m \in S : \A x \in S : m <= x
<1>1. PICK m \in S : \A x \in S : ~(<<x, m>> \in OpToRel(<, Nat))
  BY NatLessThanWellFounded, WFMin
<1>2. \A x \in S : ~(x < m)
  BY <1>1 DEF OpToRel
<1>3. \A x \in S : m <= x
  BY <1>2
<1>. QED
  BY <1>3

\* A bounded set of naturals has a largest element.
LEMMA LargestOf ==
    ASSUME NEW S, S \subseteq Nat, S # {}, NEW n \in Nat, \A x \in S : x <= n
    PROVE  \E m \in S : \A x \in S : x <= m
<1> DEFINE T == {n - x : x \in S}
<1>1. T \subseteq Nat /\ T # {}
  <2>1. \A x \in S : n - x \in Nat
    OBVIOUS
  <2>. QED
    BY <2>1
<1>2. PICK t \in T : \A u \in T : t <= u
  BY <1>1, SmallestOf
<1>3. PICK m \in S : t = n - m
  BY <1>2
<1>4. \A x \in S : n - m <= n - x
  BY <1>2, <1>3
<1>5. \A x \in S : x <= m
  BY <1>4
<1>. QED
  BY <1>5

\* What Max returns.
LEMMA MaxOf ==
    ASSUME NEW S, S \subseteq Nat, S # {}, NEW n \in Nat, \A x \in S : x <= n
    PROVE  /\ Max(S) \in S
           /\ \A x \in S : x <= Max(S)
           /\ \A m \in S : (\A x \in S : x <= m) => Max(S) = m
<1>1. PICK m \in S : \A x \in S : x <= m
  BY LargestOf
<1>2. Max(S) \in S /\ \A x \in S : Max(S) >= x
  BY <1>1 DEF Max
<1>3. ASSUME NEW k \in S, \A x \in S : x <= k
      PROVE  Max(S) = k
  <2>1. Max(S) \in Nat /\ k \in Nat /\ k <= Max(S) /\ Max(S) <= k
    BY <1>2, <1>3
  <2>. QED
    BY <2>1
<1>4. \A x \in S : x <= Max(S)
  <2>1. Max(S) \in Nat
    BY <1>2
  <2>. QED
    BY <1>2, <2>1
<1>. QED
  BY <1>2, <1>3, <1>4

-----------------------------------------------------------------------------
(* What steps do to the log.                                               *)

\* The log is a function on its positions.
LEMMA Positions ==
    ASSUME NEW L \in Seq(Entries)
    PROVE  /\ Len(L) \in Nat
           /\ DOMAIN L = 1..Len(L)
           /\ IsFiniteSet(DOMAIN L)
           /\ \A i \in DOMAIN L : i \in Nat /\ i > 0 /\ L[i] \in Entries
<1>1. Len(L) \in Nat /\ DOMAIN L = 1..Len(L)
  OBVIOUS
<1>2. \A i \in DOMAIN L : i \in Nat /\ i > 0 /\ L[i] \in Entries
  OBVIOUS
<1>3. IsFiniteSet(1..Len(L))
  BY <1>1, FS_Interval
<1>. QED
  BY <1>1, <1>2, <1>3

\* The fields of an entry.
LEMMA EntryFields ==
    ASSUME NEW e \in Entries
    PROVE  /\ e.type \in EventTypes /\ e.job \in Jobs /\ e.info \in Infos /\ e.version \in Nat
           /\ e.by \in Requests \cup {Nobody}
           /\ e.state \in {"open", "committed", "lost", "sent"}
  BY DEF Entries

\* The fields of a request's arguments.
LEMMA ArgumentFields ==
    ASSUME NEW r \in Arguments
    PROVE  /\ r.kind \in NewJobKinds \cup JobKinds \cup {"none"}
           /\ r.job \in Jobs \cup {0}
           /\ r.seen \in Statuses \cup {Absent}
           /\ r.calls \in Seq(Tools)
           /\ r.ok \in BOOLEAN
           /\ r.wave \in Nat
           /\ r.mode \in {Nothing, "auto", "complete", "leave"}
           /\ r.path \in Paths \cup {Nothing}
           /\ r.version \in Nat
           /\ r.verdict \in {Nothing, "completed", "failed"}
  BY DEF Arguments

\* The log with one entry more.
Added(e) ==
    /\ DOMAIN log' = DOMAIN log \cup {Len(log) + 1}
    /\ Len(log) + 1 \notin DOMAIN log
    /\ \A i \in DOMAIN log : i < Len(log) + 1 /\ log'[i] = log[i]
    /\ log'[Len(log) + 1] = e

\* What Append does to the log.
LEMMA AppendAdds ==
    ASSUME log \in Seq(Entries), NEW e \in Entries, log' = Append(log, e)
    PROVE  log' \in Seq(Entries) /\ Added(e)
<1>1. log' \in Seq(Entries) /\ Len(log') = Len(log) + 1 /\ Len(log) \in Nat
  OBVIOUS
<1>2. DOMAIN log = 1..Len(log) /\ DOMAIN log' = 1..(Len(log) + 1)
  BY <1>1
<1>3. \A i \in 1..Len(log) : log'[i] = log[i]
  OBVIOUS
<1>4. log'[Len(log) + 1] = e
  OBVIOUS
<1>. QED
  BY <1>1, <1>2, <1>3, <1>4 DEF Added

\* Entries keep everything but their state.
SameRows ==
    /\ DOMAIN log' = DOMAIN log
    /\ \A i \in DOMAIN log :
          /\ log'[i].type = log[i].type /\ log'[i].job = log[i].job
          /\ log'[i].info = log[i].info /\ log'[i].version = log[i].version
          /\ log'[i].by = log[i].by

\* Nothing becomes visible or is lost.
SameView ==
    /\ SameRows
    /\ \A i \in DOMAIN log :
          /\ (log'[i].state = "open") = (log[i].state = "open")
          /\ (log'[i].state = "lost") = (log[i].state = "lost")
          /\ Visible(log'[i]) = Visible(log[i])

\* The transaction of c ends.
Ends(c, s) ==
    /\ SameRows
    /\ \A i \in DOMAIN log :
          /\ IsOpen(c, log[i]) => log'[i].state = s
          /\ ~IsOpen(c, log[i]) => log'[i].state = log[i].state

\* A function on the positions is a log again.
LEMMA StillSeq ==
    ASSUME log \in Seq(Entries), NEW f,
           f = [i \in DOMAIN log |-> f[i]], \A i \in DOMAIN log : f[i] \in Entries
    PROVE  f \in Seq(Entries) /\ DOMAIN f = DOMAIN log
<1>1. Len(log) \in Nat /\ DOMAIN log = 1..Len(log)
  OBVIOUS
<1>2. f \in [1..Len(log) -> Entries]
  BY <1>1
<1>. QED
  BY <1>1, <1>2

\* The state of an entry is changed.
Restated(e, f, s) ==
    /\ f \in Entries /\ f.state = s
    /\ f.type = e.type /\ f.job = e.job /\ f.info = e.info
    /\ f.version = e.version /\ f.by = e.by

\* An entry with another state.
LEMMA NewState ==
    ASSUME NEW e \in Entries, NEW s \in {"open", "committed", "lost", "sent"}
    PROVE  Restated(e, [e EXCEPT !.state = s], s)
  BY DEF Entries, Restated

\* What Ended does to the log.
LEMMA EndedEnds ==
    ASSUME log \in Seq(Entries), NEW c, NEW s \in {"committed", "lost"}, log' = Ended(c, s)
    PROVE  log' \in Seq(Entries) /\ Ends(c, s)
<1>1. \A i \in DOMAIN log : log[i] \in Entries
  BY Positions
<1>2. log' = [i \in DOMAIN log |-> log'[i]]
  BY DEF Ended
<1>3. ASSUME NEW i \in DOMAIN log
      PROVE  Restated(log[i], log'[i], IF IsOpen(c, log[i]) THEN s ELSE log[i].state)
  <2>1. log[i] \in Entries /\ log[i].state \in {"open", "committed", "lost", "sent"}
    BY <1>1, EntryFields
  <2>2. CASE IsOpen(c, log[i])
    <3>1. log'[i] = [log[i] EXCEPT !.state = s]
      BY <2>2 DEF Ended
    <3>2. Restated(log[i], [log[i] EXCEPT !.state = s], s)
      BY <2>1, NewState
    <3>. QED
      BY <2>2, <3>1, <3>2
  <2>3. CASE ~IsOpen(c, log[i])
    <3>1. log'[i] = log[i]
      BY <2>3 DEF Ended
    <3>. QED
      BY <2>1, <2>3, <3>1 DEF Restated
  <2>. QED
    BY <2>2, <2>3
<1>4. log' \in Seq(Entries) /\ DOMAIN log' = DOMAIN log
  BY <1>2, <1>3, StillSeq DEF Restated
<1>. QED
  BY <1>3, <1>4 DEF Ends, SameRows, Restated

\* What a poll does to the log.
LEMMA PollKeeps ==
    ASSUME log \in Seq(Entries), Poll
    PROVE  /\ log' \in Seq(Entries) /\ SameView
           /\ \A i \in DOMAIN log : i \notin Page => log'[i].state = log[i].state
           /\ \A i \in Page : i \in DOMAIN log /\ log'[i].state = "sent"
<1>1. \A i \in DOMAIN log : log[i] \in Entries
  BY Positions
<1>2. log' = [i \in DOMAIN log |-> log'[i]]
  BY DEF Poll
<1>3. \A i \in Page : i \in DOMAIN log /\ log[i].state = "committed"
  BY DEF Page, Unread
<1>4. ASSUME NEW i \in DOMAIN log
      PROVE  Restated(log[i], log'[i], IF i \in Page THEN "sent" ELSE log[i].state)
  <2>1. log[i] \in Entries /\ log[i].state \in {"open", "committed", "lost", "sent"}
    BY <1>1, EntryFields
  <2>2. CASE i \in Page
    <3>1. log'[i] = [log[i] EXCEPT !.state = "sent"]
      BY <2>2 DEF Poll
    <3>2. Restated(log[i], [log[i] EXCEPT !.state = "sent"], "sent")
      BY <2>1, NewState
    <3>. QED
      BY <2>2, <3>1, <3>2
  <2>3. CASE i \notin Page
    <3>1. log'[i] = log[i]
      BY <2>3 DEF Poll
    <3>. QED
      BY <2>1, <2>3, <3>1 DEF Restated
  <2>. QED
    BY <2>2, <2>3
<1>5. log' \in Seq(Entries) /\ DOMAIN log' = DOMAIN log
  BY <1>2, <1>4, StillSeq DEF Restated
<1>6. SameView
  BY <1>3, <1>4, <1>5 DEF SameView, SameRows, Restated, Visible
<1>. QED
  BY <1>3, <1>4, <1>5, <1>6 DEF Restated

-----------------------------------------------------------------------------
(* The steps of a request, by what they do to the database.                *)

\* Other requests stay where they are.
OnlyBy(c) ==
    \A d \in Requests : d # c =>
        pc'[d] = pc[d] /\ req'[d] = req[d] /\ write'[d] = write[d]

\* A request goes on with its job, which its session may forget.
SameTask(c) ==
    /\ req'[c].kind = req[c].kind /\ req'[c].job = req[c].job
    /\ req'[c].seen \in {req[c].seen, Absent} /\ req'[c].wave = req[c].wave

Holds(c) == SameTask(c) /\ req'[c].verdict = req[c].verdict

\* Steps that leave the database alone.
QuietStep(c) ==
    /\ OnlyBy(c)
    /\ status' = status /\ write' = write /\ log' = log /\ raced' = raced
    /\ req'[c].kind = req[c].kind
    /\ \/ /\ pc[c] = "idle" /\ pc'[c] \in {"merge", "veto", "batch"}
          /\ Kind(c) \in JobKinds
          /\ req'[c].job \in Jobs /\ status[req'[c].job] # Absent
       \/ /\ pc[c] = "idle" /\ pc'[c] = "start"
          /\ Kind(c) \in NewJobKinds
          /\ req'[c].wave > 0
       \/ /\ pc[c] = "tools" /\ pc'[c] = "insert"
          /\ Holds(c)
          /\ req'[c].path \in Paths
          /\ req'[c].version = Max({0} \cup Versions(Job(c), req'[c].path)) + 1
       \/ /\ pc[c] = "tools" /\ pc'[c] \in {"tools", "decide"}
          /\ Holds(c)
       \/ /\ pc[c] = "decide" /\ pc'[c] \in {"merge", "veto", "finish"}
          /\ Kind(c) \in Waves
          /\ Holds(c)
       \/ /\ pc[c] = "decide" /\ pc'[c] = "settle"
          /\ SameTask(c) /\ req'[c].verdict = "completed"
       \/ /\ pc[c] \in {"batch", "merge", "veto", "settle"} /\ pc'[c] = pc[c]
          /\ req'[c].job = req[c].job /\ req'[c].wave = req[c].wave
          /\ req'[c].seen = Row(c) /\ req'[c].verdict = req[c].verdict

\* A request on an existing job begins.
LEMMA OpenShape ==
    ASSUME TypeOK, NEW c \in Requests, NEW j \in Jobs, Open(c, j)
    PROVE  TypeOK' /\ QuietStep(c)
<1>1. req'[c] = [req[c] EXCEPT !.job = j, !.seen = status[j]]
  BY DEF TypeOK, Open
<1>2. req'[c] \in Arguments
  <2>1. req[c] \in Arguments /\ status[j] \in Statuses \cup {Absent} /\ j \in Jobs \cup {0}
    BY DEF TypeOK
  <2>. QED
    BY <1>1, <2>1 DEF Arguments
<1>3. req'[c].kind = req[c].kind /\ req'[c].job = j
  BY <1>1 DEF TypeOK, Arguments
<1>4. /\ pc' \in [Requests -> Steps] /\ req' \in [Requests -> Arguments]
      /\ \A d \in Requests : d # c => pc'[d] = pc[d] /\ req'[d] = req[d]
      /\ pc[c] = "idle" /\ pc'[c] \in {"merge", "veto", "batch"}
  BY <1>2 DEF TypeOK, Open, Goto, Steps
<1>. QED
  BY <1>3, <1>4 DEF TypeOK, Open, QuietStep, OnlyBy, Kind

\* A request that starts jobs begins.
LEMMA OpenNewShape ==
    ASSUME TypeOK, NEW c \in Requests, NEW n \in Nat \ {0},
           NEW mode \in {Nothing, "auto", "complete", "leave"},
           Kind(c) \in NewJobKinds, OpenNew(c, n, mode)
    PROVE  TypeOK' /\ QuietStep(c)
<1>1. req'[c] = [req[c] EXCEPT !.wave = n, !.mode = mode]
  BY DEF TypeOK, OpenNew
<1>2. req'[c] \in Arguments
  <2>1. req[c] \in Arguments
    BY DEF TypeOK
  <2>. QED
    BY <1>1, <2>1 DEF Arguments
<1>3. req'[c].kind = req[c].kind /\ req'[c].wave > 0
  BY <1>1 DEF TypeOK, Arguments
<1>4. /\ pc' \in [Requests -> Steps] /\ req' \in [Requests -> Arguments]
      /\ \A d \in Requests : d # c => pc'[d] = pc[d] /\ req'[d] = req[d]
      /\ pc[c] = "idle" /\ pc'[c] = "start"
  BY <1>2 DEF TypeOK, OpenNew, Goto, Steps
<1>. QED
  BY <1>3, <1>4 DEF TypeOK, OpenNew, QuietStep, OnlyBy, Kind

\* A helper loads the job.
LEMMA LoadShape ==
    ASSUME TypeOK, NEW c \in Requests, Place(c), LoadJob(c)
    PROVE  TypeOK' /\ QuietStep(c)
<1>1. /\ pc[c] \in {"batch", "merge", "veto", "settle"}
      /\ UNCHANGED <<pc, status, write, log, raced>>
      /\ req'[c] = [req[c] EXCEPT !.seen = Row(c)]
      /\ \A d \in Requests : d # c => req'[d] = req[d]
  BY DEF TypeOK, LoadJob
<1>2. Job(c) \in Jobs
  BY <1>1 DEF Place, AtWork, Steps
<1>3. Row(c) \in Statuses \cup {Absent}
  BY <1>2 DEF TypeOK, Row
<1>4. req'[c] \in Arguments
  <2>1. req[c] \in Arguments
    BY DEF TypeOK
  <2>. QED
    BY <1>1, <1>3, <2>1 DEF Arguments
<1>5. /\ req'[c].kind = req[c].kind /\ req'[c].job = req[c].job /\ req'[c].wave = req[c].wave
      /\ req'[c].seen = Row(c) /\ req'[c].verdict = req[c].verdict
  BY <1>1 DEF TypeOK, Arguments
<1>6. req' \in [Requests -> Arguments]
  BY <1>4 DEF TypeOK, LoadJob
<1>7. TypeOK'
  BY <1>1, <1>6 DEF TypeOK
<1>. QED
  BY <1>1, <1>5, <1>7 DEF QuietStep, OnlyBy

\* Versions grow with the position, so the last row has the largest one.
LEMMA VersionsBound ==
    ASSUME log \in Seq(Entries), Versioning, NEW j \in Jobs, NEW p \in Paths
    PROVE  /\ Max({0} \cup Versions(j, p)) \in {0} \cup Versions(j, p)
           /\ Versions(j, p) \subseteq Nat
<1> DEFINE S == {0} \cup Versions(j, p)
           R == {k \in Stored("artifact", j) : log[k].info = p}
<1>1. \A i \in DOMAIN log : i \in Nat /\ i <= Len(log) /\ log[i].version \in Nat
  BY Positions, EntryFields
<1>2. R \subseteq DOMAIN log /\ R \subseteq Rows(j, p)
  BY DEF Stored, Rows, Live, Visible
<1>3. Versions(j, p) = {log[i].version : i \in R}
  BY DEF Versions
<1>4. Versions(j, p) \subseteq Nat
  BY <1>1, <1>2, <1>3
<1>5. PICK n \in Nat : \A v \in Versions(j, p) : v <= n
  <2>1. CASE R = {}
    <3>1. Versions(j, p) = {} /\ 0 \in Nat
      BY <1>3, <2>1
    <3>. QED
      BY <3>1
  <2>2. CASE R # {}
    <3>1. R \subseteq Nat /\ Len(log) \in Nat /\ \A i \in R : i <= Len(log)
      BY <1>1, <1>2
    <3>2. PICK m \in R : \A i \in R : i <= m
      BY <2>2, <3>1, LargestOf
    <3>3. ASSUME NEW i \in R
          PROVE  log[i].version <= log[m].version
      <4>1. i = m \/ i < m
        BY <3>1, <3>2
      <4>2. i < m => log[i].version < log[m].version
        BY <1>2, <3>2 DEF Versioning, InOrder
      <4>3. log[i].version \in Nat /\ log[m].version \in Nat
        BY <1>1, <1>2, <3>2
      <4>. QED
        BY <4>1, <4>2, <4>3
    <3>4. log[m].version \in Nat
      BY <1>1, <1>2, <3>2
    <3>. QED
      BY <1>3, <3>3, <3>4
  <2>. QED
    BY <2>1, <2>2
<1>6. S \subseteq Nat /\ S # {} /\ \A x \in S : x <= n
  BY <1>4, <1>5
<1>7. Max(S) \in S
  BY <1>6, MaxOf
<1>. QED
  BY <1>4, <1>7

\* latest_version is read.
LEMMA ReadVersionShape ==
    ASSUME TypeOK, Versioning, NEW c \in Requests, Place(c), NEW p \in Paths, ReadVersion(c, p)
    PROVE  TypeOK' /\ QuietStep(c)
<1> DEFINE v == Max({0} \cup Versions(Job(c), p)) + 1
<1>1. req'[c] = [req[c] EXCEPT !.calls = Tail(req[c].calls), !.path = p, !.version = v]
  BY DEF TypeOK, ReadVersion
<1>2. pc[c] = "tools" /\ req[c].calls # <<>> /\ Job(c) \in Jobs
  BY DEF ReadVersion, Calling, Place, AtWork, Steps
<1>3. v \in Nat
  <2>1. /\ Max({0} \cup Versions(Job(c), p)) \in {0} \cup Versions(Job(c), p)
        /\ Versions(Job(c), p) \subseteq Nat
    BY <1>2, VersionsBound DEF TypeOK
  <2>2. Max({0} \cup Versions(Job(c), p)) \in Nat
    BY <2>1
  <2>. QED
    BY <2>2
<1> HIDE DEF v
<1>4. req'[c] \in Arguments
  <2>1. req[c] \in Arguments /\ req[c].calls \in Seq(Tools) /\ p \in Paths \cup {Nothing}
    BY ArgumentFields DEF TypeOK
  <2>2. Tail(req[c].calls) \in Seq(Tools)
    BY <1>2, <2>1
  <2>. QED
    BY <1>1, <1>3, <2>1, <2>2 DEF Arguments
<1>5. Holds(c) /\ req'[c].path = p /\ req'[c].version = v
  BY <1>1 DEF TypeOK, Arguments, Holds, SameTask
<1>6. /\ pc' \in [Requests -> Steps] /\ req' \in [Requests -> Arguments]
      /\ \A d \in Requests : d # c => pc'[d] = pc[d] /\ req'[d] = req[d]
      /\ pc'[c] = "insert"
  BY <1>4 DEF TypeOK, ReadVersion, Goto, Steps
<1>7. UNCHANGED <<status, write, log, raced>>
  BY DEF ReadVersion
<1>. QED
  BY <1>2, <1>5, <1>6, <1>7 DEF TypeOK, QuietStep, OnlyBy, Kind, v, Holds, SameTask

\* A denied tool.
LEMMA ToolDeniedShape ==
    ASSUME TypeOK, NEW c \in Requests, ToolDenied(c)
    PROVE  TypeOK' /\ QuietStep(c)
<1>1. req'[c] = [req[c] EXCEPT !.calls = Tail(req[c].calls), !.ok = FALSE]
  BY DEF TypeOK, ToolDenied
<1>2. pc[c] = "tools" /\ req[c].calls # <<>>
  BY DEF ToolDenied, Calling
<1>3. req'[c] \in Arguments
  <2>1. req[c] \in Arguments /\ req[c].calls \in Seq(Tools)
    BY ArgumentFields DEF TypeOK
  <2>2. Tail(req[c].calls) \in Seq(Tools)
    BY <1>2, <2>1
  <2>. QED
    BY <1>1, <2>1, <2>2 DEF Arguments
<1>4. Holds(c)
  BY <1>1 DEF TypeOK, Arguments, Holds, SameTask
<1>5. /\ req' \in [Requests -> Arguments]
      /\ \A d \in Requests : d # c => req'[d] = req[d]
  BY <1>3 DEF TypeOK, ToolDenied
<1>6. UNCHANGED <<pc, status, write, log, raced>>
  BY DEF ToolDenied
<1>. QED
  BY <1>2, <1>4, <1>5, <1>6 DEF TypeOK, QuietStep, OnlyBy, Kind, Holds, SameTask

\* A team that fails.
LEMMA TeamFailsShape ==
    ASSUME TypeOK, NEW c \in Requests, TeamFails(c)
    PROVE  TypeOK' /\ QuietStep(c)
<1>1. req'[c] = [req[c] EXCEPT !.calls = <<>>, !.ok = FALSE, !.seen = Absent]
  BY DEF TypeOK, TeamFails
<1>2. req'[c] \in Arguments
  <2>1. req[c] \in Arguments
    BY DEF TypeOK
  <2>2. <<>> \in Seq(Tools)
    OBVIOUS
  <2>. QED
    BY <1>1, <2>1, <2>2 DEF Arguments
<1>3. Holds(c)
  BY <1>1 DEF TypeOK, Arguments, Holds, SameTask
<1>4. /\ pc' \in [Requests -> Steps] /\ req' \in [Requests -> Arguments]
      /\ \A d \in Requests : d # c => pc'[d] = pc[d] /\ req'[d] = req[d]
      /\ pc[c] = "tools" /\ pc'[c] = "decide"
  BY <1>2 DEF TypeOK, TeamFails, Goto, Steps
<1>5. UNCHANGED <<status, write, log, raced>>
  BY DEF TeamFails
<1>. QED
  BY <1>3, <1>4, <1>5 DEF TypeOK, QuietStep, OnlyBy, Kind, Holds, SameTask

\* The verdict of a request is set, and its job may be forgotten.
LEMMA SetVerdict ==
    ASSUME TypeOK, NEW c \in Requests, NEW v \in {"completed", "failed"},
           NEW s \in {req[c].seen, Absent},
           \/ req' = [req EXCEPT ![c].verdict = v]
           \/ req' = [req EXCEPT ![c].verdict = v, ![c].seen = s]
    PROVE  /\ req' \in [Requests -> Arguments]
           /\ \A d \in Requests : d # c => req'[d] = req[d]
           /\ SameTask(c) /\ req'[c].verdict = v
<1>1. /\ \/ req'[c] = [req[c] EXCEPT !.verdict = v]
         \/ req'[c] = [req[c] EXCEPT !.verdict = v, !.seen = s]
      /\ \A d \in Requests : d # c => req'[d] = req[d]
  BY DEF TypeOK
<1>2. req[c] \in Arguments /\ s \in Statuses \cup {Absent}
  BY ArgumentFields DEF TypeOK
<1>3. req'[c] \in Arguments
  BY <1>1, <1>2 DEF Arguments
<1>4. SameTask(c) /\ req'[c].verdict = v
  BY <1>1, <1>2 DEF Arguments, SameTask
<1>5. req' \in [Requests -> Arguments]
  BY <1>3 DEF TypeOK
<1>. QED
  BY <1>1, <1>4, <1>5

\* Decisions of a pulse and a conduct.
LEMMA DecideShape ==
    ASSUME TypeOK, NEW c \in Requests, DecidePulse(c) \/ DecideConduct(c)
    PROVE  TypeOK' /\ QuietStep(c)
<1>1. /\ UNCHANGED <<status, write, log, raced>>
      /\ pc[c] = "decide" /\ Kind(c) \in Waves
  BY DEF DecidePulse, DecideConduct, Waves, Kind
<1>2. \/ /\ \E next \in {"merge", "veto", "finish"} : pc' = [pc EXCEPT ![c] = next]
         /\ req' = req
      \/ /\ pc' = [pc EXCEPT ![c] = "settle"]
         /\ req' = [req EXCEPT ![c].verdict = "completed"]
  BY DEF DecidePulse, DecideConduct, ByScore, Goto
<1>3. CASE /\ \E next \in {"merge", "veto", "finish"} : pc' = [pc EXCEPT ![c] = next]
           /\ req' = req
  <2>1. /\ pc' \in [Requests -> Steps] /\ \A d \in Requests : d # c => pc'[d] = pc[d]
        /\ pc'[c] \in {"merge", "veto", "finish"}
    BY <1>3 DEF TypeOK, Steps
  <2>. QED
    BY <1>1, <1>3, <2>1 DEF TypeOK, QuietStep, OnlyBy, Holds, SameTask
<1>4. CASE /\ pc' = [pc EXCEPT ![c] = "settle"]
           /\ req' = [req EXCEPT ![c].verdict = "completed"]
  <2>1. /\ pc' \in [Requests -> Steps] /\ \A d \in Requests : d # c => pc'[d] = pc[d]
        /\ pc'[c] = "settle"
    BY <1>4 DEF TypeOK, Steps
  <2>2. /\ req' \in [Requests -> Arguments]
        /\ \A d \in Requests : d # c => req'[d] = req[d]
        /\ SameTask(c) /\ req'[c].verdict = "completed"
    BY <1>4, SetVerdict
  <2>. QED
    BY <1>1, <2>1, <2>2 DEF TypeOK, QuietStep, OnlyBy, SameTask
<1>. QED
  BY <1>2, <1>3, <1>4

\* Steps that mark a pending job as running.
MarkStep(c) ==
    /\ OnlyBy(c)
    /\ status' = status /\ log' = log
    /\ \/ pc[c] = "batch" /\ pc'[c] = "tools"
       \/ pc[c] = "merge" /\ pc'[c] = "approve"
    /\ req'[c].kind = req[c].kind /\ req'[c].job = req[c].job
    /\ req'[c].wave = req[c].wave /\ req'[c].verdict = req[c].verdict
    /\ \/ req'[c].seen = req[c].seen /\ write' = write /\ raced' = raced
       \/ /\ req[c].seen = "pending" /\ req'[c].seen = "running"
          /\ RowFree(c)
          /\ write'[c][Job(c)] = "running"
          /\ \A j \in Jobs : j # Job(c) => write'[c][j] = write[c][j]
          /\ raced' = IF Row(c) = "pending" THEN raced ELSE raced \cup {Job(c)}

\* The row of c's job is written.
LEMMA AssignWrites ==
    ASSUME TypeOK, NEW c \in Requests, Job(c) \in Jobs, NEW s \in Statuses, Assign(c, s)
    PROVE  /\ write' \in [Requests -> [Jobs -> Statuses \cup {Nothing, Touch}]]
           /\ raced' \subseteq Jobs
           /\ RowFree(c)
           /\ write'[c][Job(c)] = IF req[c].seen = s THEN Touch ELSE s
           /\ \A j \in Jobs : j # Job(c) => write'[c][j] = write[c][j]
           /\ \A d \in Requests : d # c => write'[d] = write[d]
           /\ raced' = IF req[c].seen = Row(c) THEN raced ELSE raced \cup {Job(c)}
<1> DEFINE w == IF req[c].seen = s THEN Touch ELSE s
<1>1. w \in Statuses \cup {Nothing, Touch}
  OBVIOUS
<1>2. /\ RowFree(c)
      /\ write' = [write EXCEPT ![c][Job(c)] = w]
      /\ raced' = IF req[c].seen = Row(c) THEN raced ELSE raced \cup {Job(c)}
  BY DEF Assign
<1> HIDE DEF w
<1>3. /\ write'[c] = [write[c] EXCEPT ![Job(c)] = w]
      /\ \A d \in Requests : d # c => write'[d] = write[d]
  BY <1>2 DEF TypeOK
<1>4. write'[c] \in [Jobs -> Statuses \cup {Nothing, Touch}]
  BY <1>1, <1>3 DEF TypeOK
<1>5. /\ write'[c][Job(c)] = w
      /\ \A j \in Jobs : j # Job(c) => write'[c][j] = write[c][j]
  BY <1>3 DEF TypeOK
<1>6. write' \in [Requests -> [Jobs -> Statuses \cup {Nothing, Touch}]]
  BY <1>2, <1>4 DEF TypeOK
<1>7. raced' \subseteq Jobs
  BY <1>2 DEF TypeOK
<1>. QED
  BY <1>2, <1>3, <1>5, <1>6, <1>7 DEF w

\* The calls of a request's plans.
LEMMA CallsAreTools == \A kind : CallsOf(kind) \subseteq Seq(Tools)
<1>1. \A t \in Tools, u \in Tools : <<t, u>> \in Seq(Tools)
  OBVIOUS
<1>2. DistrictCalls \in Seq(Tools) /\ ProbeCalls \in Seq(Tools)
  BY <1>1 DEF DistrictCalls, ProbeCalls, Tools
<1>3. DemoCalls \in Seq(Tools)
  BY DEF DemoCalls, Tools
<1>4. Plan \in Seq(Tools)
  <2>1. [i \in 1..Notes |-> "write"] \in Seq(Tools)
    BY FamilyAssumption DEF Tools
  <2>. QED
    BY <1>2, <2>1 DEF Plan
<1>5. Batches \subseteq Seq(Tools) /\ TeamCalls \subseteq Seq(Tools)
  BY BatchesAssumption
<1>. QED
  BY <1>2, <1>3, <1>4, <1>5 DEF CallsOf

\* Batches and approvals begin.
LEMMA MarkShape ==
    ASSUME TypeOK, NEW c \in Requests, Place(c), BeginBatch(c) \/ Approve(c)
    PROVE  TypeOK' /\ MarkStep(c)
<1>1. \/ pc[c] = "batch" /\ pc' = [pc EXCEPT ![c] = "tools"]
      \/ pc[c] = "merge" /\ pc' = [pc EXCEPT ![c] = "approve"]
  BY DEF BeginBatch, Approve, Goto
<1>2. PICK calls \in Seq(Tools) : MarkRunning(c, calls)
  <2>1. CASE BeginBatch(c)
    <3>1. PICK calls \in CallsOf(req[c].kind) : MarkRunning(c, calls)
      BY <2>1 DEF BeginBatch
    <3>. QED
      BY <3>1, CallsAreTools
  <2>2. CASE Approve(c)
    <3>1. MarkRunning(c, <<>>) /\ <<>> \in Seq(Tools)
      BY <2>2 DEF Approve
    <3>. QED
      BY <3>1
  <2>. QED
    BY <2>1, <2>2
<1>3. Job(c) \in Jobs
  BY <1>1 DEF Place, AtWork, Steps
<1>4. /\ pc' \in [Requests -> Steps] /\ \A d \in Requests : d # c => pc'[d] = pc[d]
      /\ \/ pc[c] = "batch" /\ pc'[c] = "tools"
         \/ pc[c] = "merge" /\ pc'[c] = "approve"
  BY <1>1 DEF TypeOK, Steps
<1> DEFINE s == IF req[c].seen = "pending" THEN "running" ELSE req[c].seen
<1>5. s \in Statuses \cup {Absent} /\ req[c] \in Arguments
  BY ArgumentFields DEF TypeOK, Statuses
<1>6. req'[c] = [req[c] EXCEPT !.calls = calls, !.seen = s]
  BY <1>2 DEF MarkRunning, TypeOK
<1> HIDE DEF s
<1>7. req'[c] \in Arguments
  BY <1>5, <1>6 DEF Arguments
<1>8. /\ req' \in [Requests -> Arguments]
      /\ \A d \in Requests : d # c => req'[d] = req[d]
  BY <1>2, <1>7 DEF MarkRunning, TypeOK
<1>9. /\ req'[c].kind = req[c].kind /\ req'[c].job = req[c].job
      /\ req'[c].wave = req[c].wave /\ req'[c].verdict = req[c].verdict
      /\ req'[c].seen = s
  BY <1>5, <1>6 DEF Arguments
<1>10. status' = status /\ log' = log
  BY <1>2 DEF MarkRunning
<1>11. CASE req[c].seen = "pending"
  <2>1. Assign(c, "running") /\ "running" \in Statuses
    BY <1>2, <1>11 DEF MarkRunning, Statuses
  <2>2. /\ write' \in [Requests -> [Jobs -> Statuses \cup {Nothing, Touch}]]
        /\ raced' \subseteq Jobs
        /\ RowFree(c)
        /\ write'[c][Job(c)] = "running"
        /\ \A j \in Jobs : j # Job(c) => write'[c][j] = write[c][j]
        /\ \A d \in Requests : d # c => write'[d] = write[d]
        /\ raced' = IF Row(c) = "pending" THEN raced ELSE raced \cup {Job(c)}
    BY <1>3, <1>11, <2>1, AssignWrites
  <2>3. req'[c].seen = "running"
    BY <1>9, <1>11 DEF s
  <2>4. TypeOK'
    BY <1>4, <1>8, <1>10, <2>2 DEF TypeOK
  <2>5. OnlyBy(c)
    BY <1>4, <1>8, <2>2 DEF OnlyBy
  <2>. QED
    BY <1>4, <1>9, <1>10, <1>11, <2>2, <2>3, <2>4, <2>5 DEF MarkStep
<1>12. CASE req[c].seen # "pending"
  <2>1. write' = write /\ raced' = raced
    BY <1>2, <1>12 DEF MarkRunning
  <2>2. req'[c].seen = req[c].seen
    BY <1>9, <1>12 DEF s
  <2>3. TypeOK'
    BY <1>4, <1>8, <1>10, <2>1 DEF TypeOK
  <2>4. OnlyBy(c)
    BY <1>4, <1>8, <2>1 DEF OnlyBy
  <2>. QED
    BY <1>4, <1>9, <1>10, <2>1, <2>2, <2>3, <2>4 DEF MarkStep
<1>. QED
  BY <1>11, <1>12

\* Steps that add an entry to the transaction.
AddStep(c, e) ==
    /\ OnlyBy(c)
    /\ status' = status /\ write' = write /\ raced' = raced
    /\ e \in Entries /\ Added(e)
    /\ e.by = c /\ e.state = "open" /\ e.job = Job(c)
    /\ req'[c].kind = req[c].kind /\ req'[c].job = req[c].job
    /\ req'[c].seen \in {req[c].seen, Absent}
    /\ \/ /\ pc[c] = "announce" /\ pc'[c] \in {"batch", "decide"}
          /\ e.type = "wave.started" /\ Holds(c)
       \/ /\ pc[c] = "insert" /\ pc'[c] = "toolCommit"
          /\ e.type = "artifact" /\ Holds(c)
          /\ e.info = req[c].path /\ e.version = req[c].version
          /\ SameKey(c) = {}
       \/ /\ pc[c] \in {"tools", "sandbox", "approve"}
          /\ pc'[c] \in {"runCommit", "toolCommit", "approveCommit"}
          /\ e.type \in {"run", "viz", "cohesion.merge"} /\ Holds(c)
          /\ e.type = "cohesion.merge" => pc'[c] = "approveCommit"
       \/ /\ pc[c] = "veto" /\ pc'[c] = "settle"
          /\ e.type = "cohesion.veto" /\ SameTask(c)
          /\ req'[c].verdict = "failed"
       \/ /\ pc[c] = "finish"
          /\ pc'[c] = "close" \/ (pc'[c] = "start" /\ req'[c].wave > 0)
          /\ e.type = "wave.finished"

\* The entry of an event.
LEMMA NewEntry ==
    ASSUME NEW c \in Requests, Job(c) \in Jobs, NEW t \in EventTypes, NEW s \in Infos,
           NEW v \in Nat
    PROVE  /\ Entry(c, t, s, v) \in Entries
           /\ Entry(c, t, s, v).by = c /\ Entry(c, t, s, v).state = "open"
           /\ Entry(c, t, s, v).job = Job(c) /\ Entry(c, t, s, v).type = t
           /\ Entry(c, t, s, v).info = s /\ Entry(c, t, s, v).version = v
  BY DEF Entry, Entries

\* An event is emitted.
LEMMA EmitAdds ==
    ASSUME log \in Seq(Entries), NEW c \in Requests, Job(c) \in Jobs,
           NEW t \in EventTypes, NEW s \in Infos, Emit(c, t, s)
    PROVE  \E e \in Entries :
              /\ log' \in Seq(Entries) /\ Added(e)
              /\ e.by = c /\ e.state = "open" /\ e.job = Job(c) /\ e.type = t /\ e.info = s
<1>1. log' = Append(log, Entry(c, t, s, 0))
  BY DEF Emit
<1>2. /\ Entry(c, t, s, 0) \in Entries
      /\ Entry(c, t, s, 0).by = c /\ Entry(c, t, s, 0).state = "open"
      /\ Entry(c, t, s, 0).job = Job(c) /\ Entry(c, t, s, 0).type = t
      /\ Entry(c, t, s, 0).info = s
  BY NewEntry
<1>3. log' \in Seq(Entries) /\ Added(Entry(c, t, s, 0))
  BY <1>1, <1>2, AppendAdds
<1>. QED
  BY <1>2, <1>3

\* The start of a family in a wave.
LEMMA AnnounceShape ==
    ASSUME TypeOK, NEW c \in Requests, Place(c), Announce(c)
    PROVE  TypeOK' /\ \E e : AddStep(c, e)
<1>1. Job(c) \in Jobs /\ pc[c] = "announce" /\ UNCHANGED <<req, status, write, raced>>
  BY DEF Announce, Place, AtWork, Steps
<1>2. "wave.started" \in EventTypes /\ req[c].kind \in Infos
  BY <1>1 DEF Place, Kind, EventTypes, Infos
<1>3. PICK e \in Entries : /\ log' \in Seq(Entries) /\ Added(e)
                           /\ e.by = c /\ e.state = "open" /\ e.job = Job(c)
                           /\ e.type = "wave.started"
  BY <1>1, <1>2, EmitAdds DEF Announce, TypeOK
<1>4. /\ pc' \in [Requests -> Steps] /\ \A d \in Requests : d # c => pc'[d] = pc[d]
      /\ pc'[c] \in {"batch", "decide"}
  BY DEF Announce, Goto, TypeOK, Steps
<1>5. TypeOK'
  BY <1>1, <1>3, <1>4 DEF TypeOK
<1>6. AddStep(c, e)
  BY <1>1, <1>3, <1>4 DEF AddStep, OnlyBy, Holds, SameTask
<1>. QED
  BY <1>5, <1>6

\* The INSERT of an artifact.
LEMMA InsertShape ==
    ASSUME TypeOK, Versioning, NEW c \in Requests, Place(c), InsertArtifact(c)
    PROVE  TypeOK' /\ \E e : AddStep(c, e)
<1>1. Job(c) \in Jobs /\ pc[c] = "insert" /\ UNCHANGED <<req, status, write, raced>>
  BY DEF InsertArtifact, Place, AtWork, Steps
<1>2. /\ req[c].path \in Infos /\ req[c].version \in Nat
      /\ "artifact" \in EventTypes
  BY <1>1, ArgumentFields DEF TypeOK, Versioning, Inserting, Infos, EventTypes
<1> DEFINE e == Entry(c, "artifact", req[c].path, req[c].version)
<1>3. /\ e \in Entries /\ e.by = c /\ e.state = "open" /\ e.job = Job(c)
      /\ e.type = "artifact" /\ e.info = req[c].path /\ e.version = req[c].version
  BY <1>1, <1>2, NewEntry
<1>4. log' = Append(log, e)
  BY DEF InsertArtifact
<1> HIDE DEF e
<1>5. log' \in Seq(Entries) /\ Added(e)
  BY <1>3, <1>4, AppendAdds DEF TypeOK
<1>6. /\ pc' \in [Requests -> Steps] /\ \A d \in Requests : d # c => pc'[d] = pc[d]
      /\ pc'[c] = "toolCommit"
  BY DEF InsertArtifact, Goto, TypeOK, Steps
<1>7. TypeOK'
  BY <1>1, <1>5, <1>6 DEF TypeOK
<1>8. SameKey(c) = {}
  BY DEF InsertArtifact
<1>9. AddStep(c, e)
  BY <1>1, <1>3, <1>5, <1>6, <1>8 DEF AddStep, OnlyBy, Holds, SameTask
<1>. QED
  BY <1>7, <1>9

\* The calls and the outcome of a batch are updated.
LEMMA UpdateCalls ==
    ASSUME TypeOK, NEW c \in Requests, NEW calls \in Seq(Tools), NEW ok \in BOOLEAN, NEW r,
           r = [req[c] EXCEPT !.calls = calls, !.ok = ok], req' = [req EXCEPT ![c] = r]
    PROVE  /\ req' \in [Requests -> Arguments]
           /\ \A d \in Requests : d # c => req'[d] = req[d]
           /\ Holds(c)
<1>1. req[c] \in Arguments /\ req'[c] = r
  BY DEF TypeOK
<1>2. r \in Arguments
  BY <1>1 DEF Arguments
<1>3. Holds(c)
  BY <1>1 DEF Arguments, Holds, SameTask
<1>. QED
  BY <1>2, <1>3 DEF TypeOK

\* Runs and their outcomes, and events of tools.
Plain(c) == BeginRun(c) \/ RunDenied(c) \/ EndRun(c) \/ EmitVizEvent(c)

\* Runs and events of tools add an entry.
LEMMA PlainShape ==
    ASSUME TypeOK, NEW c \in Requests, Place(c), Plain(c)
    PROVE  TypeOK' /\ \E e : AddStep(c, e)
<1>1. /\ pc[c] \in {"tools", "sandbox"} /\ UNCHANGED <<status, write, raced>>
      /\ pc[c] = "tools" => req[c].calls # <<>>
  BY DEF Plain, BeginRun, RunDenied, EndRun, EmitVizEvent, Calling
<1>2. Job(c) \in Jobs
  BY <1>1 DEF Place, AtWork, Steps
<1>3. PICK t \in {"run", "viz"}, s \in Infos : Emit(c, t, s)
  BY VizTypesAssumption
  DEF Plain, BeginRun, RunDenied, EndRun, EmitVizEvent, Infos, Statuses, AllowedVizTypes,
      EventTypes
<1>4. PICK e \in Entries : /\ log' \in Seq(Entries) /\ Added(e)
                           /\ e.by = c /\ e.state = "open" /\ e.job = Job(c)
                           /\ e.type = t
  BY <1>2, <1>3, EmitAdds DEF TypeOK, EventTypes
<1>5. /\ pc' \in [Requests -> Steps] /\ \A d \in Requests : d # c => pc'[d] = pc[d]
      /\ pc'[c] \in {"runCommit", "toolCommit"}
  BY DEF Plain, BeginRun, RunDenied, EndRun, EmitVizEvent, Goto, TypeOK, Steps
<1>6. PICK calls \in Seq(Tools), ok \in BOOLEAN :
          req' = [req EXCEPT ![c] = [req[c] EXCEPT !.calls = calls, !.ok = ok]]
  <2>1. /\ req[c] \in Arguments /\ req[c].calls \in Seq(Tools) /\ req[c].ok \in BOOLEAN
        /\ pc[c] = "tools" => Tail(req[c].calls) \in Seq(Tools)
    BY <1>1, ArgumentFields DEF TypeOK
  <2>2. /\ req[c] = [req[c] EXCEPT !.calls = req[c].calls]
        /\ req[c] = [req[c] EXCEPT !.ok = req[c].ok]
    BY <2>1 DEF Arguments
  <2>3. CASE BeginRun(c) \/ EmitVizEvent(c)
    <3>1. /\ req' = [req EXCEPT ![c] = [req[c] EXCEPT !.calls = Tail(req[c].calls)]]
          /\ pc[c] = "tools"
      BY <2>3 DEF BeginRun, EmitVizEvent, Calling
    <3>2. [req[c] EXCEPT !.calls = Tail(req[c].calls)]
            = [req[c] EXCEPT !.calls = Tail(req[c].calls), !.ok = req[c].ok]
      BY <2>1 DEF Arguments
    <3>. QED
      BY <2>1, <3>1, <3>2
  <2>4. CASE RunDenied(c)
    <3>1. /\ req' = [req EXCEPT ![c] = [req[c] EXCEPT !.calls = Tail(req[c].calls), !.ok = FALSE]]
          /\ pc[c] = "tools"
      BY <2>4 DEF RunDenied, Calling
    <3>. QED
      BY <2>1, <3>1
  <2>5. CASE EndRun(c)
    <3>1. PICK ok \in BOOLEAN : req' = [req EXCEPT ![c] = [req[c] EXCEPT !.ok = ok]]
      <4>1. PICK s2 \in {"succeeded", "failed"} :
                req' = [req EXCEPT ![c].ok = @ /\ s2 = "succeeded"]
        BY <2>5 DEF EndRun
      <4>2. (req[c].ok /\ s2 = "succeeded") \in BOOLEAN
        OBVIOUS
      <4>. QED
        BY <4>1, <4>2
    <3>2. [req[c] EXCEPT !.ok = ok] = [req[c] EXCEPT !.calls = req[c].calls, !.ok = ok]
      BY <2>1 DEF Arguments
    <3>. QED
      BY <2>1, <3>1, <3>2
  <2>. QED
    BY <2>3, <2>4, <2>5 DEF Plain
<1>7. /\ req' \in [Requests -> Arguments]
      /\ \A d \in Requests : d # c => req'[d] = req[d]
      /\ Holds(c)
  BY <1>6, UpdateCalls
<1>8. TypeOK'
  BY <1>1, <1>4, <1>5, <1>7 DEF TypeOK
<1>9. AddStep(c, e)
  BY <1>1, <1>3, <1>4, <1>5, <1>7 DEF AddStep, OnlyBy, Holds, SameTask
<1>. QED
  BY <1>8, <1>9

\* An approval adds an entry.
LEMMA ApprovalShape ==
    ASSUME TypeOK, NEW c \in Requests, Place(c), EmitApproval(c)
    PROVE  TypeOK' /\ \E e : AddStep(c, e)
<1>1. Job(c) \in Jobs /\ pc[c] = "approve" /\ UNCHANGED <<req, status, write, raced>>
  BY DEF EmitApproval, Place, AtWork, Steps
<1>2. PICK e \in Entries : /\ log' \in Seq(Entries) /\ Added(e)
                           /\ e.by = c /\ e.state = "open" /\ e.job = Job(c)
                           /\ e.type = "cohesion.merge"
  <2>1. "cohesion.merge" \in EventTypes /\ log \in Seq(Entries)
    BY DEF EventTypes, TypeOK
  <2>2. PICK s \in Infos : Emit(c, "cohesion.merge", s)
    BY DEF EmitApproval, Infos
  <2>. QED
    BY <1>1, <2>1, <2>2, EmitAdds
<1>3. /\ pc' \in [Requests -> Steps] /\ \A d \in Requests : d # c => pc'[d] = pc[d]
      /\ pc'[c] = "approveCommit"
  BY DEF EmitApproval, Goto, TypeOK, Steps
<1>4. TypeOK'
  BY <1>1, <1>2, <1>3 DEF TypeOK
<1>5. AddStep(c, e)
  BY <1>1, <1>2, <1>3 DEF AddStep, OnlyBy, Holds, SameTask
<1>. QED
  BY <1>4, <1>5

\* A veto adds an entry and sets the verdict.
LEMMA VetoShape ==
    ASSUME TypeOK, NEW c \in Requests, Place(c), Veto(c)
    PROVE  TypeOK' /\ \E e : AddStep(c, e)
<1>1. Job(c) \in Jobs /\ pc[c] = "veto" /\ UNCHANGED <<status, write, raced>>
  BY DEF Veto, Place, AtWork, Steps
<1>2. PICK e \in Entries : /\ log' \in Seq(Entries) /\ Added(e)
                           /\ e.by = c /\ e.state = "open" /\ e.job = Job(c)
                           /\ e.type = "cohesion.veto"
  <2>1. "cohesion.veto" \in EventTypes /\ log \in Seq(Entries)
    BY DEF EventTypes, TypeOK
  <2>2. PICK s \in Infos : Emit(c, "cohesion.veto", s)
    BY DEF Veto, Infos
  <2>. QED
    BY <1>1, <2>1, <2>2, EmitAdds
<1>3. /\ pc' \in [Requests -> Steps] /\ \A d \in Requests : d # c => pc'[d] = pc[d]
      /\ pc'[c] = "settle"
  BY DEF Veto, Goto, TypeOK, Steps
<1>4. /\ req' \in [Requests -> Arguments]
      /\ \A d \in Requests : d # c => req'[d] = req[d]
      /\ SameTask(c) /\ req'[c].verdict = "failed"
  BY SetVerdict DEF Veto
<1>5. TypeOK'
  BY <1>1, <1>2, <1>3, <1>4 DEF TypeOK
<1>6. AddStep(c, e)
  BY <1>1, <1>2, <1>3, <1>4 DEF AddStep, OnlyBy, SameTask
<1>. QED
  BY <1>5, <1>6

\* The end of a family.
LEMMA FinishShape ==
    ASSUME TypeOK, NEW c \in Requests, Place(c), FinishPulse(c) \/ FinishConduct(c)
    PROVE  TypeOK' /\ \E e : AddStep(c, e)
<1>1. PICK kind \in Waves : FinishFamily(c, kind)
  BY DEF FinishPulse, FinishConduct, Waves
<1>2. /\ Job(c) \in Jobs /\ pc[c] = "finish" /\ UNCHANGED <<status, write, raced>>
      /\ req[c].wave > 0 /\ req[c] \in Arguments /\ req[c].wave \in Nat
  BY <1>1, ArgumentFields DEF FinishFamily, Place, AtWork, Steps, Kind, TypeOK
<1>3. PICK e \in Entries : /\ log' \in Seq(Entries) /\ Added(e)
                           /\ e.by = c /\ e.state = "open" /\ e.job = Job(c)
                           /\ e.type = "wave.finished"
  <2>1. "wave.finished" \in EventTypes /\ kind \in Infos
    BY <1>1 DEF EventTypes, Infos
  <2>2. Emit(c, "wave.finished", kind) /\ log \in Seq(Entries)
    BY <1>1 DEF FinishFamily, TypeOK
  <2>. QED
    BY <1>2, <2>1, <2>2, EmitAdds
<1>4. /\ pc' \in [Requests -> Steps] /\ \A d \in Requests : d # c => pc'[d] = pc[d]
      /\ pc'[c] = IF req[c].wave > 1 THEN "start" ELSE "close"
  BY <1>1 DEF FinishFamily, Goto, TypeOK, Steps
<1>5. /\ req'[c] = [req[c] EXCEPT !.wave = req[c].wave - 1]
      /\ \A d \in Requests : d # c => req'[d] = req[d]
  BY <1>1 DEF FinishFamily, TypeOK
<1>6. req[c].wave - 1 \in Nat
  BY <1>2
<1>7. req'[c] \in Arguments
  BY <1>2, <1>5, <1>6 DEF Arguments
<1>8. req' \in [Requests -> Arguments]
  BY <1>1, <1>7 DEF FinishFamily, TypeOK
<1>9. /\ req'[c].kind = req[c].kind /\ req'[c].job = req[c].job /\ req'[c].seen = req[c].seen
      /\ req'[c].wave = req[c].wave - 1
  BY <1>2, <1>5 DEF Arguments
<1>10. pc'[c] = "close" \/ (pc'[c] = "start" /\ req'[c].wave > 0)
  BY <1>2, <1>4, <1>9
<1>11. TypeOK'
  BY <1>2, <1>3, <1>4, <1>8 DEF TypeOK
<1>12. AddStep(c, e)
  BY <1>2, <1>3, <1>4, <1>5, <1>9, <1>10 DEF AddStep, OnlyBy
<1>. QED
  BY <1>11, <1>12

\* The step that starts a job.
StartStep(c, e) ==
    /\ OnlyBy(c)
    /\ status' = status /\ raced' = raced
    /\ e \in Entries /\ Added(e)
    /\ e.by = c /\ e.state = "open" /\ e.type = "job.started"
    /\ pc[c] = "start" /\ pc'[c] = "startCommit"
    /\ e.job \in FreshJobs /\ e.info \in Statuses
    /\ req'[c].kind = req[c].kind /\ req'[c].job = e.job /\ req'[c].wave = req[c].wave
    /\ write'[c][e.job] = e.info
    /\ \A j \in Jobs : j # e.job => write'[c][j] = write[c][j]

\* What start_job does.
LEMMA StartShape ==
    ASSUME TypeOK, NEW c \in Requests, NEW s \in Statuses, StartJob(c, s)
    PROVE  TypeOK' /\ \E e : StartStep(c, e)
<1> DEFINE j == CHOOSE j \in FreshJobs : \A k \in FreshJobs : j <= k
           e == [Entry(c, "job.started", s, 0) EXCEPT !.job = j]
<1>1. /\ pc[c] = "start" /\ FreshJobs # {}
      /\ req' = [req EXCEPT ![c].job = j, ![c].seen = s]
      /\ log' = Append(log, e)
      /\ write' = [write EXCEPT ![c][j] = s]
      /\ pc' = [pc EXCEPT ![c] = "startCommit"]
      /\ UNCHANGED <<status, raced>>
  BY DEF StartJob, Goto
<1>2. j \in FreshJobs
  <2>1. FreshJobs \subseteq Nat
    BY DEF FreshJobs, Jobs
  <2>2. PICK n \in FreshJobs : \A k \in FreshJobs : n <= k
    BY <1>1, <2>1, SmallestOf
  <2>. QED
    BY <2>2
<1>3. j \in Jobs
  BY <1>2 DEF FreshJobs
<1> HIDE DEF j
<1>4. /\ e \in Entries /\ e.by = c /\ e.state = "open" /\ e.type = "job.started"
      /\ e.job = j /\ e.info = s
  BY <1>3 DEF Entry, Entries, EventTypes, Infos
<1> HIDE DEF e
<1>5. log' \in Seq(Entries) /\ Added(e)
  BY <1>1, <1>4, AppendAdds DEF TypeOK
<1>6. /\ pc' \in [Requests -> Steps] /\ \A d \in Requests : d # c => pc'[d] = pc[d]
      /\ pc'[c] = "startCommit"
  BY <1>1 DEF TypeOK, Steps
<1>7. /\ req'[c] = [req[c] EXCEPT !.job = j, !.seen = s]
      /\ \A d \in Requests : d # c => req'[d] = req[d]
  BY <1>1 DEF TypeOK
<1>8. req'[c] \in Arguments
  <2>1. req[c] \in Arguments /\ j \in Jobs \cup {0}
    BY <1>3 DEF TypeOK
  <2>. QED
    BY <1>7, <2>1 DEF Arguments
<1>9. /\ req' \in [Requests -> Arguments]
      /\ req'[c].kind = req[c].kind /\ req'[c].job = j /\ req'[c].wave = req[c].wave
  BY <1>1, <1>7, <1>8 DEF TypeOK, Arguments
<1>10. /\ write'[c] = [write[c] EXCEPT ![j] = s]
       /\ \A d \in Requests : d # c => write'[d] = write[d]
  BY <1>1 DEF TypeOK
<1>11. /\ write'[c][j] = s
       /\ \A k \in Jobs : k # j => write'[c][k] = write[c][k]
       /\ write'[c] \in [Jobs -> Statuses \cup {Nothing, Touch}]
  BY <1>3, <1>10 DEF TypeOK
<1>12. write' \in [Requests -> [Jobs -> Statuses \cup {Nothing, Touch}]]
  BY <1>1, <1>11 DEF TypeOK
<1>13. TypeOK'
  BY <1>1, <1>5, <1>6, <1>9, <1>12 DEF TypeOK
<1>14. OnlyBy(c)
  BY <1>6, <1>7, <1>10 DEF OnlyBy
<1>15. StartStep(c, e)
  BY <1>1, <1>2, <1>4, <1>5, <1>6, <1>9, <1>11, <1>14 DEF StartStep
<1>. QED
  BY <1>13, <1>15

\* The step that completes or fails a job.
SettleStep(c, e) ==
    /\ OnlyBy(c)
    /\ status' = status /\ req' = req
    /\ e \in Entries /\ Added(e)
    /\ e.by = c /\ e.state = "open" /\ e.type = "job.completed"
    /\ e.job = Job(c) /\ e.info = req[c].verdict
    /\ pc[c] = "settle" /\ pc'[c] = "settleCommit"
    /\ RowFree(c)
    /\ write'[c][Job(c)] = IF req[c].seen = req[c].verdict THEN Touch ELSE req[c].verdict
    /\ \A j \in Jobs : j # Job(c) => write'[c][j] = write[c][j]
    /\ raced' = IF req[c].seen = Row(c) THEN raced ELSE raced \cup {Job(c)}

\* What set_job_status does.
LEMMA SettleShape ==
    ASSUME TypeOK, NEW c \in Requests, Place(c), SetJobStatus(c)
    PROVE  TypeOK' /\ \E e : SettleStep(c, e)
<1>1. /\ Job(c) \in Jobs /\ pc[c] = "settle" /\ UNCHANGED <<req, status>>
      /\ req[c].verdict \in {"completed", "failed"}
  BY DEF SetJobStatus, Place, AtWork, Steps
<1>2. /\ "job.completed" \in EventTypes /\ req[c].verdict \in Infos /\ req[c].verdict \in Statuses
      /\ log \in Seq(Entries)
  BY <1>1 DEF EventTypes, Infos, Statuses, TypeOK
<1>3. PICK e \in Entries : /\ log' \in Seq(Entries) /\ Added(e)
                           /\ e.by = c /\ e.state = "open" /\ e.job = Job(c)
                           /\ e.type = "job.completed" /\ e.info = req[c].verdict
  BY <1>1, <1>2, EmitAdds DEF SetJobStatus
<1>4. /\ pc' \in [Requests -> Steps] /\ \A d \in Requests : d # c => pc'[d] = pc[d]
      /\ pc'[c] = "settleCommit"
  BY DEF SetJobStatus, Goto, TypeOK, Steps
<1>5. Assign(c, req[c].verdict)
  BY DEF SetJobStatus
<1> DEFINE v == req[c].verdict
<1>6. /\ write' \in [Requests -> [Jobs -> Statuses \cup {Nothing, Touch}]]
      /\ raced' \subseteq Jobs
      /\ RowFree(c)
      /\ write'[c][Job(c)] = IF req[c].seen = v THEN Touch ELSE v
      /\ \A j \in Jobs : j # Job(c) => write'[c][j] = write[c][j]
      /\ \A d \in Requests : d # c => write'[d] = write[d]
      /\ raced' = IF req[c].seen = Row(c) THEN raced ELSE raced \cup {Job(c)}
  BY <1>1, <1>2, <1>5, AssignWrites
<1>7. TypeOK'
  BY <1>1, <1>3, <1>4, <1>6 DEF TypeOK
<1>8. SettleStep(c, e)
  BY <1>1, <1>3, <1>4, <1>6 DEF SettleStep, OnlyBy
<1>. QED
  BY <1>7, <1>8

\* The step that ends a request, with what is uncommitted.
LoseStep(c) ==
    /\ OnlyBy(c)
    /\ status' = status /\ raced' = raced
    /\ Ends(c, "lost")
    /\ write'[c] = NoWrite
    /\ pc[c] \notin {"idle", "done", "failed"}
    /\ \/ pc[c] = "close" /\ pc'[c] = "done"
       \/ pc[c] # "close" /\ pc'[c] = "failed"
    /\ req'[c].kind = req[c].kind /\ req'[c].job = 0

\* The arguments of a request that has ended.
LEMMA IdleArguments == Idle \in Arguments /\ Idle.kind = "none" /\ Idle.job = 0
<1>1. <<>> \in Seq(Tools)
  OBVIOUS
<1>. QED
  BY <1>1 DEF Idle, Arguments

\* What a request keeps when it is over.
LEMMA OverArguments ==
    ASSUME TypeOK, NEW c \in Requests
    PROVE  Over(c) \in Arguments /\ Over(c).kind = req[c].kind /\ Over(c).job = 0
<1>1. req[c].kind \in NewJobKinds \cup JobKinds \cup {"none"}
  BY ArgumentFields DEF TypeOK
<1>. QED
  BY <1>1, IdleArguments DEF Over, Arguments

\* No uncommitted writes.
LEMMA NoWriteType ==
    /\ NoWrite \in [Jobs -> Statuses \cup {Nothing, Touch}]
    /\ \A j \in Jobs : NoWrite[j] = Nothing
  BY DEF NoWrite

\* Conflicts, failures and the end of a wave lose the transaction.
LEMMA LoseShape ==
    ASSUME TypeOK, NEW c \in Requests, Conflict(c) \/ CloseWave(c) \/ Fail(c)
    PROVE  TypeOK' /\ LoseStep(c)
<1>1. PICK end \in {"done", "failed"} :
          /\ Lose(c, end) /\ pc[c] \notin {"idle", "done", "failed"}
          /\ (pc[c] = "close") = (end = "done")
  BY DEF Conflict, CloseWave, Fail
<1>2. /\ log' = Ended(c, "lost")
      /\ write' = [write EXCEPT ![c] = NoWrite]
      /\ pc' = [pc EXCEPT ![c] = end]
      /\ req' = [req EXCEPT ![c] = Over(c)]
      /\ UNCHANGED <<status, raced>>
  BY <1>1 DEF Lose, Goto
<1>3. log' \in Seq(Entries) /\ Ends(c, "lost")
  BY <1>2, EndedEnds DEF TypeOK
<1>4. /\ write' \in [Requests -> [Jobs -> Statuses \cup {Nothing, Touch}]]
      /\ write'[c] = NoWrite /\ \A d \in Requests : d # c => write'[d] = write[d]
  BY <1>2, NoWriteType DEF TypeOK
<1>5. /\ pc' \in [Requests -> Steps] /\ pc'[c] = end
      /\ \A d \in Requests : d # c => pc'[d] = pc[d]
  BY <1>2 DEF TypeOK, Steps
<1>6. /\ req' \in [Requests -> Arguments] /\ req'[c] = Over(c)
      /\ \A d \in Requests : d # c => req'[d] = req[d]
  BY <1>2, OverArguments DEF TypeOK
<1>7. TypeOK'
  BY <1>2, <1>3, <1>4, <1>5, <1>6 DEF TypeOK
<1>8. OnlyBy(c) /\ req'[c].kind = req[c].kind /\ req'[c].job = 0
  BY <1>4, <1>5, <1>6, OverArguments DEF OnlyBy
<1>. QED
  BY <1>1, <1>2, <1>3, <1>4, <1>5, <1>7, <1>8 DEF LoseStep

\* Steps that commit.
CommitStep(c) ==
    /\ OnlyBy(c)
    /\ raced' = raced
    /\ Ends(c, "committed")
    /\ \A j \in Jobs : status'[j] = IF write[c][j] \in Statuses THEN write[c][j] ELSE status[j]
    /\ write'[c] = NoWrite
    /\ pc[c] \in {"startCommit", "toolCommit", "runCommit", "tools", "approveCommit",
                  "settleCommit"}
    /\ \/ /\ pc'[c] = "done"
          /\ Kind(c) \notin Waves /\ req'[c].kind = req[c].kind
          /\ req'[c].job = 0
          /\ pc[c] \in {"startCommit", "tools", "settleCommit"}
       \/ /\ pc[c] = "startCommit" /\ pc'[c] = "announce"
          /\ Kind(c) \in Waves /\ Holds(c)
       \/ /\ pc[c] = "startCommit" /\ pc'[c] = "batch"
          /\ Kind(c) \notin Waves /\ Holds(c)
       \/ /\ pc[c] \in {"toolCommit", "runCommit", "tools"}
          /\ pc'[c] \in {"tools", "sandbox", "decide", "merge"}
          /\ Holds(c)
       \/ /\ pc[c] \in {"tools", "approveCommit"} /\ pc'[c] = "settle"
          /\ SameTask(c) /\ req'[c].verdict \in {"completed", "failed"}
          /\ pc[c] = "approveCommit" => Right(c, req'[c].verdict)
       \/ /\ pc[c] = "settleCommit" /\ pc'[c] = "finish"
          /\ Kind(c) \in Waves /\ Holds(c)
       \/ /\ pc[c] = "settleCommit" /\ pc'[c] = "start"
          /\ Kind(c) \in NewJobKinds \ Waves /\ req'[c].kind = req[c].kind
          /\ req'[c].job = req[c].job

\* How a request goes on: as it was, or with a verdict.
GoesOn(c) ==
    /\ req' \in [Requests -> Arguments]
    /\ \A d \in Requests : d # c => req'[d] = req[d]
    /\ Holds(c)

GoesToSettle(c) ==
    /\ req' \in [Requests -> Arguments]
    /\ \A d \in Requests : d # c => req'[d] = req[d]
    /\ SameTask(c) /\ req'[c].verdict \in {"completed", "failed"}

\* A request whose job is forgotten goes on.
LEMMA ForgetGoesOn ==
    ASSUME TypeOK, NEW c \in Requests, Forget(c) \/ req' = req
    PROVE  GoesOn(c)
<1>1. CASE Forget(c)
  <2>1. /\ req'[c] = [req[c] EXCEPT !.seen = Absent]
        /\ \A d \in Requests : d # c => req'[d] = req[d]
    BY <1>1 DEF TypeOK, Forget
  <2>2. req[c] \in Arguments
    BY DEF TypeOK
  <2>3. req'[c] \in Arguments
    BY <2>1, <2>2 DEF Arguments
  <2>4. Holds(c)
    BY <2>1, <2>2 DEF Arguments, Holds, SameTask
  <2>5. req' \in [Requests -> Arguments]
    BY <1>1, <2>3 DEF TypeOK, Forget
  <2>. QED
    BY <2>1, <2>4, <2>5 DEF GoesOn
<1>2. CASE req' = req
  BY <1>2 DEF TypeOK, GoesOn, Holds, SameTask
<1>. QED
  BY <1>1, <1>2

\* What a commit does, apart from where the request goes on.
Committed(c) ==
    /\ \A d \in Requests : d # c => write'[d] = write[d]
    /\ Ends(c, "committed")
    /\ \A j \in Jobs : status'[j] = IF write[c][j] \in Statuses THEN write[c][j] ELSE status[j]
    /\ write'[c] = NoWrite
    /\ log' \in Seq(Entries)
    /\ status' \in [Jobs -> Statuses \cup {Absent}]
    /\ write' \in [Requests -> [Jobs -> Statuses \cup {Nothing, Touch}]]

\* What a commit does.
LEMMA CommitCommits ==
    ASSUME TypeOK, NEW c \in Requests, Commit(c)
    PROVE  Committed(c)
<1>1. /\ log' = Ended(c, "committed")
      /\ status' = [j \in Jobs |-> IF write[c][j] \in Statuses THEN write[c][j] ELSE status[j]]
      /\ write' = [write EXCEPT ![c] = NoWrite]
  BY DEF Commit
<1>2. log' \in Seq(Entries) /\ Ends(c, "committed")
  BY <1>1, EndedEnds DEF TypeOK
<1>3. /\ write' \in [Requests -> [Jobs -> Statuses \cup {Nothing, Touch}]]
      /\ write'[c] = NoWrite /\ \A d \in Requests : d # c => write'[d] = write[d]
  BY <1>1, NoWriteType DEF TypeOK
<1>4. /\ status' \in [Jobs -> Statuses \cup {Absent}]
      /\ \A j \in Jobs : status'[j] = IF write[c][j] \in Statuses THEN write[c][j] ELSE status[j]
  BY <1>1 DEF TypeOK
<1>. QED
  BY <1>2, <1>3, <1>4 DEF Committed

\* A request that commits goes on in one of these ways.
LEMMA CommitOnward ==
    ASSUME TypeOK, NEW c \in Requests, Committed(c), raced' = raced,
           pc[c] \in {"startCommit", "toolCommit", "runCommit", "tools", "approveCommit",
                      "settleCommit"},
           NEW to \in Steps, pc' = [pc EXCEPT ![c] = to],
           \/ /\ to = "done" /\ Kind(c) \notin Waves
              /\ pc[c] \in {"startCommit", "tools", "settleCommit"}
              /\ req' = [req EXCEPT ![c] = Over(c)]
           \/ /\ pc[c] = "startCommit" /\ to = "announce" /\ Kind(c) \in Waves
              /\ GoesOn(c)
           \/ /\ pc[c] = "startCommit" /\ to = "batch" /\ Kind(c) \notin Waves
              /\ GoesOn(c)
           \/ /\ pc[c] \in {"toolCommit", "runCommit", "tools"}
              /\ to \in {"tools", "sandbox", "decide", "merge"}
              /\ GoesOn(c)
           \/ /\ pc[c] \in {"tools", "approveCommit"} /\ to = "settle"
              /\ GoesToSettle(c)
              /\ pc[c] = "approveCommit" => Right(c, req'[c].verdict)
           \/ /\ pc[c] = "settleCommit" /\ to = "finish" /\ Kind(c) \in Waves
              /\ GoesOn(c)
           \/ /\ pc[c] = "settleCommit" /\ to = "start" /\ Kind(c) \in NewJobKinds \ Waves
              /\ req[c].wave > 1
              /\ req' = [req EXCEPT ![c].wave = req[c].wave - 1]
    PROVE  TypeOK' /\ CommitStep(c)
<1>1. /\ pc' \in [Requests -> Steps] /\ pc'[c] = to
      /\ \A d \in Requests : d # c => pc'[d] = pc[d]
  BY DEF TypeOK
<1>2. SUFFICES /\ req' \in [Requests -> Arguments]
               /\ \A d \in Requests : d # c => req'[d] = req[d]
               /\ \/ /\ to = "done" /\ Kind(c) \notin Waves
                     /\ pc[c] \in {"startCommit", "tools", "settleCommit"}
                     /\ req'[c].kind = req[c].kind /\ req'[c].job = 0
                  \/ /\ pc[c] = "startCommit" /\ to = "announce" /\ Kind(c) \in Waves
                     /\ Holds(c)
                  \/ /\ pc[c] = "startCommit" /\ to = "batch" /\ Kind(c) \notin Waves
                     /\ Holds(c)
                  \/ /\ pc[c] \in {"toolCommit", "runCommit", "tools"}
                     /\ to \in {"tools", "sandbox", "decide", "merge"}
                     /\ Holds(c)
                  \/ /\ pc[c] \in {"tools", "approveCommit"} /\ to = "settle"
                     /\ SameTask(c) /\ req'[c].verdict \in {"completed", "failed"}
                     /\ pc[c] = "approveCommit" => Right(c, req'[c].verdict)
                  \/ /\ pc[c] = "settleCommit" /\ to = "finish" /\ Kind(c) \in Waves
                     /\ Holds(c)
                  \/ /\ pc[c] = "settleCommit" /\ to = "start"
                     /\ Kind(c) \in NewJobKinds \ Waves
                     /\ req'[c].kind = req[c].kind /\ req'[c].job = req[c].job
  <2>1. TypeOK'
    BY <1>1, <1>2 DEF Committed, TypeOK
  <2>2. OnlyBy(c)
    BY <1>1, <1>2 DEF Committed, OnlyBy
  <2>3. CommitStep(c)
    BY <1>1, <1>2, <2>2 DEF Committed, CommitStep
  <2>. QED
    BY <2>1, <2>3
<1>3. CASE /\ to = "done" /\ Kind(c) \notin Waves
           /\ pc[c] \in {"startCommit", "tools", "settleCommit"}
           /\ req' = [req EXCEPT ![c] = Over(c)]
  BY <1>3, OverArguments DEF TypeOK
<1>4. CASE \/ /\ pc[c] = "startCommit" /\ to = "announce" /\ Kind(c) \in Waves
              /\ GoesOn(c)
           \/ /\ pc[c] = "startCommit" /\ to = "batch" /\ Kind(c) \notin Waves
              /\ GoesOn(c)
           \/ /\ pc[c] \in {"toolCommit", "runCommit", "tools"}
              /\ to \in {"tools", "sandbox", "decide", "merge"}
              /\ GoesOn(c)
           \/ /\ pc[c] = "settleCommit" /\ to = "finish" /\ Kind(c) \in Waves
              /\ GoesOn(c)
  BY <1>4 DEF GoesOn
<1>6. CASE /\ pc[c] \in {"tools", "approveCommit"} /\ to = "settle"
           /\ GoesToSettle(c)
           /\ pc[c] = "approveCommit" => Right(c, req'[c].verdict)
  BY <1>6 DEF GoesToSettle
<1>5. CASE /\ pc[c] = "settleCommit" /\ to = "start" /\ Kind(c) \in NewJobKinds \ Waves
           /\ req[c].wave > 1
           /\ req' = [req EXCEPT ![c].wave = req[c].wave - 1]
  <2>1. req[c] \in Arguments /\ req[c].wave \in Nat
    BY ArgumentFields DEF TypeOK
  <2>2. req[c].wave - 1 \in Nat
    BY <1>5, <2>1
  <2>3. /\ req'[c] = [req[c] EXCEPT !.wave = req[c].wave - 1]
        /\ \A d \in Requests : d # c => req'[d] = req[d]
    BY <1>5 DEF TypeOK
  <2>4. req'[c] \in Arguments /\ req'[c].kind = req[c].kind /\ req'[c].job = req[c].job
    BY <2>1, <2>2, <2>3 DEF Arguments
  <2>5. req' \in [Requests -> Arguments]
    BY <1>5, <2>4 DEF TypeOK
  <2>. QED
    BY <1>5, <2>3, <2>4, <2>5
<1>. QED
  BY <1>3, <1>4, <1>5, <1>6

\* A request whose verdict is set goes on to settle.
LEMMA VerdictGoesToSettle ==
    ASSUME TypeOK, NEW c \in Requests, NEW v \in {"completed", "failed"},
           NEW s \in {req[c].seen, Absent},
           req' = [req EXCEPT ![c].verdict = v, ![c].seen = s]
    PROVE  GoesToSettle(c) /\ req'[c].verdict = v
  BY SetVerdict DEF GoesToSettle

\* The five commits of a request.
LEMMA CommitShape ==
    ASSUME TypeOK, NEW c \in Requests, Place(c),
           \/ CommitStart(c) \/ CommitTool(c) \/ EndBatch(c) \/ CommitApproval(c)
           \/ CommitStatus(c)
    PROVE  TypeOK' /\ CommitStep(c)
<1>1. Committed(c) /\ raced' = raced
  <2>1. Commit(c) /\ raced' = raced
    BY DEF CommitStart, CommitTool, EndBatch, CommitApproval, CommitStatus
  <2>. QED
    BY <2>1, CommitCommits
<1>2. CASE CommitStart(c)
  <2>1. pc[c] = "startCommit" /\ Kind(c) \in NewJobKinds
    BY <1>2 DEF CommitStart, Place
  <2>2. \/ /\ Kind(c) = "start" /\ pc' = [pc EXCEPT ![c] = "done"]
           /\ req' = [req EXCEPT ![c] = Over(c)]
        \/ Kind(c) \in Waves /\ pc' = [pc EXCEPT ![c] = "announce"] /\ Forget(c)
        \/ /\ Kind(c) \in {"demo", "probe"} /\ pc' = [pc EXCEPT ![c] = "batch"]
           /\ Forget(c)
    BY <1>2, <2>1 DEF CommitStart, Goto, Kind, NewJobKinds, Waves
  <2>. QED
    BY <1>1, <2>1, <2>2, ForgetGoesOn, CommitOnward DEF Steps, Waves
<1>3. CASE CommitTool(c)
  <2>1. \/ pc[c] = "runCommit" /\ pc' = [pc EXCEPT ![c] = "sandbox"] /\ req' = req
        \/ pc[c] = "toolCommit" /\ pc' = [pc EXCEPT ![c] = "tools"] /\ req' = req
    BY <1>3 DEF CommitTool, Goto
  <2>. QED
    BY <1>1, <2>1, ForgetGoesOn, CommitOnward DEF Steps
<1>4. CASE EndBatch(c)
  <2>1. pc[c] = "tools"
    BY <1>4 DEF EndBatch
  <2>2. \/ /\ Kind(c) \in {"execute", "invoke"} /\ pc' = [pc EXCEPT ![c] = "done"]
           /\ req' = [req EXCEPT ![c] = Over(c)]
        \/ /\ pc' = [pc EXCEPT ![c] = "settle"]
           /\ \E v \in {"completed", "failed"} :
                 req' = [req EXCEPT ![c].verdict = v, ![c].seen = Absent]
        \/ /\ \E to \in {"decide", "merge"} : pc' = [pc EXCEPT ![c] = to]
           /\ Forget(c)
    BY <1>4 DEF EndBatch, Goto, Kind
  <2>3. CASE /\ pc' = [pc EXCEPT ![c] = "settle"]
             /\ \E v \in {"completed", "failed"} :
                   req' = [req EXCEPT ![c].verdict = v, ![c].seen = Absent]
    <3>1. GoesToSettle(c)
      BY <2>3, VerdictGoesToSettle
    <3>. QED
      BY <1>1, <2>1, <2>3, <3>1, CommitOnward DEF Steps
  <2>4. CASE /\ \E to \in {"decide", "merge"} : pc' = [pc EXCEPT ![c] = to]
             /\ Forget(c)
    BY <1>1, <2>1, <2>4, ForgetGoesOn, CommitOnward DEF Steps
  <2>5. CASE /\ Kind(c) \in {"execute", "invoke"} /\ pc' = [pc EXCEPT ![c] = "done"]
             /\ req' = [req EXCEPT ![c] = Over(c)]
    BY <1>1, <2>1, <2>5, CommitOnward DEF Steps, Waves
  <2>. QED
    BY <2>2, <2>3, <2>4, <2>5
<1>5. CASE CommitApproval(c)
  <2>1. pc[c] = "approveCommit" /\ pc' = [pc EXCEPT ![c] = "settle"]
    BY <1>5 DEF CommitApproval, Goto
  <2>2. PICK v \in {"completed", "failed"}, s \in {req[c].seen, Absent} :
            /\ req' = [req EXCEPT ![c].verdict = v, ![c].seen = s]
            /\ v = "failed" => Kind(c) = "demo"
    <3>1. PICK v \in {"completed", "failed"}, s \in {req[c].seen, Absent} :
              /\ v = IF req[c].kind = "demo" /\ ~Demoed(c) THEN "failed" ELSE "completed"
              /\ s = IF req[c].kind = "demo" THEN Absent ELSE req[c].seen
      OBVIOUS
    <3>2. req' = [req EXCEPT ![c].verdict = v, ![c].seen = s]
      BY <1>5, <3>1 DEF CommitApproval
    <3>. QED
      BY <3>1, <3>2 DEF Kind
  <2>3. GoesToSettle(c) /\ req'[c].verdict = v
    BY <2>2, VerdictGoesToSettle
  <2>4. Right(c, req'[c].verdict)
    BY <2>2, <2>3 DEF Right
  <2>. QED
    BY <1>1, <2>1, <2>3, <2>4, CommitOnward DEF Steps
<1>6. CASE CommitStatus(c)
  <2>1. pc[c] = "settleCommit"
    BY <1>6 DEF CommitStatus
  <2>2. \/ Kind(c) \in Waves /\ pc' = [pc EXCEPT ![c] = "finish"] /\ req' = req
        \/ /\ Kind(c) = "probe" /\ req[c].wave > 1 /\ pc' = [pc EXCEPT ![c] = "start"]
           /\ req' = [req EXCEPT ![c].wave = req[c].wave - 1]
        \/ /\ Kind(c) \notin Waves /\ pc' = [pc EXCEPT ![c] = "done"]
           /\ req' = [req EXCEPT ![c] = Over(c)]
    BY <1>6 DEF CommitStatus, Goto, Kind, Waves
  <2>3. "probe" \in NewJobKinds \ Waves
    BY DEF NewJobKinds, Waves
  <2>. QED
    BY <1>1, <2>1, <2>2, <2>3, ForgetGoesOn, CommitOnward DEF Steps
<1>. QED
  BY <1>2, <1>3, <1>4, <1>5, <1>6

\* Every step of a request is of one of these kinds.
AnyStep(c) ==
    \/ QuietStep(c) \/ MarkStep(c) \/ (\E e : AddStep(c, e))
    \/ (\E e : StartStep(c, e)) \/ (\E e : SettleStep(c, e))
    \/ CommitStep(c) \/ LoseStep(c)

\* The actions of a request are such steps, and keep the types.
LEMMA StepKinds ==
    ASSUME TypeOK, Versioning, NEW c \in Requests, Place(c), Request(c) \/ Work(c) \/ Fail(c)
    PROVE  TypeOK' /\ AnyStep(c)
<1>1. CASE \E j \in Jobs : Open(c, j)
  BY <1>1, OpenShape DEF AnyStep
<1>2. CASE OpenStart(c) \/ OpenDemo(c) \/ OpenProbe(c) \/ OpenPulse(c) \/ OpenConduct(c)
  <2>1. /\ Kind(c) \in NewJobKinds
        /\ \E n \in Nat \ {0}, mode \in {Nothing, "auto", "complete", "leave"} :
              OpenNew(c, n, mode)
    BY <1>2, BoundsAssumption
    DEF OpenStart, OpenDemo, OpenProbe, OpenPulse, OpenConduct, Kind, NewJobKinds, Waves
  <2>. QED
    BY <2>1, OpenNewShape DEF AnyStep
<1>3. CASE \E s \in Statuses : StartJob(c, s)
  BY <1>3, StartShape DEF AnyStep
<1>4. CASE \E p \in Paths : ReadVersion(c, p)
  BY <1>4, ReadVersionShape DEF AnyStep
<1>5. CASE ToolDenied(c)
  BY <1>5, ToolDeniedShape DEF AnyStep
<1>6. CASE TeamFails(c)
  BY <1>6, TeamFailsShape DEF AnyStep
<1>7. CASE DecidePulse(c) \/ DecideConduct(c)
  BY <1>7, DecideShape DEF AnyStep
<1>8. CASE BeginBatch(c) \/ Approve(c)
  BY <1>8, MarkShape DEF AnyStep
<1>9. CASE Announce(c)
  BY <1>9, AnnounceShape DEF AnyStep
<1>10. CASE InsertArtifact(c)
  BY <1>10, InsertShape DEF AnyStep
<1>11. CASE BeginRun(c) \/ RunDenied(c) \/ EndRun(c) \/ EmitVizEvent(c)
  BY <1>11, PlainShape DEF AnyStep, Plain
<1>12. CASE EmitApproval(c)
  BY <1>12, ApprovalShape DEF AnyStep
<1>13. CASE Veto(c)
  BY <1>13, VetoShape DEF AnyStep
<1>14. CASE FinishPulse(c) \/ FinishConduct(c)
  BY <1>14, FinishShape DEF AnyStep
<1>15. CASE SetJobStatus(c)
  BY <1>15, SettleShape DEF AnyStep
<1>16. CASE CommitStart(c) \/ CommitTool(c) \/ EndBatch(c) \/ CommitApproval(c) \/ CommitStatus(c)
  BY <1>16, CommitShape DEF AnyStep
<1>17. CASE Conflict(c) \/ CloseWave(c) \/ Fail(c)
  BY <1>17, LoseShape DEF AnyStep
<1>18. CASE LoadJob(c)
  BY <1>18, LoadShape DEF AnyStep
<1>. QED
  BY <1>1, <1>2, <1>3, <1>4, <1>5, <1>6, <1>7, <1>8, <1>9, <1>10, <1>11, <1>12, <1>13, <1>14,
     <1>15, <1>16, <1>17, <1>18 DEF Request, Work

-----------------------------------------------------------------------------
(* The stream.                                                             *)

SentOf(L) == {0} \cup {i \in DOMAIN L : L[i].state = "sent"}

\* The cursor is the last entry that was sent.
LEMMA SentMax ==
    ASSUME NEW L \in Seq(Entries)
    PROVE  /\ Max(SentOf(L)) \in SentOf(L) /\ SentOf(L) \subseteq Nat
           /\ \A x \in SentOf(L) : x <= Max(SentOf(L))
<1>1. Len(L) \in Nat /\ \A i \in DOMAIN L : i \in Nat /\ i <= Len(L)
  BY Positions
<1>2. SentOf(L) \subseteq Nat /\ SentOf(L) # {} /\ \A x \in SentOf(L) : x <= Len(L)
  BY <1>1 DEF SentOf
<1>. QED
  BY <1>1, <1>2, MaxOf

\* Only a poll sends.
LEMMA OthersSendNothing ==
    ASSUME TypeOK, NEW c \in Requests, AnyStep(c)
    PROVE  SentOf(log') = SentOf(log)
<1>1. CASE QuietStep(c) \/ MarkStep(c)
  BY <1>1 DEF QuietStep, MarkStep
<1>2. CASE (\E e : AddStep(c, e)) \/ (\E e : StartStep(c, e)) \/ (\E e : SettleStep(c, e))
  <2>1. PICK e : Added(e) /\ e.state = "open"
    BY <1>2 DEF AddStep, StartStep, SettleStep
  <2>. QED
    BY <2>1 DEF Added, SentOf
<1>3. CASE CommitStep(c) \/ LoseStep(c)
  <2>1. PICK s \in {"committed", "lost"} : Ends(c, s)
    BY <1>3 DEF CommitStep, LoseStep
  <2>. QED
    BY <2>1 DEF Ends, SameRows, IsOpen, SentOf
<1>. QED
  BY <1>1, <1>2, <1>3 DEF AnyStep

\* A page has every unread entry up to its last one.
LEMMA PageIsInitial ==
    ASSUME TypeOK, NEW m \in Page, NEW i \in Unread, i <= m
    PROVE  i \in Page
<1> DEFINE Before(n) == {k \in Unread : k < n}
<1>1. IsFiniteSet(Unread) /\ Unread \subseteq Nat
  <2>1. Unread \subseteq DOMAIN log
    BY DEF Unread
  <2>. QED
    BY <2>1, Positions, FS_Subset DEF TypeOK
<1>2. /\ m \in Unread /\ Cardinality(Before(m)) < PageSize
      /\ Cardinality(Before(i)) < PageSize => i \in Page
  BY DEF Page
<1>3. IsFiniteSet(Before(m)) /\ IsFiniteSet(Before(i))
  BY <1>1, FS_Subset
<1>4. Before(i) \subseteq Before(m)
  <2>1. i \in Nat /\ m \in Nat
    BY <1>1, <1>2
  <2>2. ASSUME NEW k \in Unread, k < i
        PROVE  k < m
    <3>1. k \in Nat
      BY <1>1
    <3>. QED
      BY <2>1, <2>2, <3>1
  <2>. QED
    BY <2>2
<1>5. /\ Cardinality(Before(i)) <= Cardinality(Before(m))
      /\ Cardinality(Before(i)) \in Nat /\ Cardinality(Before(m)) \in Nat
  BY <1>3, <1>4, FS_Subset, FS_CardinalityType
<1>. QED
  BY <1>2, <1>5, BoundsAssumption

\* The cursor passes an unread entry only by sending it.
LEMMA StreamStep ==
    ASSUME TypeOK, Versioning, \A c \in Requests : Place(c), Next, NEW i \in Unread, i <= Cursor'
    PROVE  log'[i].state = "sent"
<1>1. Cursor = Max(SentOf(log)) /\ Cursor' = Max(SentOf(log'))
  BY DEF Cursor, SentOf
<1>2. i \in DOMAIN log /\ i > Cursor /\ log \in Seq(Entries)
  BY DEF Unread, TypeOK
<1>3. i \in Nat /\ Cursor \in Nat
  BY <1>1, <1>2, Positions, SentMax
<1>4. CASE Poll
  <2>1. /\ log' \in Seq(Entries) /\ DOMAIN log' = DOMAIN log
        /\ \A k \in DOMAIN log : k \notin Page => log'[k].state = log[k].state
        /\ \A k \in Page : log'[k].state = "sent"
    BY <1>2, <1>4, PollKeeps DEF SameView, SameRows
  <2>2. Cursor' \in SentOf(log') /\ Cursor' \in Nat
    BY <1>1, <2>1, SentMax
  <2>3. Cursor' \notin SentOf(log)
    <3>1. \A x \in SentOf(log) : x <= Cursor /\ x \in Nat
      BY <1>1, <1>2, SentMax
    <3>. QED
      BY <1>2, <1>3, <2>2, <3>1
  <2>4. Cursor' \in Page
    BY <2>1, <2>2, <2>3 DEF SentOf
  <2>5. i \in Page
    BY <2>4, PageIsInitial
  <2>. QED
    BY <2>1, <2>5
<1>5. CASE \E c \in Requests : Request(c) \/ Work(c) \/ Fail(c)
  <2>1. SentOf(log') = SentOf(log)
    BY <1>5, StepKinds, OthersSendNothing
  <2>2. Cursor' = Cursor
    BY <1>1, <2>1
  <2>. QED
    BY <1>2, <1>3, <2>2
<1>. QED
  BY <1>4, <1>5 DEF Next

-----------------------------------------------------------------------------
(* Versions of a path.                                                     *)

\* No step takes a visible entry back.
Kept ==
    \A i \in DOMAIN log :
        /\ i \in DOMAIN log'
        /\ log'[i].type = log[i].type /\ log'[i].job = log[i].job
        /\ log'[i].info = log[i].info /\ log'[i].version = log[i].version
        /\ log'[i].by = log[i].by
        /\ Visible(log[i]) => Visible(log'[i])

\* Steps of requests take nothing back.
LEMMA VisibleStays ==
    ASSUME NEW c \in Requests, AnyStep(c)
    PROVE  Kept
<1>1. CASE QuietStep(c) \/ MarkStep(c)
  BY <1>1 DEF QuietStep, MarkStep, Kept
<1>2. CASE (\E e : AddStep(c, e)) \/ (\E e : StartStep(c, e)) \/ (\E e : SettleStep(c, e))
  <2>1. PICK e : Added(e)
    BY <1>2 DEF AddStep, StartStep, SettleStep
  <2>. QED
    BY <2>1 DEF Added, Kept
<1>3. CASE CommitStep(c) \/ LoseStep(c)
  <2>1. PICK s \in {"committed", "lost"} : Ends(c, s)
    BY <1>3 DEF CommitStep, LoseStep
  <2>. QED
    BY <2>1 DEF Ends, SameRows, IsOpen, Kept, Visible
<1>. QED
  BY <1>1, <1>2, <1>3 DEF AnyStep

\* Versions stay in order where the rows of a path do not change.
LEMMA OrderStays ==
    ASSUME NEW j, NEW p, InOrder(j, p), Rows(j, p)' = Rows(j, p),
           \A i \in Rows(j, p) : /\ log'[i].version = log[i].version
                                 /\ log'[i].state = "open" => log[i].state = "open"
    PROVE  InOrder(j, p)'
  BY DEF InOrder, Reached

\* Versions stay in order in a poll.
LEMMA OrderSameView ==
    ASSUME NEW j, NEW p, InOrder(j, p), SameView
    PROVE  InOrder(j, p)'
<1>1. Rows(j, p)' = Rows(j, p)
  BY DEF SameView, SameRows, Rows, Live
<1>2. \A i \in Rows(j, p) : /\ log'[i].version = log[i].version
                            /\ log'[i].state = "open" => log[i].state = "open"
  BY DEF SameView, SameRows, Rows
<1>. QED
  BY <1>1, <1>2, OrderStays

\* Versions stay in order in a commit.
LEMMA OrderCommit ==
    ASSUME NEW j, NEW p, NEW c, InOrder(j, p), Ends(c, "committed")
    PROVE  InOrder(j, p)'
<1>1. Rows(j, p)' = Rows(j, p)
  BY DEF Ends, SameRows, Rows, Live, IsOpen
<1>2. \A i \in Rows(j, p) : /\ log'[i].version = log[i].version
                            /\ log'[i].state = "open" => log[i].state = "open"
  BY DEF Ends, SameRows, Rows, IsOpen
<1>. QED
  BY <1>1, <1>2, OrderStays

\* A row that is lost is the last one of its path.
LEMMA OrderLose ==
    ASSUME NEW j, NEW p, NEW c, TypeOK, InOrder(j, p), Ends(c, "lost")
    PROVE  InOrder(j, p)'
<1>1. /\ Rows(j, p)' = {i \in Rows(j, p) : ~IsOpen(c, log[i])}
      /\ \A i \in Rows(j, p)' : /\ log'[i].version = log[i].version
                                /\ log'[i].state = log[i].state
  BY DEF Ends, SameRows, Rows, Live, IsOpen
<1>2. \A i \in Rows(j, p) : i \in Nat /\ log[i].version \in Nat
  BY Positions, EntryFields DEF Rows, TypeOK
<1>3. ASSUME NEW i \in Rows(j, p)', NEW v \in 1..log[i].version
      PROVE  \E k \in Rows(j, p)' : log'[k].version = v
  <2>1. i \in Rows(j, p)
    BY <1>1
  <2>2. PICK k \in Rows(j, p) : log[k].version = v
    BY <2>1 DEF InOrder, Reached
  <2>3. CASE IsOpen(c, log[k])
    <3>1. i <= k
      BY <2>1, <2>2, <2>3 DEF InOrder, IsOpen
    <3>2. i # k
      BY <1>1, <2>3
    <3>3. i < k => log[i].version < log[k].version
      BY <2>1, <2>2 DEF InOrder
    <3>4. i \in Nat /\ k \in Nat /\ log[i].version \in Nat
      BY <1>2, <2>1, <2>2
    <3>. QED
      BY <2>2, <3>1, <3>2, <3>3, <3>4
  <2>4. CASE ~IsOpen(c, log[k])
    BY <1>1, <2>2, <2>4
  <2>. QED
    BY <2>3, <2>4
<1>4. ASSUME NEW i \in Rows(j, p)'
      PROVE  /\ log'[i].version > 0
             /\ \A k \in Rows(j, p)' : i < k => log'[i].version < log'[k].version
             /\ log'[i].state = "open" => \A k \in Rows(j, p)' : k <= i
  BY <1>1 DEF InOrder
<1>. QED
  BY <1>1, <1>3, <1>4 DEF InOrder, Reached

\* A new version is the next one.
LEMMA OrderInsert ==
    ASSUME TypeOK, Versioning, NEW c \in Requests, NEW j \in Jobs, NEW p \in Paths,
           Job(c) = j, req[c].path = p, pc[c] = "insert", SameKey(c) = {},
           NEW e, Added(e), e.type = "artifact", e.job = j, e.state = "open",
           e.info = p, e.version = req[c].version
    PROVE  InOrder(j, p)'
<1> DEFINE v == req[c].version
           n == Len(log) + 1
           R == Rows(j, p)
<1>1. /\ v > 0 /\ v \in Nat
      /\ v = 1 \/ \E i \in R : Visible(log[i]) /\ log[i].version = v - 1
      /\ InOrder(j, p)
  BY ArgumentFields DEF Versioning, Inserting, TypeOK
<1>2. \A i \in R : /\ i \in Nat /\ i < n /\ log[i].version \in Nat /\ i \in DOMAIN log
                   /\ log'[i] = log[i]
  BY Positions, EntryFields DEF Rows, TypeOK, Added
<1>3. n \in Nat
  BY Positions DEF TypeOK
<1> HIDE DEF n
<1>4. \A i \in R : log[i].version # v
  BY DEF SameKey, Rows, Live
<1>5. \A i \in R : log[i].version < v
  <2>1. SUFFICES ASSUME NEW i \in R, v < log[i].version
                 PROVE  FALSE
    BY <1>1, <1>2, <1>4
  <2>2. v \in 1..log[i].version
    BY <1>1, <1>2, <2>1
  <2>3. Reached(j, p, v)
    BY <1>1, <2>2 DEF InOrder
  <2>. QED
    BY <1>4, <2>3 DEF Reached
<1>6. \A i \in R : log[i].state # "open"
  <2>1. SUFFICES ASSUME NEW i \in R, log[i].state = "open"
                 PROVE  FALSE
    OBVIOUS
  <2>2. log[i].version > 0 /\ \A k \in R : k <= i
    BY <1>1, <2>1 DEF InOrder
  <2>3. v # 1
    BY <1>2, <1>5, <2>2
  <2>4. PICK k \in R : Visible(log[k]) /\ log[k].version = v - 1
    BY <1>1, <2>3
  <2>5. k # i
    BY <2>1, <2>4 DEF Visible
  <2>6. k < i
    BY <1>2, <2>2, <2>5
  <2>7. log[k].version < log[i].version
    BY <1>1, <2>6 DEF InOrder
  <2>. QED
    BY <1>1, <1>2, <1>5, <2>4, <2>7
<1>7. \A u \in 1..(v - 1) : \E i \in R : log[i].version = u
  <2>1. SUFFICES ASSUME NEW u \in 1..(v - 1)
                 PROVE  \E i \in R : log[i].version = u
    OBVIOUS
  <2>2. v # 1
    BY <1>1
  <2>3. PICK k \in R : log[k].version = v - 1
    BY <1>1, <2>2
  <2>4. u \in 1..log[k].version
    BY <2>3
  <2>. QED
    BY <1>1, <2>4 DEF InOrder, Reached
<1>8. Rows(j, p)' = R \cup {n} /\ log'[n] = e
  BY DEF Rows, Live, Added, n
<1> HIDE DEF R, v
<1>9. ASSUME NEW i \in R
      PROVE  /\ log'[i].version > 0
             /\ \A k \in R \cup {n} : i < k => log'[i].version < log'[k].version
             /\ \A u \in 1..log'[i].version : \E k \in R \cup {n} : log'[k].version = u
             /\ log'[i].state # "open"
  <2>1. /\ log'[i] = log[i] /\ log[i].version > 0
        /\ \A k \in R : i < k => log[i].version < log[k].version
        /\ \A u \in 1..log[i].version : \E k \in R : log[k].version = u
    BY <1>1, <1>2 DEF InOrder, Reached, R
  <2>2. log[i].version < log'[n].version
    BY <1>5, <1>8 DEF v
  <2>. QED
    BY <1>2, <1>6, <2>1, <2>2
<1>10. /\ log'[n].version = v
       /\ \A k \in R \cup {n} : k <= n
  BY <1>2, <1>3, <1>8 DEF v
<1>11. \A u \in 1..v : \E k \in R \cup {n} : log'[k].version = u
  <2>1. SUFFICES ASSUME NEW u \in 1..v
                 PROVE  \E k \in R \cup {n} : log'[k].version = u
    OBVIOUS
  <2>2. u = v \/ u \in 1..(v - 1)
    BY <1>1
  <2>. QED
    BY <1>2, <1>7, <1>10, <2>2
<1>12. \A k \in R \cup {n} : ~(n < k)
  BY <1>2, <1>3
<1>. QED
  BY <1>1, <1>8, <1>9, <1>10, <1>11, <1>12 DEF InOrder, Reached

\* Other entries are no rows of the path.
LEMMA OrderAdd ==
    ASSUME NEW j, NEW p, InOrder(j, p), NEW e, Added(e),
           ~(e.type = "artifact" /\ e.job = j /\ e.info = p)
    PROVE  InOrder(j, p)'
<1>1. Rows(j, p)' = Rows(j, p)
  BY DEF Added, Rows, Live
<1>2. \A i \in Rows(j, p) : log'[i] = log[i]
  BY DEF Added, Rows
<1>. QED
  BY <1>1, <1>2, OrderStays

\* What a request has seen stays true.
LEMMA InsertingStays ==
    ASSUME Kept, NEW d \in Requests, Inserting(d), pc'[d] = pc[d], req'[d] = req[d]
    PROVE  Inserting(d)'
<1>1. ASSUME NEW i \in Rows(Job(d), req[d].path), Visible(log[i])
      PROVE  /\ i \in {k \in DOMAIN log' : /\ log'[k].type = "artifact" /\ log'[k].job = req'[d].job
                                           /\ log'[k].info = req'[d].path
                                           /\ log'[k].state # "lost"}
             /\ Visible(log'[i]) /\ log'[i].version = log[i].version
  BY <1>1 DEF Kept, Rows, Live, Visible, Job
<1>. QED
  BY <1>1 DEF Inserting, Rows, Live, Job

\* latest_version: the version after the largest one, which is visible.
LEMMA ReadIsNext ==
    ASSUME TypeOK, Versioning, NEW c \in Requests, Job(c) \in Jobs, log' = log,
           req'[c].job = req[c].job, req'[c].path \in Paths,
           req'[c].version = Max({0} \cup Versions(Job(c), req'[c].path)) + 1
    PROVE  Inserting(c)'
<1> DEFINE p == req'[c].path
           m == Max({0} \cup Versions(Job(c), p))
<1>1. m \in {0} \cup Versions(Job(c), p) /\ Versions(Job(c), p) \subseteq Nat
  BY VersionsBound DEF TypeOK
<1>2. m \in Nat /\ req'[c].version = m + 1
  BY <1>1
<1>3. CASE m = 0
  BY <1>2, <1>3 DEF Inserting
<1>4. CASE m \in Versions(Job(c), p)
  <2>1. PICK i \in Stored("artifact", Job(c)) : log[i].info = p /\ log[i].version = m
    BY <1>4 DEF Versions
  <2>2. /\ i \in DOMAIN log' /\ log'[i].type = "artifact" /\ log'[i].job = req'[c].job
        /\ log'[i].info = req'[c].path /\ Visible(log'[i]) /\ log'[i].version = m
    BY <2>1 DEF Stored, Job
  <2>3. log'[i].state # "lost"
    BY <2>2 DEF Visible
  <2>4. m = req'[c].version - 1 /\ req'[c].version > 0
    BY <1>2
  <2>. QED
    BY <2>2, <2>3, <2>4 DEF Inserting, Rows, Live, Job
<1>. QED
  BY <1>1, <1>3, <1>4

\* Every step of a request keeps the versions in order.
LEMMA VersioningStep ==
    ASSUME TypeOK, Versioning, NEW c \in Requests, Place(c), AnyStep(c)
    PROVE  Versioning'
<1>1. Kept
  BY VisibleStays
<1>2. ASSUME NEW d \in Requests, d # c
      PROVE  Inserting(d)'
  <2>1. pc'[d] = pc[d] /\ req'[d] = req[d]
    BY <1>2 DEF AnyStep, QuietStep, MarkStep, AddStep, StartStep, SettleStep, CommitStep, LoseStep,
       OnlyBy
  <2>. QED
    BY <1>1, <2>1, InsertingStays DEF Versioning
<1>3. Inserting(c)'
  <2>1. pc'[c] # "insert" \/ (QuietStep(c) /\ pc[c] = "tools" /\ pc'[c] = "insert")
    BY DEF AnyStep, QuietStep, MarkStep, AddStep, StartStep, SettleStep, CommitStep, LoseStep
  <2>2. CASE pc'[c] # "insert"
    BY <2>2 DEF Inserting
  <2>3. CASE QuietStep(c) /\ pc[c] = "tools" /\ pc'[c] = "insert"
    <3>1. /\ log' = log /\ req'[c].job = req[c].job /\ req'[c].path \in Paths
          /\ req'[c].version = Max({0} \cup Versions(Job(c), req'[c].path)) + 1
      BY <2>3 DEF QuietStep, Holds, SameTask
    <3>2. Job(c) \in Jobs
      BY <2>3 DEF Place, AtWork, Steps
    <3>. QED
      BY <3>1, <3>2, ReadIsNext
  <2>. QED
    BY <2>1, <2>2, <2>3
<1>4. ASSUME NEW j \in Jobs, NEW p \in Paths
      PROVE  InOrder(j, p)'
  <2>1. InOrder(j, p)
    BY DEF Versioning
  <2>2. CASE QuietStep(c) \/ MarkStep(c)
    <3>1. log' = log
      BY <2>2 DEF QuietStep, MarkStep
    <3>2. Rows(j, p)' = Rows(j, p)
      BY <3>1 DEF Rows, Live
    <3>. QED
      BY <2>1, <3>1, <3>2, OrderStays
  <2>3. CASE \E e : StartStep(c, e) \/ SettleStep(c, e)
    <3>1. PICK e : Added(e) /\ e.type # "artifact"
      BY <2>3 DEF StartStep, SettleStep
    <3>. QED
      BY <2>1, <3>1, OrderAdd
  <2>4. CASE \E e : AddStep(c, e)
    <3>1. PICK e : AddStep(c, e)
      BY <2>4
    <3>2. CASE e.type = "artifact" /\ e.job = j /\ e.info = p
      <4>1. /\ pc[c] = "insert" /\ SameKey(c) = {} /\ Job(c) = j /\ req[c].path = p
            /\ Added(e) /\ e.state = "open" /\ e.version = req[c].version
        BY <3>1, <3>2 DEF AddStep
      <4>. QED
        BY <3>2, <4>1, OrderInsert
    <3>3. CASE ~(e.type = "artifact" /\ e.job = j /\ e.info = p)
      <4>1. Added(e)
        BY <3>1 DEF AddStep
      <4>. QED
        BY <2>1, <3>3, <4>1, OrderAdd
    <3>. QED
      BY <3>2, <3>3
  <2>5. CASE CommitStep(c)
    BY <2>1, <2>5, OrderCommit DEF CommitStep
  <2>6. CASE LoseStep(c)
    BY <2>1, <2>6, OrderLose DEF LoseStep
  <2>. QED
    BY <2>2, <2>3, <2>4, <2>5, <2>6 DEF AnyStep
<1>. QED
  BY <1>2, <1>3, <1>4 DEF Versioning

\* With all versions reached and in order, a version counts the rows so far.
LEMMA HistoryHolds ==
    ASSUME TypeOK, Versioning
    PROVE  ArtifactHistory
<1> SUFFICES ASSUME NEW j \in Jobs, NEW p \in Paths,
                    NEW i \in {k \in Stored("artifact", j) : log[k].info = p}
             PROVE  log[i].version
                      = Cardinality({k \in {n \in Stored("artifact", j) : log[n].info = p} : k <= i})
  BY DEF ArtifactHistory
<1> DEFINE S == {k \in Stored("artifact", j) : log[k].info = p}
           R == Rows(j, p)
           K == {k \in S : k <= i}
           v == log[i].version
           f == [k \in K |-> log[k].version]
<1>1. InOrder(j, p)
  BY DEF Versioning
<1>2. \A k \in S : k \in R /\ Visible(log[k])
  BY DEF Stored, Rows, Live, Visible
<1>3. \A k \in R : k \in DOMAIN log /\ k \in Nat /\ log[k].version \in Nat
  BY Positions, EntryFields DEF Rows, TypeOK
<1>4. \A k \in R : log[k].state # "open" => k \in S
  <2>1. \A k \in R : log[k].state \in {"open", "committed", "lost", "sent"}
    BY <1>3, Positions, EntryFields DEF TypeOK
  <2>. QED
    BY <2>1 DEF Rows, Live, Stored, Visible
<1>5. i \in S /\ i \in R /\ i \in Nat /\ v \in Nat
  BY <1>2, <1>3
<1>6. ASSUME NEW k \in K
      PROVE  log[k].version \in 1..v
  <2>1. k \in R /\ k \in Nat /\ log[k].version \in Nat /\ k <= i
    BY <1>2, <1>3
  <2>2. log[k].version > 0 /\ (k < i => log[k].version < v)
    BY <1>1, <1>5, <2>1 DEF InOrder
  <2>3. k = i \/ k < i
    BY <1>5, <2>1
  <2>. QED
    BY <1>5, <2>1, <2>2, <2>3
<1>7. ASSUME NEW k \in K, NEW n \in K, log[k].version = log[n].version
      PROVE  k = n
  <2>1. /\ k \in R /\ k \in Nat /\ log[k].version \in Nat
        /\ n \in R /\ n \in Nat /\ log[n].version \in Nat
    BY <1>2, <1>3
  <2>2. /\ k < n => log[k].version < log[n].version
        /\ n < k => log[n].version < log[k].version
    BY <1>1, <2>1 DEF InOrder
  <2>. QED
    BY <1>7, <2>1, <2>2
<1>8. ASSUME NEW u \in 1..v
      PROVE  \E k \in K : log[k].version = u
  <2>1. PICK k \in R : log[k].version = u
    BY <1>1, <1>5 DEF InOrder, Reached
  <2>2. k \in Nat
    BY <1>3
  <2>3. ~(i < k)
    <3>1. i < k => v < log[k].version
      BY <1>1, <1>5 DEF InOrder
    <3>. QED
      BY <1>5, <2>1, <3>1
  <2>4. k <= i
    BY <1>5, <2>2, <2>3
  <2>5. log[k].state # "open"
    <3>1. SUFFICES ASSUME log[k].state = "open"
                   PROVE  FALSE
      OBVIOUS
    <3>2. i <= k
      BY <1>1, <1>5, <3>1 DEF InOrder
    <3>3. i = k
      BY <1>5, <2>2, <2>4, <3>2
    <3>. QED
      BY <1>2, <1>5, <3>1, <3>3 DEF Visible
  <2>. QED
    BY <1>4, <2>1, <2>4, <2>5
<1> HIDE DEF v
<1>9. f \in Bijection(K, 1..v)
  <2>1. f \in [K -> 1..v]
    BY <1>6
  <2>2. \A k, n \in K : f[k] = f[n] => k = n
    BY <1>7
  <2>3. \A u \in 1..v : \E k \in K : f[k] = u
    BY <1>8
  <2>. QED
    BY <2>1, <2>2, <2>3 DEF Bijection, Injection, Surjection, IsInjective
<1>10. IsFiniteSet(K)
  <2>1. K \subseteq DOMAIN log
    BY DEF Stored
  <2>. QED
    BY <2>1, Positions, FS_Subset DEF TypeOK
<1>11. Cardinality(1..v) = Cardinality(K)
  <2>1. ExistsBijection(K, 1..v)
    BY <1>9 DEF ExistsBijection
  <2>. QED
    BY <1>10, <2>1, FS_Bijection
<1>12. Cardinality(1..v) = v
  BY <1>5, FS_Interval
<1>. QED
  BY <1>11, <1>12 DEF v

-----------------------------------------------------------------------------
(* Places and uncommitted writes.                                          *)

\* The values that stand for no status.
LEMMA Distinct ==
    /\ Nothing \notin Statuses /\ Absent \notin Statuses /\ Touch \notin Statuses
    /\ Nothing # Touch /\ Nothing # Absent
    /\ \A v \in {"completed", "failed"} : v \in Statuses /\ v # "running"
    /\ "running" \in Statuses /\ "pending" \in Statuses
  BY DEF Nothing, Absent, Touch, Statuses

\* Only one request moves.
LEMMA OthersStay ==
    ASSUME NEW c \in Requests, AnyStep(c), NEW d \in Requests, d # c
    PROVE  pc'[d] = pc[d] /\ req'[d] = req[d] /\ write'[d] = write[d]
  BY DEF AnyStep, QuietStep, MarkStep, AddStep, StartStep, SettleStep, CommitStep, LoseStep, OnlyBy

\* A status changes only by the commit of its one writer.
LEMMA StatusSteps ==
    ASSUME NEW c \in Requests, AnyStep(c), NEW j \in Jobs
    PROVE  \/ status'[j] = status[j]
           \/ CommitStep(c) /\ write[c][j] \in Statuses /\ status'[j] = write[c][j]
  BY DEF AnyStep, QuietStep, MarkStep, AddStep, StartStep, SettleStep, CommitStep, LoseStep

\* A row somebody writes is not written by another one.
LEMMA StatusOfOthers ==
    ASSUME Writing, NEW c \in Requests, AnyStep(c), NEW d \in Requests, d # c,
           NEW j \in Jobs, write[d][j] # Nothing
    PROVE  status'[j] = status[j] /\ write[c][j] = Nothing
<1>1. write[c][j] = Nothing
  BY DEF Writing, WriteOK
<1>. QED
  BY <1>1, StatusSteps, Distinct

\* The places of the other requests.
LEMMA OthersPlace ==
    ASSUME TypeOK, Writing, NEW c \in Requests, AnyStep(c),
           NEW d \in Requests, d # c, Place(d)
    PROVE  Place(d)'
<1>1. pc'[d] = pc[d] /\ req'[d] = req[d] /\ write'[d] = write[d]
  BY OthersStay
<1>2. ASSUME NEW j \in Jobs, status[j] # Absent
      PROVE  status'[j] # Absent
  BY <1>2, StatusSteps, Distinct
<1>3. pc[d] = "startCommit" => status'[Job(d)] = Absent
  <2>1. SUFFICES ASSUME pc[d] = "startCommit"
                 PROVE  status'[Job(d)] = Absent
    OBVIOUS
  <2>2. Job(d) \in Jobs /\ status[Job(d)] = Absent /\ write[d][Job(d)] # Nothing
    BY <2>1, Distinct DEF Place
  <2>. QED
    BY <2>2, StatusOfOthers
<1>. QED
  BY <1>1, <1>2, <1>3 DEF Place, Kind, Job

\* The place of the request that moves.
LEMMA OwnPlace ==
    ASSUME TypeOK, TypeOK', NEW c \in Requests, Place(c), AnyStep(c)
    PROVE  Place(c)'
<1>1. CASE QuietStep(c)
  <2>1. status' = status /\ write' = write /\ req'[c].kind = req[c].kind
    BY <1>1 DEF QuietStep
  <2>2. CASE pc[c] = "idle"
    <3>1. CASE pc'[c] \in {"merge", "veto", "batch"}
      <4>1. /\ req'[c].kind \in JobKinds /\ req'[c].job \in Jobs
            /\ status'[req'[c].job] # Absent
        BY <1>1, <2>1, <2>2, <3>1 DEF QuietStep, Kind
      <4>2. req'[c].kind \notin Waves
        BY <4>1 DEF JobKinds, Waves
      <4>. QED
        BY <3>1, <4>1, <4>2 DEF Place, Kind, Job
    <3>2. CASE pc'[c] = "start"
      <4>1. req'[c].kind \in NewJobKinds /\ req'[c].wave > 0
        BY <1>1, <2>1, <2>2, <3>2 DEF QuietStep, Kind
      <4>. QED
        BY <3>2, <4>1 DEF Place, Kind, Job, AtWork
    <3>. QED
      BY <1>1, <2>2, <3>1, <3>2 DEF QuietStep
  <2>3. CASE pc[c] # "idle"
    <3>1. /\ pc[c] \in {"tools", "decide", "batch", "merge", "veto", "settle"}
          /\ req'[c].job = req[c].job /\ req'[c].wave = req[c].wave
          /\ pc'[c] \in {"insert", "tools", "decide", "batch", "merge", "veto", "finish", "settle"}
          /\ pc'[c] = "finish" => Kind(c) \in Waves
          /\ pc'[c] = "settle" =>
                \/ req'[c].verdict = "completed"
                \/ pc[c] = "settle" /\ req'[c].verdict = req[c].verdict
      BY <1>1, <2>3 DEF QuietStep, Holds, SameTask
    <3>. QED
      BY <2>1, <3>1 DEF Place, Kind, Job, AtWork, Steps
  <2>. QED
    BY <2>2, <2>3
<1>2. CASE MarkStep(c)
  <2>1. /\ pc[c] \in {"batch", "merge"} /\ pc'[c] \in {"tools", "approve"} /\ status' = status
        /\ req'[c].kind = req[c].kind /\ req'[c].job = req[c].job
        /\ req'[c].wave = req[c].wave
    BY <1>2 DEF MarkStep
  <2>. QED
    BY <2>1 DEF Place, Kind, Job, AtWork, Steps
<1>3. CASE \E e : AddStep(c, e)
  <2>1. PICK e : AddStep(c, e)
    BY <1>3
  <2>2. /\ status' = status /\ write' = write
        /\ req'[c].kind = req[c].kind /\ req'[c].job = req[c].job
    BY <2>1 DEF AddStep
  <2>3. CASE pc[c] = "finish"
    <3>1. pc'[c] = "close" \/ (pc'[c] = "start" /\ req'[c].wave > 0)
      BY <2>1, <2>3 DEF AddStep
    <3>2. Kind(c) \in Waves
      BY <2>3 DEF Place
    <3>. QED
      BY <2>2, <3>1, <3>2 DEF Place, Kind, Job, AtWork, NewJobKinds
  <2>4. CASE pc[c] # "finish"
    <3>1. /\ pc[c] \in {"announce", "insert", "tools", "sandbox", "approve", "veto"}
          /\ pc'[c] \in {"batch", "decide", "toolCommit", "runCommit", "approveCommit", "settle"}
          /\ req'[c].wave = req[c].wave
          /\ pc'[c] = "settle" => req'[c].verdict = "failed"
      BY <2>1, <2>4 DEF AddStep, Holds, SameTask
    <3>. QED
      BY <2>2, <3>1 DEF Place, Kind, Job, AtWork, Steps
  <2>. QED
    BY <2>3, <2>4
<1>4. CASE \E e : StartStep(c, e)
  <2>1. PICK e : StartStep(c, e)
    BY <1>4
  <2>2. /\ status' = status /\ pc[c] = "start" /\ pc'[c] = "startCommit"
        /\ req'[c].kind = req[c].kind /\ req'[c].wave = req[c].wave
        /\ req'[c].job = e.job /\ write'[c][e.job] \in Statuses
        /\ e.job \in Jobs /\ status[e.job] = Absent
    BY <2>1 DEF StartStep, FreshJobs
  <2>. QED
    BY <2>2 DEF Place, Kind, Job, AtWork
<1>5. CASE \E e : SettleStep(c, e)
  <2>1. PICK e : SettleStep(c, e)
    BY <1>5
  <2>2. /\ status' = status /\ pc[c] = "settle" /\ pc'[c] = "settleCommit" /\ req' = req
        /\ write'[c][Job(c)] = IF req[c].seen = req[c].verdict THEN Touch ELSE req[c].verdict
    BY <2>1 DEF SettleStep
  <2>3. req[c].verdict \in {"completed", "failed"}
    BY <2>2 DEF Place
  <2>4. write'[c][Job(c)] # Nothing
    BY <2>2, <2>3, Distinct
  <2>. QED
    BY <2>2, <2>3, <2>4 DEF Place, Kind, Job, AtWork, Steps
<1>6. CASE CommitStep(c)
  <2>1. CASE pc'[c] = "done"
    BY <2>1 DEF Place, AtWork
  <2>2. CASE pc'[c] # "done"
    <3>1. Job(c) \in Jobs /\ status'[Job(c)] # Absent
      <4>1. /\ pc[c] \in {"startCommit", "toolCommit", "runCommit", "tools", "approveCommit",
                          "settleCommit"}
            /\ Job(c) \in Jobs =>
                  status'[Job(c)] = IF write[c][Job(c)] \in Statuses THEN write[c][Job(c)]
                                                                      ELSE status[Job(c)]
        BY <1>6 DEF CommitStep
      <4>2. CASE pc[c] = "startCommit"
        BY <4>1, <4>2, Distinct DEF Place
      <4>3. CASE pc[c] # "startCommit"
        <5>1. pc[c] \in AtWork
          BY <4>1, <4>3 DEF AtWork, Steps
        <5>. QED
          BY <4>1, <5>1, Distinct DEF Place
      <4>. QED
        BY <4>2, <4>3
    <3>2. req'[c].kind = req[c].kind /\ req'[c].job = req[c].job
      BY <1>6, <2>2 DEF CommitStep, Holds, SameTask
    <3>3. CASE pc'[c] = "start"
      <4>1. Kind(c) \in NewJobKinds \ Waves
        BY <1>6, <3>3 DEF CommitStep
      <4>. QED
        BY <3>2, <3>3, <4>1 DEF Place, Kind, AtWork
    <3>4. CASE pc'[c] # "start"
      <4>1. /\ pc'[c] \in {"announce", "batch", "tools", "sandbox", "decide", "merge", "settle",
                           "finish"}
            /\ pc'[c] \in {"announce", "finish"} => Kind(c) \in Waves
            /\ pc'[c] = "settle" => req'[c].verdict \in {"completed", "failed"}
            /\ req'[c].wave = req[c].wave
        BY <1>6, <2>2, <3>4 DEF CommitStep, Holds, SameTask
      <4>2. Kind(c) \in Waves => req[c].wave > 0
        BY <1>6 DEF CommitStep, Place, AtWork, Steps
      <4>. QED
        BY <3>1, <3>2, <4>1, <4>2 DEF Place, Kind, Job
    <3>. QED
      BY <3>3, <3>4
  <2>. QED
    BY <2>1, <2>2
<1>7. CASE LoseStep(c)
  BY <1>7 DEF LoseStep, Place, AtWork
<1>. QED
  BY <1>1, <1>2, <1>3, <1>4, <1>5, <1>6, <1>7 DEF AnyStep

\* The write of a request that does not move.
LEMMA OthersWrite ==
    ASSUME TypeOK, Writing, NEW c \in Requests, AnyStep(c), NEW d \in Requests, d # c,
           NEW j \in Jobs, write[d][j] # Nothing, write'[c][j] = Nothing
    PROVE  WriteOK(d, j)'
<1>1. pc'[d] = pc[d] /\ req'[d] = req[d] /\ write'[d] = write[d]
  BY OthersStay
<1>2. status'[j] = status[j]
  BY StatusOfOthers
<1>3. raced \subseteq raced'
  BY DEF AnyStep, QuietStep, MarkStep, AddStep, StartStep, SettleStep, CommitStep, LoseStep
<1>4. WriteOK(d, j)
  BY DEF Writing
<1>5. \A x \in Requests : write'[x][j] # Nothing => x = d
  <2>1. SUFFICES ASSUME NEW x \in Requests, write'[x][j] # Nothing, x # c
                 PROVE  x = d
    OBVIOUS
  <2>2. write[x][j] # Nothing
    BY <2>1, OthersStay
  <2>. QED
    BY <1>4, <2>2 DEF WriteOK
<1>6. (StartWrite(d, j) \/ SettleWrite(d, j) \/ RunningWrite(d, j))'
  BY <1>1, <1>2, <1>3, <1>4 DEF WriteOK, StartWrite, SettleWrite, RunningWrite, Job
<1>. QED
  BY <1>5, <1>6 DEF WriteOK

\* A request has no write before it begins, and what it may have elsewhere.
LEMMA OwnWriteBefore ==
    ASSUME Writing, NEW c \in Requests, NEW j \in Jobs, write[c][j] # Nothing,
           pc[c] \notin {"startCommit", "settleCommit"}
    PROVE  RunningWrite(c, j)
  BY DEF Writing, WriteOK, StartWrite, SettleWrite

\* Its "running" stays while it goes on with its job.
LEMMA RunningStays ==
    ASSUME Writing, NEW c \in Requests, NEW j \in Jobs, RunningWrite(c, j),
           write'[c][j] = write[c][j], status' = status, raced \subseteq raced',
           pc'[c] \in AtWork \cup {"start", "startCommit", "close"},
           req'[c].job = j => /\ pc'[c] \notin {"startCommit", "settleCommit"}
                              /\ req'[c].seen \in {Absent, "running"}
    PROVE  RunningWrite(c, j)'
  BY DEF RunningWrite, Job

\* It is the only writer if nobody else is.
LEMMA OwnWrite ==
    ASSUME NEW c \in Requests, AnyStep(c), NEW j \in Jobs,
           \A d \in Requests : d # c => write[d][j] = Nothing,
           (StartWrite(c, j) \/ SettleWrite(c, j) \/ RunningWrite(c, j))'
    PROVE  WriteOK(c, j)'
<1>1. \A d \in Requests : write'[d][j] # Nothing => d = c
  BY OthersStay
<1>. QED
  BY <1>1 DEF WriteOK

\* Where c writes a row, it is free for c.
LEMMA WritingCases ==
    ASSUME TypeOK, Writing, NEW c \in Requests, AnyStep(c),
           \A j \in Jobs : write'[c][j] # Nothing =>
               /\ \A d \in Requests : d # c => write[d][j] = Nothing
               /\ (StartWrite(c, j) \/ SettleWrite(c, j) \/ RunningWrite(c, j))'
    PROVE  Writing'
<1>1. SUFFICES ASSUME NEW d \in Requests, NEW j \in Jobs
               PROVE  WriteOK(d, j)'
  BY DEF Writing
<1>2. CASE write'[d][j] = Nothing
  BY <1>2 DEF WriteOK
<1>3. CASE write'[d][j] # Nothing /\ d = c
  BY <1>3, OwnWrite
<1>4. CASE write'[d][j] # Nothing /\ d # c
  <2>1. write[d][j] # Nothing
    BY <1>4, OthersStay
  <2>2. write'[c][j] = Nothing
    BY <1>4, <2>1
  <2>. QED
    BY <1>4, <2>1, <2>2, OthersWrite
<1>. QED
  BY <1>2, <1>3, <1>4

\* A row has one writer.
LEMMA SoleWriter ==
    ASSUME Writing, NEW c \in Requests, NEW j \in Jobs, write[c][j] # Nothing
    PROVE  \A d \in Requests : d # c => write[d][j] = Nothing
  BY DEF Writing, WriteOK

\* Every step of a request keeps Writing.
LEMMA WritingStep ==
    ASSUME TypeOK, Writing, NEW c \in Requests, Place(c), AnyStep(c)
    PROVE  Writing'
<1>1. CASE QuietStep(c) \/ \E e : AddStep(c, e)
  <2>1. status' = status /\ raced' = raced /\ write' = write
    BY <1>1 DEF QuietStep, AddStep
  <2>2. SUFFICES ASSUME NEW j \in Jobs, write[c][j] # Nothing
                 PROVE  RunningWrite(c, j)'
    BY <2>1, SoleWriter, WritingCases
  <2>3. pc[c] \notin {"startCommit", "settleCommit"}
    BY <1>1 DEF QuietStep, AddStep
  <2>4. RunningWrite(c, j)
    BY <2>2, <2>3, OwnWriteBefore
  <2>5. pc[c] # "idle"
    BY <2>4 DEF RunningWrite, AtWork
  <2>6. /\ req'[c].job = req[c].job /\ req'[c].seen \in {req[c].seen, Absent, Row(c)}
        /\ pc'[c] \in {"insert", "tools", "decide", "merge", "veto", "finish", "settle", "batch",
                       "toolCommit", "runCommit", "approveCommit", "close", "start"}
    BY <1>1, <2>5 DEF QuietStep, AddStep, Holds, SameTask
  <2>7. /\ pc'[c] \in AtWork \cup {"start", "startCommit", "close"}
        /\ pc'[c] \notin {"startCommit", "settleCommit"}
    BY <2>6 DEF AtWork, Steps
  <2>8. req'[c].job = j => req'[c].seen \in {Absent, "running"}
    <3>1. SUFFICES ASSUME req'[c].job = j
                   PROVE  req'[c].seen \in {Absent, "running"}
      OBVIOUS
    <3>2. /\ Job(c) = j /\ req[c].seen \in {Absent, "running"}
          /\ write[c][j] = "running"
      BY <2>4, <2>6, <3>1 DEF RunningWrite, Job
    <3>3. Row(c) = "running"
      BY <3>2, Distinct DEF Row
    <3>. QED
      BY <2>6, <3>2, <3>3
  <2>. QED
    BY <2>1, <2>4, <2>7, <2>8, RunningStays
<1>2. CASE MarkStep(c)
  <2>1. /\ status' = status /\ raced \subseteq raced' /\ pc[c] \in {"batch", "merge"}
        /\ pc'[c] \in {"tools", "approve"} /\ req'[c].job = req[c].job
    BY <1>2 DEF MarkStep
  <2>2. Job(c) \in Jobs /\ status[Job(c)] # Absent
    BY <2>1 DEF Place, AtWork, Steps
  <2>3. /\ pc'[c] \in AtWork \cup {"start", "startCommit", "close"}
        /\ pc'[c] \notin {"startCommit", "settleCommit"}
        /\ pc[c] \notin {"startCommit", "settleCommit"}
    BY <2>1 DEF AtWork, Steps
  <2>4. CASE req'[c].seen = req[c].seen /\ write' = write
    <3>1. SUFFICES ASSUME NEW j \in Jobs, write[c][j] # Nothing
                   PROVE  RunningWrite(c, j)'
      BY <2>4, SoleWriter, WritingCases
    <3>2. RunningWrite(c, j)
      BY <2>3, <3>1, OwnWriteBefore
    <3>3. req'[c].job = j => req'[c].seen \in {Absent, "running"}
      BY <2>1, <2>4, <3>2 DEF RunningWrite, Job
    <3>. QED
      BY <2>1, <2>3, <2>4, <3>2, <3>3, RunningStays
  <2>5. CASE /\ req[c].seen = "pending" /\ req'[c].seen = "running"
             /\ RowFree(c)
             /\ write'[c][Job(c)] = "running"
             /\ \A j \in Jobs : j # Job(c) => write'[c][j] = write[c][j]
             /\ raced' = IF Row(c) = "pending" THEN raced ELSE raced \cup {Job(c)}
    <3>1. \A d \in Requests : d # c => write[d][Job(c)] = Nothing
      BY <2>5 DEF RowFree
    <3>2. Job(c) \notin raced' => status[Job(c)] = "pending"
      <4>1. SUFFICES ASSUME Row(c) = "pending"
                     PROVE  status[Job(c)] = "pending"
        BY <2>5
      <4>2. write[c][Job(c)] # Nothing => write[c][Job(c)] = "running"
        BY <2>2, <2>3, OwnWriteBefore DEF RunningWrite
      <4>3. write[c][Job(c)] = Nothing
        BY <4>1, <4>2, Distinct DEF Row
      <4>. QED
        BY <4>1, <4>3, Distinct DEF Row
    <3>3. ASSUME NEW j \in Jobs, write'[c][j] # Nothing
          PROVE  /\ \A d \in Requests : d # c => write[d][j] = Nothing
                 /\ RunningWrite(c, j)'
      <4>1. CASE j = Job(c)
        <5>1. RunningWrite(c, j)'
          BY <2>1, <2>2, <2>3, <2>5, <3>2, <4>1 DEF RunningWrite, Job
        <5>. QED
          BY <3>1, <4>1, <5>1
      <4>2. CASE j # Job(c)
        <5>1. write[c][j] # Nothing /\ write'[c][j] = write[c][j]
          BY <2>5, <3>3, <4>2
        <5>2. RunningWrite(c, j)
          BY <2>3, <5>1, OwnWriteBefore
        <5>3. req'[c].job # j
          BY <2>1, <4>2 DEF Job
        <5>4. RunningWrite(c, j)'
          BY <2>1, <2>3, <5>1, <5>2, <5>3, RunningStays
        <5>. QED
          BY <5>1, <5>4, SoleWriter
      <4>. QED
        BY <4>1, <4>2
    <3>. QED
      BY <3>3, WritingCases
  <2>. QED
    BY <1>2, <2>4, <2>5 DEF MarkStep
<1>3. CASE \E e : StartStep(c, e)
  <2>1. PICK e : StartStep(c, e)
    BY <1>3
  <2>2. /\ status' = status /\ raced' = raced /\ pc[c] = "start" /\ pc'[c] = "startCommit"
        /\ req'[c].job = e.job /\ e.job \in Jobs /\ status[e.job] = Absent
        /\ \A d \in Requests : Job(d) # e.job
        /\ \A j \in Jobs : j # e.job => write'[c][j] = write[c][j]
    BY <2>1 DEF StartStep, FreshJobs
  <2>3. \A d \in Requests : write[d][e.job] = Nothing
    BY <2>2 DEF Writing, WriteOK, StartWrite, SettleWrite, RunningWrite
  <2>4. ASSUME NEW j \in Jobs, write'[c][j] # Nothing
        PROVE  /\ \A d \in Requests : d # c => write[d][j] = Nothing
               /\ (StartWrite(c, j) \/ SettleWrite(c, j) \/ RunningWrite(c, j))'
    <3>1. CASE j = e.job
      BY <2>2, <2>3, <3>1 DEF StartWrite, Job
    <3>2. CASE j # e.job
      <4>1. write[c][j] # Nothing /\ write'[c][j] = write[c][j]
        BY <2>2, <2>4, <3>2
      <4>2. RunningWrite(c, j)
        BY <2>2, <4>1, OwnWriteBefore
      <4>3. RunningWrite(c, j)'
        BY <2>2, <3>2, <4>1, <4>2, RunningStays
      <4>. QED
        BY <4>1, <4>3, SoleWriter
    <3>. QED
      BY <3>1, <3>2
  <2>. QED
    BY <2>4, WritingCases
<1>4. CASE \E e : SettleStep(c, e)
  <2>1. PICK e : SettleStep(c, e)
    BY <1>4
  <2>2. /\ status' = status /\ raced \subseteq raced' /\ req' = req
        /\ pc[c] = "settle" /\ pc'[c] = "settleCommit" /\ RowFree(c)
        /\ write'[c][Job(c)] = IF req[c].seen = req[c].verdict THEN Touch ELSE req[c].verdict
        /\ \A j \in Jobs : j # Job(c) => write'[c][j] = write[c][j]
        /\ raced' = IF req[c].seen = Row(c) THEN raced ELSE raced \cup {Job(c)}
    BY <2>1 DEF SettleStep
  <2>3. Job(c) \in Jobs /\ req[c].verdict \in {"completed", "failed"} /\ status[Job(c)] # Absent
    BY <2>2 DEF Place, AtWork, Steps
  <2>4. write[c][Job(c)] # Nothing =>
            write[c][Job(c)] = "running" /\ req[c].seen \in {Absent, "running"}
    BY <2>2, <2>3, OwnWriteBefore DEF RunningWrite
  <2>5. ASSUME req[c].seen = req[c].verdict, Job(c) \notin raced'
        PROVE  status[Job(c)] = req[c].verdict
    <3>1. write[c][Job(c)] = Nothing
      BY <2>3, <2>4, <2>5, Distinct
    <3>2. Row(c) = status[Job(c)]
      BY <3>1, Distinct DEF Row
    <3>. QED
      BY <2>2, <2>5, <3>2
  <2>6. ASSUME NEW j \in Jobs, write'[c][j] # Nothing
        PROVE  /\ \A d \in Requests : d # c => write[d][j] = Nothing
               /\ (StartWrite(c, j) \/ SettleWrite(c, j) \/ RunningWrite(c, j))'
    <3>1. CASE j = Job(c)
      <4>1. SettleWrite(c, j)'
        BY <2>2, <2>5, <3>1 DEF SettleWrite, Job
      <4>. QED
        BY <2>2, <3>1, <4>1 DEF RowFree
    <3>2. CASE j # Job(c)
      <4>1. write[c][j] # Nothing /\ write'[c][j] = write[c][j]
        BY <2>2, <2>6, <3>2
      <4>2. RunningWrite(c, j)
        BY <2>2, <4>1, OwnWriteBefore
      <4>3. pc'[c] \in AtWork /\ req'[c].job # j
        BY <2>2, <3>2 DEF AtWork, Steps, Job
      <4>4. RunningWrite(c, j)'
        BY <2>2, <4>1, <4>2, <4>3, RunningStays
      <4>. QED
        BY <4>1, <4>4, SoleWriter
    <3>. QED
      BY <3>1, <3>2
  <2>. QED
    BY <2>6, WritingCases
<1>5. CASE CommitStep(c) \/ LoseStep(c)
  <2>1. \A j \in Jobs : write'[c][j] = Nothing
    BY <1>5, NoWriteType DEF CommitStep, LoseStep
  <2>. QED
    BY <2>1, WritingCases
<1>. QED
  BY <1>1, <1>2, <1>3, <1>4, <1>5 DEF AnyStep

-----------------------------------------------------------------------------
(* What the feed tells of a job.                                           *)

\* An entry that is told as before.
SameWord(i) ==
    /\ log'[i].type = log[i].type /\ log'[i].job = log[i].job /\ log'[i].info = log[i].info
    /\ log'[i].by = log[i].by /\ log'[i].state = log[i].state

\* Words that stay as they are.
LEMMA WordStays ==
    ASSUME NEW i \in DOMAIN log, NEW j, OpenWord(i, j), NEW c \in Requests, AnyStep(c),
           log[i].by # c, SameWord(i),
           \A k \in DOMAIN log' : Tells(k, j)' /\ Live(k)' =>
               k \in DOMAIN log /\ Tells(k, j) /\ Live(k)
    PROVE  OpenWord(i, j)'
<1>1. SUFFICES ASSUME log'[i].state = "open", Tells(i, j)'
               PROVE  /\ Announced(i, log[i].by)'
                      /\ \A k \in DOMAIN log' : Tells(k, j)' /\ Live(k)' => k <= i
  BY DEF OpenWord
<1>2. log[i].state = "open" /\ Tells(i, j)
  BY <1>1 DEF Tells, SameWord
<1>3. /\ Announced(i, log[i].by)
      /\ \A k \in DOMAIN log : Tells(k, j) /\ Live(k) => k <= i
  BY <1>2 DEF OpenWord
<1>4. log[i].by \in Requests
  BY <1>3 DEF Announced
<1>5. /\ pc'[log[i].by] = pc[log[i].by] /\ req'[log[i].by] = req[log[i].by]
      /\ write'[log[i].by] = write[log[i].by]
  BY <1>4, OthersStay
<1>6. Announced(i, log[i].by)'
  BY <1>3, <1>5 DEF Announced, Job, SameWord
<1>. QED
  BY <1>3, <1>6

\* Who has an open word on a job is about to commit its status.
LEMMA WordPlace ==
    ASSUME Telling, NEW i \in DOMAIN log, NEW j \in Jobs, log[i].state = "open", Tells(i, j)
    PROVE  /\ log[i].by \in Requests /\ Job(log[i].by) = j
           /\ pc[log[i].by] \in {"startCommit", "settleCommit"}
<1>1. OpenWord(i, j)
  BY DEF Telling
<1>. QED
  BY <1>1 DEF OpenWord, Announced, Tells

\* What is told of a job.
LEMMA ToldIs ==
    ASSUME NEW j
    PROVE  /\ Told(j) = {i \in DOMAIN log : Tells(i, j) /\ Visible(log[i])}
           /\ Told(j)' = {i \in DOMAIN log' : Tells(i, j)' /\ Visible(log'[i])}
  BY DEF Told, Stored, Tells

\* Only a commit tells.
LEMMA ToldStays ==
    ASSUME NEW c \in Requests, AnyStep(c), ~CommitStep(c), NEW j
    PROVE  /\ Told(j)' = Told(j) /\ status' = status /\ raced \subseteq raced'
           /\ \A i \in Told(j) :
                 i \in DOMAIN log /\ i \in DOMAIN log' /\ log'[i].info = log[i].info
<1>1. CASE QuietStep(c) \/ MarkStep(c)
  <2>1. log' = log /\ status' = status /\ raced \subseteq raced'
    BY <1>1 DEF QuietStep, MarkStep
  <2>. QED
    BY <2>1, ToldIs DEF Tells
<1>2. CASE (\E e : AddStep(c, e)) \/ (\E e : StartStep(c, e)) \/ (\E e : SettleStep(c, e))
  <2>1. PICK e : Added(e) /\ e.state = "open" /\ status' = status /\ raced \subseteq raced'
    BY <1>2 DEF AddStep, StartStep, SettleStep
  <2>2. /\ Told(j) = {i \in DOMAIN log : Tells(i, j) /\ Visible(log[i])}
        /\ Told(j)' = {i \in DOMAIN log' : Tells(i, j)' /\ Visible(log'[i])}
    BY ToldIs
  <2>3. /\ \A i \in DOMAIN log : i \in DOMAIN log' /\ log'[i] = log[i]
        /\ \A i \in DOMAIN log' : i \in DOMAIN log \/ ~Visible(log'[i])
    BY <2>1 DEF Added, Visible
  <2>4. Told(j)' = Told(j)
    BY <2>2, <2>3 DEF Tells
  <2>. QED
    BY <2>1, <2>2, <2>3, <2>4
<1>3. CASE LoseStep(c)
  <2>1. Ends(c, "lost") /\ status' = status /\ raced' = raced
    BY <1>3 DEF LoseStep
  <2>2. /\ Told(j) = {i \in DOMAIN log : Tells(i, j) /\ Visible(log[i])}
        /\ Told(j)' = {i \in DOMAIN log' : Tells(i, j)' /\ Visible(log'[i])}
    BY ToldIs
  <2>3. DOMAIN log' = DOMAIN log /\ \A i \in DOMAIN log : Visible(log'[i]) = Visible(log[i])
    BY <2>1 DEF Ends, SameRows, IsOpen, Visible
  <2>4. Told(j)' = Told(j)
    BY <2>1, <2>2, <2>3 DEF Tells, Ends, SameRows
  <2>. QED
    BY <2>1, <2>2, <2>3, <2>4 DEF Ends, SameRows
<1>. QED
  BY <1>1, <1>2, <1>3 DEF AnyStep

\* The last word stays the last one.
LEMMA LastWordStays ==
    ASSUME NEW c \in Requests, AnyStep(c), ~CommitStep(c), NEW j \in Jobs, NEW m, LastWord(j, m)
    PROVE  LastWord(j, m)'
<1>1. m \in Told(j)
  BY DEF LastWord
<1>2. /\ Told(j)' = Told(j) /\ status' = status /\ raced \subseteq raced'
      /\ log'[m].info = log[m].info
  BY <1>1, ToldStays
<1>. QED
  BY <1>2 DEF LastWord

\* What holds of the visible words then holds as before.
LEMMA TellingStays ==
    ASSUME Telling, NEW c \in Requests, AnyStep(c), ~CommitStep(c),
           \A i \in DOMAIN log', j \in Jobs : OpenWord(i, j)',
           \A d \in Requests : HasWord(d)'
    PROVE  Telling'
<1>1. ASSUME NEW j \in Jobs, status'[j] = Absent
      PROVE  Told(j)' = {}
  BY <1>1, ToldStays DEF Telling
<1>2. ASSUME NEW j \in Jobs, status'[j] # Absent
      PROVE  \E m \in DOMAIN log' : LastWord(j, m)'
  <2>1. status[j] # Absent
    BY <1>2, ToldStays
  <2>2. PICK m \in DOMAIN log : LastWord(j, m)
    BY <2>1 DEF Telling
  <2>3. m \in DOMAIN log'
    BY <2>2, ToldStays DEF LastWord
  <2>. QED
    BY <2>2, <2>3, LastWordStays
<1>. QED
  BY <1>1, <1>2 DEF Telling

\* Other requests keep their words.
LEMMA OthersHaveWord ==
    ASSUME Telling, NEW c \in Requests, AnyStep(c), NEW d \in Requests, d # c
    PROVE  HasWord(d)'
<1>1. SUFFICES ASSUME pc'[d] \in {"startCommit", "settleCommit"}
               PROVE  \E i \in DOMAIN log' :
                         /\ log'[i].by = d /\ log'[i].state = "open"
                         /\ log'[i].type \in {"job.started", "job.completed"}
                         /\ log'[i].job = req'[d].job
  BY DEF HasWord, Job, IsOpen, Tells
<1>2. pc'[d] = pc[d] /\ req'[d] = req[d]
  BY OthersStay
<1>3. PICK i \in DOMAIN log : IsOpen(d, log[i]) /\ Tells(i, Job(d))
  BY <1>1, <1>2 DEF Telling, HasWord
<1>4. i \in DOMAIN log' /\ SameWord(i)
  <2>1. CASE QuietStep(c) \/ MarkStep(c)
    BY <2>1 DEF QuietStep, MarkStep, SameWord
  <2>2. CASE (\E e : AddStep(c, e)) \/ (\E e : StartStep(c, e)) \/ (\E e : SettleStep(c, e))
    <3>1. PICK e : Added(e)
      BY <2>2 DEF AddStep, StartStep, SettleStep
    <3>. QED
      BY <3>1 DEF Added, SameWord
  <2>3. CASE CommitStep(c) \/ LoseStep(c)
    <3>1. PICK s \in {"committed", "lost"} : Ends(c, s)
      BY <2>3 DEF CommitStep, LoseStep
    <3>. QED
      BY <1>3, <3>1 DEF Ends, SameRows, IsOpen, SameWord
  <2>. QED
    BY <2>1, <2>2, <2>3 DEF AnyStep
<1>. QED
  BY <1>2, <1>3, <1>4 DEF IsOpen, Tells, SameWord, Job

\* Steps that tell nothing of a job.
LEMMA TellingPlainStep ==
    ASSUME Telling, NEW c \in Requests, AnyStep(c), ~CommitStep(c),
           QuietStep(c) \/ MarkStep(c) \/ \E e : AddStep(c, e)
    PROVE  Telling'
<1>1. /\ pc[c] \notin {"startCommit", "settleCommit"}
      /\ pc'[c] \notin {"startCommit", "settleCommit"}
  BY DEF QuietStep, MarkStep, AddStep
<1>2. /\ DOMAIN log \subseteq DOMAIN log' /\ \A i \in DOMAIN log : log'[i] = log[i]
      /\ \A i \in DOMAIN log' :
            log'[i].type \in {"job.started", "job.completed"} => i \in DOMAIN log
  <2>1. CASE QuietStep(c) \/ MarkStep(c)
    BY <2>1 DEF QuietStep, MarkStep
  <2>2. CASE \E e : AddStep(c, e)
    <3>1. PICK e : Added(e) /\ e.type \notin {"job.started", "job.completed"}
      BY <2>2 DEF AddStep
    <3>. QED
      BY <3>1 DEF Added
  <2>. QED
    BY <2>1, <2>2
<1>3. ASSUME NEW i \in DOMAIN log', NEW j \in Jobs
      PROVE  OpenWord(i, j)'
  <2>1. SUFFICES ASSUME log'[i].state = "open", Tells(i, j)'
                 PROVE  OpenWord(i, j)'
    BY DEF OpenWord
  <2>2. i \in DOMAIN log /\ SameWord(i) /\ log[i].state = "open" /\ Tells(i, j)
    BY <1>2, <2>1 DEF Tells, SameWord
  <2>3. log[i].by # c /\ OpenWord(i, j)
    BY <1>1, <2>2, WordPlace DEF Telling
  <2>4. \A k \in DOMAIN log' : Tells(k, j)' /\ Live(k)' =>
            k \in DOMAIN log /\ Tells(k, j) /\ Live(k)
    BY <1>2 DEF Tells, Live
  <2>. QED
    BY <2>2, <2>3, <2>4, WordStays
<1>4. \A d \in Requests : HasWord(d)'
  <2>1. HasWord(c)'
    BY <1>1 DEF HasWord
  <2>. QED
    BY <2>1, OthersHaveWord
<1>. QED
  BY <1>3, <1>4, TellingStays

\* A new word on a job that has no open one.
LEMMA TellingNewWord ==
    ASSUME TypeOK, Telling, NEW c \in Requests, AnyStep(c), ~CommitStep(c), NEW e, Added(e),
           NEW n, n = Len(log) + 1, pc[c] \notin {"startCommit", "settleCommit"},
           e.by = c, e.state = "open", e.type \in {"job.started", "job.completed"},
           e.job = req'[c].job, Announced(n, c)',
           \A i \in DOMAIN log : log[i].state = "open" => ~Tells(i, e.job)
    PROVE  Telling'
<1>1. /\ n \in DOMAIN log' /\ log'[n] = e /\ n \in Nat
      /\ \A i \in DOMAIN log' : i # n => i \in DOMAIN log /\ log'[i] = log[i]
      /\ \A i \in DOMAIN log' : i <= n
      /\ Announced(n, c)'
  <2>1. n \in Nat /\ n <= n
    BY Positions DEF TypeOK
  <2>2. \A i \in DOMAIN log : i < n /\ i \in Nat
    BY Positions DEF TypeOK, Added
  <2>. QED
    BY <2>1, <2>2 DEF Added
<1>2. ASSUME NEW i \in DOMAIN log', NEW j \in Jobs
      PROVE  OpenWord(i, j)'
  <2>1. SUFFICES ASSUME log'[i].state = "open", Tells(i, j)'
                 PROVE  OpenWord(i, j)'
    BY DEF OpenWord
  <2>2. CASE i = n
    <3>1. Announced(i, c)' /\ log'[i].by = c
      BY <1>1, <2>2
    <3>. QED
      BY <1>1, <2>2, <3>1 DEF OpenWord, Announced
  <2>3. CASE i # n
    <3>1. i \in DOMAIN log /\ SameWord(i) /\ log[i].state = "open" /\ Tells(i, j)
      BY <1>1, <2>1, <2>3 DEF Tells, SameWord
    <3>2. log[i].by # c /\ OpenWord(i, j) /\ j # e.job
      BY <3>1, WordPlace DEF Telling
    <3>3. \A k \in DOMAIN log' : Tells(k, j)' /\ Live(k)' =>
              k \in DOMAIN log /\ Tells(k, j) /\ Live(k)
      BY <1>1, <3>2 DEF Tells, Live
    <3>. QED
      BY <3>1, <3>2, <3>3, WordStays
  <2>. QED
    BY <2>2, <2>3
<1>3. HasWord(c)'
  BY <1>1 DEF HasWord, IsOpen, Tells, Job
<1>. QED
  BY <1>2, <1>3, OthersHaveWord, TellingStays

\* A job that is started has no word yet.
LEMMA TellingStartStep ==
    ASSUME TypeOK, Telling, NEW c \in Requests, AnyStep(c), ~CommitStep(c), NEW e, StartStep(c, e)
    PROVE  Telling'
<1>1. /\ Added(e) /\ e.by = c /\ e.state = "open" /\ e.type = "job.started"
      /\ pc[c] = "start" /\ pc'[c] = "startCommit" /\ e.job \in FreshJobs
      /\ req'[c].job = e.job /\ write'[c][e.job] = e.info
  BY DEF StartStep
<1>2. PICK n : n = Len(log) + 1
  OBVIOUS
<1>3. Announced(n, c)'
  <2>1. log'[n] = e
    BY <1>1, <1>2 DEF Added
  <2>. QED
    BY <1>1, <2>1 DEF Announced, Job
<1>4. ASSUME NEW i \in DOMAIN log, log[i].state = "open", Tells(i, e.job)
      PROVE  FALSE
  <2>1. e.job \in Jobs /\ \A d \in Requests : Job(d) # e.job
    BY <1>1 DEF FreshJobs
  <2>. QED
    BY <1>4, <2>1, WordPlace
<1>. QED
  BY <1>1, <1>2, <1>3, <1>4, TellingNewWord

\* Who completes a job has its row, so nobody else has an open word.
LEMMA TellingSettleStep ==
    ASSUME TypeOK, \A d \in Requests : Place(d), Telling, NEW c \in Requests, AnyStep(c),
           ~CommitStep(c), NEW e, SettleStep(c, e)
    PROVE  Telling'
<1>1. /\ Added(e) /\ e.by = c /\ e.state = "open" /\ e.type = "job.completed"
      /\ pc[c] = "settle" /\ pc'[c] = "settleCommit" /\ e.job = Job(c)
      /\ req' = req /\ e.info = req[c].verdict /\ RowFree(c)
  BY DEF SettleStep
<1>2. PICK n : n = Len(log) + 1
  OBVIOUS
<1>3. Announced(n, c)'
  <2>1. log'[n] = e
    BY <1>1, <1>2 DEF Added
  <2>. QED
    BY <1>1, <2>1 DEF Announced, Job
<1>4. ASSUME NEW i \in DOMAIN log, log[i].state = "open", Tells(i, e.job)
      PROVE  FALSE
  <2>1. e.job \in Jobs
    BY <1>1 DEF Place, AtWork, Steps
  <2>2. PICK d \in Requests : Job(d) = e.job /\ pc[d] \in {"startCommit", "settleCommit"}
    BY <1>4, <2>1, WordPlace
  <2>3. write[d][e.job] # Nothing
    BY <2>2, Distinct DEF Place
  <2>4. d # c
    BY <1>1, <2>2
  <2>. QED
    BY <1>1, <2>3, <2>4 DEF RowFree
<1>5. e.job = req'[c].job
  BY <1>1 DEF Job
<1>. QED
  BY <1>1, <1>2, <1>3, <1>4, <1>5, TellingNewWord

\* The open words of others when a transaction ends.
LEMMA OpenAtEnd ==
    ASSUME Telling, NEW c \in Requests, AnyStep(c), NEW s \in {"committed", "lost"}, Ends(c, s),
           NEW i \in DOMAIN log', NEW j \in Jobs
    PROVE  OpenWord(i, j)'
<1>1. SUFFICES ASSUME log'[i].state = "open", Tells(i, j)'
               PROVE  OpenWord(i, j)'
  BY DEF OpenWord
<1>2. i \in DOMAIN log /\ SameWord(i) /\ log[i].state = "open" /\ Tells(i, j) /\ log[i].by # c
  BY <1>1 DEF Ends, SameRows, IsOpen, Tells, SameWord
<1>3. OpenWord(i, j)
  BY <1>2 DEF Telling
<1>4. \A k \in DOMAIN log' : Tells(k, j)' /\ Live(k)' =>
          k \in DOMAIN log /\ Tells(k, j) /\ Live(k)
  BY DEF Ends, SameRows, IsOpen, Tells, Live
<1>. QED
  BY <1>2, <1>3, <1>4, WordStays

\* Lost words were never told.
LEMMA TellingLoseStep ==
    ASSUME Telling, NEW c \in Requests, AnyStep(c), ~CommitStep(c), LoseStep(c)
    PROVE  Telling'
<1>1. Ends(c, "lost") /\ pc'[c] \in {"done", "failed"}
  BY DEF LoseStep
<1>2. HasWord(c)'
  BY <1>1 DEF HasWord
<1>. QED
  BY <1>1, <1>2, OpenAtEnd, OthersHaveWord, TellingStays

\* What is visible after a commit.
LEMMA CommitTells ==
    ASSUME NEW c, Ends(c, "committed"), NEW j
    PROVE  /\ DOMAIN log' = DOMAIN log
           /\ Told(j)' = Told(j) \cup {i \in DOMAIN log : IsOpen(c, log[i]) /\ Tells(i, j)}
           /\ \A i \in DOMAIN log : log'[i].info = log[i].info
<1>1. Told(j) = {i \in DOMAIN log : Tells(i, j) /\ Visible(log[i])}
  BY ToldIs
<1>2. Told(j)' = {i \in DOMAIN log' : Tells(i, j)' /\ Visible(log'[i])}
  BY ToldIs
<1>. QED
  BY <1>1, <1>2 DEF Ends, SameRows, IsOpen, Tells, Visible

\* A commit with a word on j tells the status it commits.
LEMMA CommitOfWord ==
    ASSUME TypeOK, NEW c \in Requests, Place(c), Writing, Telling, CommitStep(c),
           NEW j \in Jobs, NEW i \in DOMAIN log, IsOpen(c, log[i]), Tells(i, j)
    PROVE  /\ LastWord(j, i)' /\ status'[j] # Absent
<1>1. OpenWord(i, j) /\ log[i].state = "open" /\ log[i].by = c
  BY DEF Telling, IsOpen
<1>2. /\ Announced(i, c) /\ Job(c) = j
      /\ \A k \in DOMAIN log : Tells(k, j) /\ Live(k) => k <= i
  BY <1>1 DEF OpenWord, Tells, Announced
<1>3. i \in Told(j)' /\ \A k \in Told(j)' : k <= i
  <2>1. Ends(c, "committed")
    BY DEF CommitStep
  <2>2. Told(j)' = Told(j) \cup {k \in DOMAIN log : IsOpen(c, log[k]) /\ Tells(k, j)}
    BY <2>1, CommitTells
  <2>3. Told(j) = {k \in DOMAIN log : Tells(k, j) /\ Visible(log[k])}
    BY ToldIs
  <2>4. \A k \in Told(j)' : k \in DOMAIN log /\ Tells(k, j) /\ Live(k)
    BY <2>2, <2>3 DEF IsOpen, Visible, Live
  <2>. QED
    BY <1>2, <2>2, <2>4
<1>4. log'[i].info = log[i].info /\ raced' = raced
  BY CommitTells DEF CommitStep
<1>5. status'[j] = IF write[c][j] \in Statuses THEN write[c][j] ELSE status[j]
  BY DEF CommitStep
<1>6. CASE pc[c] = "startCommit"
  <2>1. log[i].info = write[c][j] /\ write[c][j] \in Statuses
    BY <1>2, <1>6 DEF Announced, Place
  <2>. QED
    BY <1>3, <1>4, <1>5, <2>1, Distinct DEF LastWord, Stands
<1>7. CASE pc[c] = "settleCommit"
  <2>1. /\ log[i].info = req[c].verdict /\ req[c].verdict \in {"completed", "failed"}
        /\ write[c][j] # Nothing /\ status[j] # Absent
    BY <1>2, <1>7 DEF Announced, Place, AtWork, Steps
  <2>2. SettleWrite(c, j)
    BY <1>2, <1>7, <2>1 DEF Writing, WriteOK, StartWrite, RunningWrite
  <2>3. status'[j] # Absent /\ (j \notin raced => status'[j] = req[c].verdict)
    BY <1>5, <2>1, <2>2, Distinct DEF SettleWrite
  <2>. QED
    BY <1>3, <1>4, <2>1, <2>3 DEF LastWord, Stands
<1>. QED
  BY <1>2, <1>6, <1>7 DEF Announced

\* Without one it leaves the status, or moves it from pending to running.
LEMMA CommitWithoutWord ==
    ASSUME NEW c \in Requests, Place(c), Writing, Telling, CommitStep(c), NEW j \in Jobs,
           \A i \in DOMAIN log : IsOpen(c, log[i]) => ~Tells(i, j)
    PROVE  \/ status'[j] = status[j]
           \/ /\ status'[j] = "running" /\ status[j] # Absent
              /\ j \notin raced => status[j] = "pending"
<1>1. SUFFICES ASSUME write[c][j] \in Statuses, status'[j] = write[c][j]
               PROVE  /\ status'[j] = "running" /\ status[j] # Absent
                      /\ j \notin raced => status[j] = "pending"
  BY DEF CommitStep
<1>2. ~StartWrite(c, j) /\ ~SettleWrite(c, j)
  BY DEF StartWrite, SettleWrite, Telling, HasWord
<1>3. RunningWrite(c, j)
  BY <1>1, <1>2, Distinct DEF Writing, WriteOK
<1>. QED
  BY <1>1, <1>3 DEF RunningWrite

\* What a commit tells is what it writes.
LEMMA TellingCommitStep ==
    ASSUME TypeOK, NEW c \in Requests, Place(c), Writing, Telling, AnyStep(c), CommitStep(c)
    PROVE  Telling'
<1>1. /\ Ends(c, "committed") /\ pc'[c] \notin {"startCommit", "settleCommit"} /\ raced' = raced
  BY DEF CommitStep
<1>2. \A i \in DOMAIN log', j \in Jobs : OpenWord(i, j)'
  BY <1>1, OpenAtEnd
<1>3. \A d \in Requests : HasWord(d)'
  <2>1. HasWord(c)'
    BY <1>1 DEF HasWord
  <2>. QED
    BY <2>1, OthersHaveWord
<1>4. ASSUME NEW j \in Jobs
      PROVE  /\ status'[j] = Absent => Told(j)' = {}
             /\ status'[j] # Absent => \E m \in DOMAIN log' : LastWord(j, m)'
  <2>1. CASE \E i \in DOMAIN log : IsOpen(c, log[i]) /\ Tells(i, j)
    <3>1. PICK i \in DOMAIN log : IsOpen(c, log[i]) /\ Tells(i, j)
      BY <2>1
    <3>2. i \in DOMAIN log' /\ LastWord(j, i)' /\ status'[j] # Absent
      BY <1>1, <3>1, CommitOfWord, CommitTells
    <3>. QED
      BY <3>2
  <2>2. CASE \A i \in DOMAIN log : IsOpen(c, log[i]) => ~Tells(i, j)
    <3>1. \/ status'[j] = status[j]
          \/ /\ status'[j] = "running" /\ status[j] # Absent
             /\ j \notin raced => status[j] = "pending"
      BY <2>2, CommitWithoutWord
    <3>2. /\ Told(j)' = Told(j) /\ DOMAIN log' = DOMAIN log
          /\ \A i \in DOMAIN log : log'[i].info = log[i].info
      BY <1>1, <2>2, CommitTells
    <3>3. status'[j] = Absent => status[j] = Absent
      BY <3>1, Distinct
    <3>4. ASSUME status'[j] # Absent
          PROVE  \E m \in DOMAIN log' : LastWord(j, m)'
      <4>1. status[j] # Absent
        BY <3>1, <3>4
      <4>2. PICK m \in DOMAIN log : LastWord(j, m)
        BY <4>1 DEF Telling
      <4>3. j \notin raced => Stands(status'[j], log[m].info)
        BY <3>1, <4>2 DEF LastWord, Stands
      <4>4. LastWord(j, m)'
        BY <1>1, <3>2, <4>2, <4>3 DEF LastWord, Stands
      <4>. QED
        BY <3>2, <4>2, <4>4
    <3>. QED
      BY <3>2, <3>3, <3>4 DEF Telling
  <2>. QED
    BY <2>1, <2>2
<1>. QED
  BY <1>2, <1>3, <1>4 DEF Telling

\* Every step of a request keeps Telling.
LEMMA TellingStep ==
    ASSUME TypeOK, \A d \in Requests : Place(d), Writing, Telling, NEW c \in Requests, AnyStep(c)
    PROVE  Telling'
<1>1. CASE CommitStep(c)
  BY <1>1, TellingCommitStep
<1>2. CASE ~CommitStep(c)
  BY <1>2, TellingPlainStep, TellingStartStep, TellingSettleStep, TellingLoseStep DEF AnyStep
<1>. QED
  BY <1>1, <1>2

\* The invariant the runs check.
LEMMA StatusHolds ==
    ASSUME TypeOK, Telling
    PROVE  StatusTold
<1>1. SUFFICES ASSUME NEW j \in Jobs \ raced, status[j] # Absent
               PROVE  Stands(status[j], log[Max(Told(j))].info)
  BY DEF StatusTold, Stands
<1>2. PICK m \in DOMAIN log : LastWord(j, m)
  BY <1>1 DEF Telling
<1>3. Told(j) \subseteq DOMAIN log
  BY ToldIs
<1>4. Len(log) \in Nat /\ Told(j) \subseteq Nat /\ \A x \in Told(j) : x <= Len(log)
  BY <1>3, Positions DEF TypeOK
<1>5. Max(Told(j)) = m
  BY <1>2, <1>4, MaxOf DEF LastWord
<1>. QED
  BY <1>1, <1>2, <1>5 DEF LastWord

-----------------------------------------------------------------------------
(* Decisions.                                                              *)

\* The state of an entry changes only when the transaction of its author ends.
LEMMA StateSteps ==
    ASSUME NEW c \in Requests, AnyStep(c), NEW i \in DOMAIN log
    PROVE  \/ log'[i].state = log[i].state
           \/ IsOpen(c, log[i]) /\ CommitStep(c) /\ log'[i].state = "committed"
           \/ IsOpen(c, log[i]) /\ LoseStep(c) /\ log'[i].state = "lost"
<1>1. CASE QuietStep(c) \/ MarkStep(c)
  BY <1>1 DEF QuietStep, MarkStep
<1>2. CASE (\E e : AddStep(c, e)) \/ (\E e : StartStep(c, e)) \/ (\E e : SettleStep(c, e))
  <2>1. PICK e : Added(e)
    BY <1>2 DEF AddStep, StartStep, SettleStep
  <2>. QED
    BY <2>1 DEF Added
<1>3. CASE CommitStep(c)
  BY <1>3 DEF CommitStep, Ends
<1>4. CASE LoseStep(c)
  BY <1>4 DEF LoseStep, Ends
<1>. QED
  BY <1>1, <1>2, <1>3, <1>4 DEF AnyStep

\* The entries of other requests.
LEMMA OthersEntries ==
    ASSUME NEW c \in Requests, AnyStep(c), NEW d, d # c
    PROVE  /\ DOMAIN log \subseteq DOMAIN log'
           /\ \A i \in DOMAIN log' : log'[i].by = d => i \in DOMAIN log /\ log[i].by = d
           /\ \A i \in DOMAIN log : log[i].by = d => SameWord(i)
<1>1. CASE QuietStep(c) \/ MarkStep(c)
  BY <1>1 DEF QuietStep, MarkStep, SameWord
<1>2. CASE (\E e : AddStep(c, e)) \/ (\E e : StartStep(c, e)) \/ (\E e : SettleStep(c, e))
  <2>1. PICK e : Added(e) /\ e.by = c
    BY <1>2 DEF AddStep, StartStep, SettleStep
  <2>. QED
    BY <2>1 DEF Added, SameWord
<1>3. CASE CommitStep(c) \/ LoseStep(c)
  <2>1. PICK s \in {"committed", "lost"} : Ends(c, s)
    BY <1>3 DEF CommitStep, LoseStep
  <2>. QED
    BY <2>1 DEF Ends, SameRows, IsOpen, SameWord
<1>. QED
  BY <1>1, <1>2, <1>3 DEF AnyStep

\* A failure stays what it is.
LEMMA FailedStays ==
    ASSUME NEW i \in DOMAIN log, NEW k \in DOMAIN log, Failed(i, k), Kept
    PROVE  Failed(i, k)' /\ k \in DOMAIN log'
  BY DEF Failed, Kept

\* An open veto of the request that moves.
LEMMA OwnVeto ==
    ASSUME TypeOK, NEW c \in Requests, AnyStep(c), Kept, NEW i \in DOMAIN log,
           log[i].by = c, OpenVeto(i)
    PROVE  /\ CommitStep(c) => ToldVeto(i)'
           /\ CommitStep(c) \/ LoseStep(c) \/ OpenVeto(i)'
<1>1. CASE ~CommitStep(c) /\ \E e : SettleStep(c, e)
  <2>1. PICK e : SettleStep(c, e)
    BY <1>1
  <2>2. PICK n : n = Len(log) + 1
    OBVIOUS
  <2>3. /\ n \in DOMAIN log' /\ log'[n] = e /\ i < n /\ n \in Nat /\ i \in Nat
        /\ e.by = c /\ e.type = "job.completed" /\ e.state = "open" /\ e.job = Job(c)
        /\ e.info = req[c].verdict
        /\ pc[c] = "settle" /\ pc'[c] = "settleCommit" /\ req' = req
    BY <2>1, <2>2, Positions DEF SettleStep, Added, TypeOK
  <2>4. req[c].verdict = "failed" /\ Job(c) = log[i].job
    BY <2>3 DEF OpenVeto
  <2>5. log'[i].by = c /\ log'[i].job = log[i].job
    BY DEF Kept
  <2>6. Failed(i, n)'
    BY <2>3, <2>4, <2>5 DEF Failed
  <2>7. OpenVeto(i)'
    BY <2>3, <2>4, <2>5, <2>6 DEF OpenVeto, Job
  <2>. QED
    BY <1>1, <2>7
<1>2. CASE CommitStep(c)
  <2>1. pc[c] = "settleCommit" /\ Ends(c, "committed")
    BY <1>2 DEF CommitStep, OpenVeto
  <2>2. PICK k \in DOMAIN log : Failed(i, k) /\ log[k].state = "open"
    BY <2>1 DEF OpenVeto
  <2>3. Visible(log'[k])
    BY <2>1, <2>2 DEF Ends, IsOpen, Failed, Visible
  <2>4. Failed(i, k)' /\ k \in DOMAIN log'
    BY <2>2, FailedStays
  <2>. QED
    BY <1>2, <2>3, <2>4 DEF ToldVeto
<1>3. CASE LoseStep(c) /\ ~CommitStep(c)
  BY <1>3
<1>4. CASE ~LoseStep(c) /\ ~CommitStep(c) /\ ~\E e : SettleStep(c, e)
  <2>1. pc[c] \in {"settle", "settleCommit"}
    BY DEF OpenVeto
  <2>2. QuietStep(c)
    BY <1>4, <2>1 DEF AnyStep, MarkStep, AddStep, StartStep
  <2>3. /\ pc[c] = "settle" /\ pc'[c] = "settle"
        /\ req'[c].job = req[c].job /\ req'[c].verdict = req[c].verdict
    BY <2>1, <2>2 DEF QuietStep
  <2>4. log'[i].by = c /\ log'[i].job = log[i].job
    BY DEF Kept
  <2>5. OpenVeto(i)'
    BY <2>1, <2>3, <2>4 DEF OpenVeto, Job
  <2>. QED
    BY <1>4, <2>5
<1>. QED
  BY <1>1, <1>2, <1>3, <1>4

\* An open veto of another request.
LEMMA OthersVeto ==
    ASSUME NEW c \in Requests, AnyStep(c), Kept, NEW i \in DOMAIN log,
           log[i].by \in Requests, log[i].by # c, OpenVeto(i)
    PROVE  OpenVeto(i)'
<1>1. pc'[log[i].by] = pc[log[i].by] /\ req'[log[i].by] = req[log[i].by]
  BY OthersStay
<1>2. log'[i].by = log[i].by /\ log'[i].job = log[i].job
  BY DEF Kept
<1>3. ASSUME NEW k \in DOMAIN log, Failed(i, k), log[k].state = "open"
      PROVE  k \in DOMAIN log' /\ Failed(i, k)' /\ log'[k].state = "open"
  <2>1. log[k].by # c
    BY <1>3 DEF Failed
  <2>2. log'[k].state = log[k].state
    BY <2>1, StateSteps DEF IsOpen
  <2>. QED
    BY <1>3, <2>2, FailedStays
<1>. QED
  BY <1>1, <1>2, <1>3 DEF OpenVeto, Job

\* Every step of a request keeps Deciding.
LEMMA DecidingStep ==
    ASSUME TypeOK, Deciding, NEW c \in Requests, AnyStep(c)
    PROVE  Deciding'
<1>1. Kept
  BY VisibleStays
<1>2. SUFFICES ASSUME NEW i \in DOMAIN log', log'[i].type = "cohesion.veto"
               PROVE  /\ log'[i].by \in Requests
                      /\ log'[i].state = "open" => OpenVeto(i)'
                      /\ Visible(log'[i]) => ToldVeto(i)'
  BY DEF Deciding
<1>3. CASE i \in DOMAIN log
  <2>1. /\ log[i].by \in Requests /\ log'[i].by = log[i].by
        /\ log[i].state = "open" => OpenVeto(i)
        /\ Visible(log[i]) => ToldVeto(i)
    BY <1>1, <1>2, <1>3 DEF Kept, Deciding
  <2>2. \/ log'[i].state = log[i].state
        \/ IsOpen(c, log[i]) /\ CommitStep(c) /\ log'[i].state = "committed"
        \/ IsOpen(c, log[i]) /\ LoseStep(c) /\ log'[i].state = "lost"
    BY <1>3, StateSteps
  <2>3. CASE log[i].state = "open" /\ log[i].by = c
    <3>1. /\ CommitStep(c) => ToldVeto(i)'
          /\ CommitStep(c) \/ LoseStep(c) \/ OpenVeto(i)'
      BY <1>1, <1>3, <2>1, <2>3, OwnVeto
    <3>2. /\ CommitStep(c) => log'[i].state = "committed"
          /\ LoseStep(c) => log'[i].state = "lost"
      BY <1>3, <2>3 DEF CommitStep, LoseStep, Ends, IsOpen
    <3>3. log'[i].state \in {"open", "committed", "lost"}
      BY <2>2, <2>3
    <3>4. log'[i].state = "committed" => CommitStep(c)
      BY <2>2, <2>3
    <3>. QED
      BY <2>1, <3>1, <3>2, <3>3, <3>4 DEF Visible
  <2>4. CASE log[i].state = "open" /\ log[i].by # c
    <3>1. log'[i].state = "open"
      BY <2>2, <2>4 DEF IsOpen
    <3>. QED
      BY <1>1, <1>3, <2>1, <2>4, <3>1, OthersVeto DEF Visible
  <2>5. CASE log[i].state # "open"
    <3>1. log'[i].state = log[i].state
      BY <2>2, <2>5 DEF IsOpen
    <3>2. Visible(log[i]) => ToldVeto(i)'
      <4>1. SUFFICES ASSUME Visible(log[i])
                     PROVE  \E k \in DOMAIN log' : Failed(i, k)' /\ Visible(log'[k])
        BY DEF ToldVeto
      <4>2. PICK k \in DOMAIN log : Failed(i, k) /\ Visible(log[k])
        BY <2>1, <4>1 DEF ToldVeto
      <4>3. Failed(i, k)' /\ k \in DOMAIN log' /\ Visible(log'[k])
        BY <1>1, <1>3, <4>2, FailedStays DEF Kept
      <4>. QED
        BY <4>3
    <3>. QED
      BY <2>1, <2>5, <3>1, <3>2 DEF Visible
  <2>. QED
    BY <2>3, <2>4, <2>5
<1>4. CASE i \notin DOMAIN log
  <2>1. PICK e : AddStep(c, e)
    <3>1. DOMAIN log' # DOMAIN log
      BY <1>2, <1>4
    <3>2. ASSUME NEW e, Added(e), e.type # "cohesion.veto"
          PROVE  FALSE
      BY <1>2, <1>4, <3>2 DEF Added
    <3>. QED
      BY <3>1, <3>2 DEF AnyStep, QuietStep, MarkStep, StartStep, SettleStep, CommitStep, LoseStep,
                        Ends, SameRows
  <2>2. log'[i] = e
    BY <1>2, <1>4, <2>1 DEF AddStep, Added
  <2>3. /\ e.by = c /\ e.state = "open" /\ e.job = Job(c) /\ req'[c].job = req[c].job
        /\ pc'[c] = "settle" /\ req'[c].verdict = "failed"
    BY <1>2, <2>1, <2>2 DEF AddStep
  <2>4. OpenVeto(i)'
    BY <2>2, <2>3 DEF OpenVeto, Job
  <2>. QED
    BY <2>2, <2>3, <2>4 DEF Visible
<1>. QED
  BY <1>3, <1>4

-----------------------------------------------------------------------------
(* Merges.                                                                 *)

\* No step changes the kind of a request.
LEMMA KindStays ==
    ASSUME NEW c \in Requests, AnyStep(c), NEW d \in Requests
    PROVE  req'[d].kind = req[d].kind
<1>1. CASE d = c
  BY <1>1 DEF AnyStep, QuietStep, MarkStep, AddStep, StartStep, SettleStep, CommitStep, LoseStep,
              Holds, SameTask
<1>2. CASE d # c
  BY <1>2, OthersStay
<1>. QED
  BY <1>1, <1>2

\* An outcome is new only where its request settles its job.
LEMMA OutcomeSteps ==
    ASSUME TypeOK, NEW c \in Requests, AnyStep(c), Kept, NEW i \in DOMAIN log,
           NEW k \in DOMAIN log', Outcome(i, k)'
    PROVE  \/ k \in DOMAIN log /\ Outcome(i, k)
           \/ /\ log[i].by = c /\ Job(c) = log[i].job
              /\ log'[k].state = "open" /\ log'[k].info = req[c].verdict
              /\ pc[c] = "settle" /\ pc'[c] = "settleCommit"
<1>1. CASE k \in DOMAIN log
  BY <1>1 DEF Kept, Outcome
<1>2. CASE k \notin DOMAIN log
  <2>1. log'[k].type = "job.completed" /\ log'[k].by = log[i].by /\ log'[k].job = log[i].job
    BY DEF Kept, Outcome
  <2>2. PICK e : SettleStep(c, e)
    <3>1. DOMAIN log' # DOMAIN log
      BY <1>2
    <3>2. ASSUME NEW e, Added(e), e.type # "job.completed"
          PROVE  FALSE
      BY <1>2, <2>1, <3>2 DEF Added
    <3>. QED
      BY <3>1, <3>2 DEF AnyStep, QuietStep, MarkStep, AddStep, StartStep, CommitStep, LoseStep,
                        Ends, SameRows
  <2>3. log'[k] = e
    BY <1>2, <2>2 DEF SettleStep, Added
  <2>. QED
    BY <2>1, <2>2, <2>3 DEF SettleStep
<1>. QED
  BY <1>1, <1>2

\* An outcome stays what it is.
LEMMA OutcomeStays ==
    ASSUME NEW i \in DOMAIN log, NEW k \in DOMAIN log, Outcome(i, k), Kept
    PROVE  /\ k \in DOMAIN log' /\ Outcome(i, k)'
           /\ log'[k].by = log[i].by /\ log'[k].info = log[k].info
  BY DEF Outcome, Kept

\* A merge that the request commits.
LEMMA OwnMerge ==
    ASSUME TypeOK, NEW c \in Requests, AnyStep(c), Kept, NEW i \in DOMAIN log,
           log[i].by = c, OpenMerge(i)
    PROVE  (CommitStep(c) /\ ToldMerge(i)') \/ LoseStep(c)
<1>1. pc[c] = "approveCommit" /\ Job(c) = log[i].job
  BY DEF OpenMerge
<1>2. CommitStep(c) \/ LoseStep(c)
  BY <1>1 DEF AnyStep, QuietStep, MarkStep, AddStep, StartStep, SettleStep
<1>3. CASE CommitStep(c)
  <2>1. /\ pc'[c] = "settle" /\ req'[c].job = req[c].job /\ req'[c].kind = req[c].kind
        /\ Right(c, req'[c].verdict)
    BY <1>1, <1>3 DEF CommitStep, SameTask
  <2>2. log'[i].by = c /\ log'[i].job = log[i].job
    BY DEF Kept
  <2>3. \A k \in DOMAIN log' : ~Outcome(i, k)'
    BY <1>1, OutcomeSteps DEF OpenMerge
  <2>4. Waiting(i)'
    BY <1>1, <2>1, <2>2, <2>3 DEF Waiting, Job, Right, Kind
  <2>. QED
    BY <1>3, <2>4 DEF ToldMerge
<1>. QED
  BY <1>2, <1>3

\* A merge of a request that waits for its outcome.
LEMMA OwnWaiting ==
    ASSUME TypeOK, NEW c \in Requests, AnyStep(c), Kept, NEW i \in DOMAIN log,
           log[i].by = c, Waiting(i)
    PROVE  ToldMerge(i)'
<1>1. log'[i].by = c /\ log'[i].job = log[i].job /\ req'[c].kind = req[c].kind
  BY KindStays DEF Kept
<1>2. /\ pc[c] \in {"settle", "settleCommit"} /\ Job(c) = log[i].job
      /\ Right(c, req[c].verdict)
  BY DEF Waiting
<1>3. CASE QuietStep(c)
  <2>1. /\ pc[c] = "settle" /\ pc'[c] = "settle" /\ log' = log
        /\ req'[c].job = req[c].job /\ req'[c].verdict = req[c].verdict
    BY <1>2, <1>3 DEF QuietStep
  <2>2. \A k \in DOMAIN log' : ~Outcome(i, k)'
    BY <2>1 DEF Waiting, Outcome
  <2>3. Waiting(i)'
    BY <1>1, <1>2, <2>1, <2>2 DEF Waiting, Job, Right, Kind
  <2>. QED
    BY <2>3 DEF ToldMerge
<1>4. CASE \E e : SettleStep(c, e)
  <2>1. PICK e : SettleStep(c, e)
    BY <1>4
  <2>2. PICK n : n = Len(log) + 1
    OBVIOUS
  <2>3. /\ n \in DOMAIN log' /\ log'[n] = e /\ i < n /\ n \in Nat /\ i \in Nat
        /\ e.by = c /\ e.type = "job.completed" /\ e.job = Job(c)
        /\ pc[c] = "settle" /\ pc'[c] = "settleCommit" /\ req' = req
    BY <2>1, <2>2, Positions DEF SettleStep, Added, TypeOK
  <2>4. Outcome(i, n)'
    BY <1>1, <1>2, <2>3 DEF Outcome
  <2>5. \A k \in DOMAIN log' : Outcome(i, k)' =>
            log'[k].state = "open" /\ log'[k].info = req[c].verdict
    BY <2>3, OutcomeSteps DEF Waiting
  <2>6. Waiting(i)'
    BY <1>1, <1>2, <2>3, <2>4, <2>5 DEF Waiting, Job, Right, Kind
  <2>. QED
    BY <2>6 DEF ToldMerge
<1>5. CASE CommitStep(c)
  <2>1. /\ pc[c] = "settleCommit" /\ pc'[c] \in {"done", "finish", "start"}
        /\ Ends(c, "committed")
    BY <1>2, <1>5 DEF CommitStep
  <2>2. PICK v \in {"completed", "failed"} : v = req[c].verdict
    BY <1>2 DEF Right
  <2>3. PICK k \in DOMAIN log : Outcome(i, k)
    BY <2>1 DEF Waiting
  <2>4. k \in DOMAIN log' /\ Outcome(i, k)'
    BY <2>3, OutcomeStays
  <2>5. ASSUME NEW m \in DOMAIN log', Outcome(i, m)'
        PROVE  Visible(log'[m]) /\ log'[m].info = v
    <3>1. m \in DOMAIN log /\ Outcome(i, m)
      BY <2>1, <2>5, OutcomeSteps
    <3>2. log[m].state = "open" /\ log[m].info = req[c].verdict /\ log[m].by = c
      BY <2>1, <3>1 DEF Waiting, Outcome
    <3>. QED
      BY <2>1, <2>2, <3>1, <3>2 DEF Ends, SameRows, IsOpen, Visible
  <2>6. Carried(i, v)'
    BY <1>1, <1>2, <2>1, <2>2, <2>4, <2>5 DEF Carried, Right, Kind
  <2>. QED
    BY <2>6 DEF ToldMerge
<1>6. CASE LoseStep(c)
  <2>1. pc'[c] = "failed" /\ Ends(c, "lost")
    BY <1>2, <1>6 DEF LoseStep
  <2>2. ASSUME NEW m \in DOMAIN log', Outcome(i, m)'
        PROVE  log'[m].state = "lost"
    <3>1. m \in DOMAIN log /\ Outcome(i, m)
      BY <2>1, <2>2, OutcomeSteps
    <3>2. log[m].state = "open" /\ log[m].by = c
      BY <3>1 DEF Waiting, Outcome
    <3>. QED
      BY <2>1, <3>1, <3>2 DEF Ends, IsOpen
  <2>3. Abandoned(i)'
    BY <1>1, <2>1, <2>2 DEF Abandoned
  <2>. QED
    BY <2>3 DEF ToldMerge
<1>. QED
  BY <1>2, <1>3, <1>4, <1>5, <1>6 DEF AnyStep, MarkStep, AddStep, StartStep

\* A request does not start a job it has merged before.
LEMMA MergedIsNotFresh ==
    ASSUME TypeOK, Telling, NEW i \in DOMAIN log, NEW v, Carried(i, v)
    PROVE  log[i].job \notin FreshJobs
<1>1. PICK k \in DOMAIN log : Outcome(i, k) /\ Visible(log[k])
  BY DEF Carried
<1>2. k \in Told(log[i].job)
  BY <1>1, ToldIs DEF Outcome, Tells
<1>. QED
  BY <1>2 DEF Telling, FreshJobs

\* A merge of a request that has its outcome.
LEMMA OwnCarried ==
    ASSUME TypeOK, Telling, NEW c \in Requests, AnyStep(c), Kept, NEW i \in DOMAIN log,
           log[i].by = c, NEW v, Carried(i, v)
    PROVE  Carried(i, v)'
<1>1. log'[i].by = c /\ log'[i].job = log[i].job /\ req'[c].kind = req[c].kind
  BY KindStays DEF Kept
<1>2. /\ pc[c] # "idle" /\ Right(c, v)
      /\ Job(c) = log[i].job => pc[c] \in {"finish", "start", "close", "done", "failed"}
  BY DEF Carried
<1>3. pc'[c] # "idle"
  BY <1>2 DEF AnyStep, QuietStep, MarkStep, AddStep, StartStep, SettleStep, CommitStep, LoseStep
<1>4. Job(c)' = log[i].job => pc'[c] \in {"finish", "start", "close", "done", "failed"}
  <2>1. CASE QuietStep(c) \/ MarkStep(c) \/ CommitStep(c) \/ LoseStep(c)
    BY <1>2, <2>1 DEF QuietStep, MarkStep, CommitStep, LoseStep, Holds, SameTask, Job
  <2>2. CASE \E e : AddStep(c, e)
    BY <1>2, <2>2 DEF AddStep, Job
  <2>3. CASE \E e : StartStep(c, e)
    BY <2>3, MergedIsNotFresh DEF StartStep, Job
  <2>4. CASE \E e : SettleStep(c, e)
    BY <1>2, <2>4 DEF SettleStep, Job
  <2>. QED
    BY <2>1, <2>2, <2>3, <2>4 DEF AnyStep
<1>5. PICK k \in DOMAIN log : Outcome(i, k)
  BY DEF Carried
<1>6. k \in DOMAIN log' /\ Outcome(i, k)'
  BY <1>5, OutcomeStays
<1>7. ASSUME NEW m \in DOMAIN log', Outcome(i, m)'
      PROVE  Visible(log'[m]) /\ log'[m].info = v
  <2>1. m \in DOMAIN log /\ Outcome(i, m)
    BY <1>2, <1>7, OutcomeSteps
  <2>. QED
    BY <2>1 DEF Carried, Kept
<1>8. Right(c, v)'
  BY <1>1, <1>2 DEF Right, Kind
<1>. QED
  BY <1>1, <1>3, <1>4, <1>6, <1>7, <1>8 DEF Carried, Right, Kind

\* A merge of another request.
LEMMA OthersMerge ==
    ASSUME TypeOK, NEW c \in Requests, AnyStep(c), Kept, NEW i \in DOMAIN log,
           log[i].by \in Requests, log[i].by # c
    PROVE  /\ OpenMerge(i) => OpenMerge(i)'
           /\ ToldMerge(i) => ToldMerge(i)'
<1> DEFINE b == log[i].by
<1>1. pc'[b] = pc[b] /\ req'[b] = req[b]
  BY OthersStay
<1>2. log'[i].by = b /\ log'[i].job = log[i].job
  BY DEF Kept
<1>3. ASSUME NEW k \in DOMAIN log', Outcome(i, k)'
      PROVE  k \in DOMAIN log /\ Outcome(i, k)
  BY <1>3, OutcomeSteps
<1>4. ASSUME NEW k \in DOMAIN log, Outcome(i, k)
      PROVE  /\ k \in DOMAIN log' /\ Outcome(i, k)'
             /\ log'[k].state = log[k].state /\ log'[k].info = log[k].info
  <2>1. SameWord(k)
    BY <1>4, OthersEntries DEF Outcome
  <2>. QED
    BY <1>4, <2>1, OutcomeStays DEF SameWord
<1>5. OpenMerge(i) => OpenMerge(i)'
  BY <1>1, <1>2, <1>3 DEF OpenMerge, Job
<1>6. Waiting(i) => Waiting(i)'
  BY <1>1, <1>2, <1>3, <1>4 DEF Waiting, Job, Right, Kind
<1>7. Abandoned(i) => Abandoned(i)'
  BY <1>1, <1>2, <1>3, <1>4 DEF Abandoned
<1>8. ASSUME NEW v, Carried(i, v)
      PROVE  Carried(i, v)'
  BY <1>1, <1>2, <1>3, <1>4, <1>8 DEF Carried, Job, Right, Kind, Visible
<1>. QED
  BY <1>5, <1>6, <1>7, <1>8 DEF ToldMerge

\* A merge that is new is open and has no outcome.
LEMMA NewMerge ==
    ASSUME TypeOK, NEW c \in Requests, AnyStep(c), NEW i \in DOMAIN log', i \notin DOMAIN log,
           log'[i].type = "cohesion.merge"
    PROVE  log'[i].by = c /\ log'[i].state = "open" /\ OpenMerge(i)'
<1>1. PICK e : AddStep(c, e)
  <2>1. DOMAIN log' # DOMAIN log
    OBVIOUS
  <2>2. ASSUME NEW e, Added(e), e.type # "cohesion.merge"
        PROVE  FALSE
    BY <2>2 DEF Added
  <2>. QED
    BY <2>1, <2>2 DEF AnyStep, QuietStep, MarkStep, StartStep, SettleStep, CommitStep, LoseStep,
                      Ends, SameRows
<1>2. log'[i] = e /\ i = Len(log) + 1
  BY <1>1 DEF AddStep, Added
<1>3. /\ e.by = c /\ e.state = "open" /\ e.job = Job(c) /\ req'[c].job = req[c].job
      /\ pc'[c] = "approveCommit"
  BY <1>1, <1>2 DEF AddStep
<1>4. \A k \in DOMAIN log' : ~(k > i)
  <2>1. \A k \in DOMAIN log : k \in Nat /\ k < i
    BY <1>1, <1>2, Positions DEF AddStep, Added, TypeOK
  <2>2. i \in Nat
    BY <1>2, Positions DEF TypeOK
  <2>. QED
    BY <1>1, <1>2, <2>1, <2>2 DEF AddStep, Added
<1>5. OpenMerge(i)'
  BY <1>2, <1>3, <1>4 DEF OpenMerge, Outcome, Job
<1>. QED
  BY <1>2, <1>3, <1>5

\* Every step of a request keeps Merging.
LEMMA MergingStep ==
    ASSUME TypeOK, Telling, Merging, NEW c \in Requests, AnyStep(c)
    PROVE  Merging'
<1>1. Kept
  BY VisibleStays
<1>2. SUFFICES ASSUME NEW i \in DOMAIN log', log'[i].type = "cohesion.merge"
               PROVE  /\ log'[i].by \in Requests
                      /\ log'[i].state = "open" => OpenMerge(i)'
                      /\ Visible(log'[i]) => ToldMerge(i)'
  BY DEF Merging
<1>3. CASE i \in DOMAIN log
  <2>1. /\ log[i].by \in Requests /\ log'[i].by = log[i].by
        /\ log[i].state = "open" => OpenMerge(i)
        /\ Visible(log[i]) => ToldMerge(i)
    BY <1>1, <1>2, <1>3 DEF Kept, Merging
  <2>2. \/ log'[i].state = log[i].state
        \/ IsOpen(c, log[i]) /\ CommitStep(c) /\ log'[i].state = "committed"
        \/ IsOpen(c, log[i]) /\ LoseStep(c) /\ log'[i].state = "lost"
    BY <1>3, StateSteps
  <2>3. CASE log[i].by # c
    <3>1. log'[i].state = log[i].state
      BY <2>2, <2>3 DEF IsOpen
    <3>. QED
      BY <1>1, <1>3, <2>1, <2>3, <3>1, OthersMerge DEF Visible
  <2>4. CASE log[i].by = c /\ log[i].state = "open"
    <3>1. (CommitStep(c) /\ ToldMerge(i)') \/ LoseStep(c)
      BY <1>1, <1>3, <2>1, <2>4, OwnMerge
    <3>2. CASE LoseStep(c)
      <4>1. log'[i].state = "lost"
        BY <1>3, <2>4, <3>2 DEF LoseStep, Ends, IsOpen
      <4>. QED
        BY <2>1, <4>1 DEF Visible
    <3>3. CASE CommitStep(c) /\ ToldMerge(i)'
      <4>1. log'[i].state = "committed"
        BY <1>3, <2>4, <3>3 DEF CommitStep, Ends, IsOpen
      <4>. QED
        BY <2>1, <3>3, <4>1
    <3>. QED
      BY <3>1, <3>2, <3>3
  <2>5. CASE log[i].by = c /\ log[i].state # "open"
    <3>1. log'[i].state = log[i].state
      BY <2>2, <2>5 DEF IsOpen
    <3>2. ASSUME Abandoned(i)
          PROVE  FALSE
      BY <2>5, <3>2 DEF Abandoned, AnyStep, QuietStep, MarkStep, AddStep, StartStep, SettleStep,
                        CommitStep, LoseStep
    <3>3. ToldMerge(i) => ToldMerge(i)'
      BY <1>1, <1>3, <2>5, <3>2, OwnWaiting, OwnCarried DEF ToldMerge
    <3>. QED
      BY <2>1, <2>5, <3>1, <3>3 DEF Visible
  <2>. QED
    BY <2>3, <2>4, <2>5
<1>4. CASE i \notin DOMAIN log
  BY <1>2, <1>4, NewMerge DEF Visible
<1>. QED
  BY <1>3, <1>4

-----------------------------------------------------------------------------
(* Waves of families.                                                      *)

\* Primed sets of entries.
LEMMA Primed ==
    ASSUME NEW c, NEW t
    PROVE  /\ By(c, t)' = {i \in DOMAIN log' : /\ log'[i].by = c /\ log'[i].type = t
                                               /\ Visible(log'[i])}
           /\ OpenEnds(c)' = {i \in DOMAIN log' : /\ log'[i].by = c /\ log'[i].state = "open"
                                                  /\ log'[i].type = "wave.finished"}
  BY DEF By, OpenEnds, IsOpen

\* The waves of other requests.
LEMMA OthersWave ==
    ASSUME NEW c \in Requests, AnyStep(c), NEW d \in Requests, d # c,
           WaveBegun(d), WaveGoesOn(d)
    PROVE  WaveBegun(d)' /\ WaveGoesOn(d)'
<1>1. pc'[d] = pc[d] /\ req'[d] = req[d]
  BY OthersStay
<1>2. /\ DOMAIN log \subseteq DOMAIN log'
      /\ \A i \in DOMAIN log' : log'[i].by = d => i \in DOMAIN log /\ log[i].by = d
      /\ \A i \in DOMAIN log : log[i].by = d => SameWord(i)
  BY OthersEntries
<1>3. ASSUME NEW t
      PROVE  By(d, t)' = By(d, t)
  <2>1. By(d, t)' = {i \in DOMAIN log' : log'[i].by = d /\ log'[i].type = t /\ Visible(log'[i])}
    BY Primed
  <2>2. By(d, t) = {i \in DOMAIN log : log[i].by = d /\ log[i].type = t /\ Visible(log[i])}
    BY DEF By
  <2>. QED
    BY <1>2, <2>1, <2>2 DEF SameWord, Visible
<1>4. OpenEnds(d)' = OpenEnds(d)
  <2>1. OpenEnds(d)' = {i \in DOMAIN log' : /\ log'[i].by = d /\ log'[i].state = "open"
                                            /\ log'[i].type = "wave.finished"}
    BY Primed
  <2>. QED
    BY <1>2, <2>1 DEF SameWord, OpenEnds, IsOpen
<1>5. Even(d)' = Even(d)
  BY <1>3 DEF Even
<1>6. WaveBegun(d)'
  <2>1. SUFFICES ASSUME NEW i \in DOMAIN log', Announces(i, d)', Live(i)'
                 PROVE  /\ pc'[d] \notin {"done", "failed"} =>
                              Kind(d)' \in Waves /\ By(d, "job.started")' # {}
                        /\ pc'[d] \in {"done", "failed"} /\ Visible(log'[i]) => Even(d)'
    BY DEF WaveBegun
  <2>2. i \in DOMAIN log /\ Announces(i, d) /\ Live(i) /\ Visible(log'[i]) = Visible(log[i])
    BY <1>2, <2>1 DEF Announces, Live, SameWord, Visible
  <2>. QED
    BY <1>1, <1>3, <1>5, <2>2 DEF WaveBegun, Kind
<1>7. WaveGoesOn(d)'
  <2>1. BeforeFamilies(d) => BeforeFamilies(d)'
    BY <1>1, <1>3, <1>4 DEF BeforeFamilies
  <2>2. BetweenFamilies(d) => BetweenFamilies(d)'
    BY <1>1, <1>2, <1>3, <1>4, <1>5 DEF BetweenFamilies
  <2>3. InFamily(d) => InFamily(d)'
    BY <1>1, <1>3, <1>4, <1>5 DEF InFamily
  <2>. QED
    BY <1>1, <2>1, <2>2, <2>3 DEF WaveGoesOn, Kind
<1>. QED
  BY <1>6, <1>7

\* What c has told, when it does not commit.
LEMMA OwnTold ==
    ASSUME NEW c \in Requests, AnyStep(c), ~CommitStep(c), NEW t
    PROVE  By(c, t)' = By(c, t)
<1>1. By(c, t)' = {i \in DOMAIN log' : log'[i].by = c /\ log'[i].type = t /\ Visible(log'[i])}
  BY Primed
<1>2. By(c, t) = {i \in DOMAIN log : log[i].by = c /\ log[i].type = t /\ Visible(log[i])}
  BY DEF By
<1>3. CASE QuietStep(c) \/ MarkStep(c)
  BY <1>1, <1>2, <1>3 DEF QuietStep, MarkStep
<1>4. CASE (\E e : AddStep(c, e)) \/ (\E e : StartStep(c, e)) \/ (\E e : SettleStep(c, e))
  <2>1. PICK e : Added(e) /\ e.state = "open"
    BY <1>4 DEF AddStep, StartStep, SettleStep
  <2>2. /\ \A i \in DOMAIN log : i \in DOMAIN log' /\ log'[i] = log[i]
        /\ \A i \in DOMAIN log' : i \in DOMAIN log \/ ~Visible(log'[i])
    BY <2>1 DEF Added, Visible
  <2>. QED
    BY <1>1, <1>2, <2>2
<1>5. CASE LoseStep(c)
  <2>1. /\ DOMAIN log' = DOMAIN log
        /\ \A i \in DOMAIN log : /\ log'[i].by = log[i].by /\ log'[i].type = log[i].type
                                 /\ Visible(log'[i]) = Visible(log[i])
    BY <1>5 DEF LoseStep, Ends, SameRows, IsOpen, Visible
  <2>. QED
    BY <1>1, <1>2, <2>1
<1>. QED
  BY <1>3, <1>4, <1>5 DEF AnyStep

\* Starts and ends stay even where nothing is committed.
LEMMA EvenStays ==
    ASSUME NEW c \in Requests, AnyStep(c), ~CommitStep(c)
    PROVE  Even(c)' = Even(c)
<1>1. /\ By(c, "job.started")' = By(c, "job.started")
      /\ By(c, "wave.finished")' = By(c, "wave.finished")
  BY OwnTold
<1>. QED
  BY <1>1 DEF Even

\* Steps that do not end the transaction, and ends of families.
LEMMA OwnEnds ==
    ASSUME NEW c \in Requests, AnyStep(c), ~CommitStep(c), ~LoseStep(c)
    PROVE  /\ pc[c] # "finish" => OpenEnds(c)' = OpenEnds(c)
           /\ pc[c] = "finish" => /\ Len(log) + 1 \in DOMAIN log'
                                  /\ OpenEnds(c)' = OpenEnds(c) \cup {Len(log) + 1}
<1>1. OpenEnds(c)' = {i \in DOMAIN log' : /\ log'[i].by = c /\ log'[i].state = "open"
                                          /\ log'[i].type = "wave.finished"}
  BY Primed
<1>2. OpenEnds(c) = {i \in DOMAIN log : /\ log[i].by = c /\ log[i].state = "open"
                                        /\ log[i].type = "wave.finished"}
  BY DEF OpenEnds, IsOpen
<1>3. CASE QuietStep(c) \/ MarkStep(c)
  <2>1. log' = log /\ pc[c] # "finish"
    BY <1>3 DEF QuietStep, MarkStep
  <2>. QED
    BY <1>1, <1>2, <2>1
<1>4. CASE (\E e : AddStep(c, e)) \/ (\E e : StartStep(c, e)) \/ (\E e : SettleStep(c, e))
  <2>1. PICK e : /\ Added(e) /\ e.by = c /\ e.state = "open"
                 /\ (e.type = "wave.finished") = (pc[c] = "finish")
    BY <1>4 DEF AddStep, StartStep, SettleStep
  <2>2. PICK n : n = Len(log) + 1
    OBVIOUS
  <2>3. /\ DOMAIN log' = DOMAIN log \cup {n} /\ log'[n] = e
        /\ \A i \in DOMAIN log : log'[i] = log[i]
    BY <2>1, <2>2 DEF Added
  <2>. QED
    BY <1>1, <1>2, <2>1, <2>2, <2>3
<1>. QED
  BY <1>3, <1>4 DEF AnyStep

\* A wave is announced in a family.
LEMMA OwnBegun ==
    ASSUME NEW c \in Requests, Place(c), WaveBegun(c), WaveGoesOn(c), AnyStep(c),
           ~CommitStep(c), ~LoseStep(c)
    PROVE  WaveBegun(c)'
<1>1. /\ pc'[c] \notin {"done", "failed"} /\ pc[c] \notin {"done", "failed"}
      /\ req'[c].kind = req[c].kind
  BY DEF AnyStep, QuietStep, MarkStep, AddStep, StartStep, SettleStep
<1>2. SUFFICES ASSUME NEW i \in DOMAIN log', Announces(i, c)', Live(i)'
               PROVE  Kind(c) \in Waves /\ By(c, "job.started") # {}
  <2>1. By(c, "job.started")' = By(c, "job.started")
    BY OwnTold
  <2>. QED
    BY <1>1, <1>2, <2>1 DEF WaveBegun, Kind
<1>3. CASE i \in DOMAIN log
  <2>1. log'[i].state = log[i].state
    BY <1>3, StateSteps
  <2>2. Announces(i, c) /\ Live(i)
    BY <1>2, <1>3, <2>1, VisibleStays DEF Announces, Live, Kept
  <2>. QED
    BY <1>1, <1>3, <2>2 DEF WaveBegun
<1>4. CASE i \notin DOMAIN log
  <2>1. PICK e : AddStep(c, e)
    <3>1. ASSUME NEW e, Added(e), e.type # "wave.started"
          PROVE  FALSE
      BY <1>2, <1>4, <3>1 DEF Added, Announces
    <3>. QED
      BY <1>2, <1>4, <3>1 DEF AnyStep, QuietStep, MarkStep, StartStep, SettleStep
  <2>2. e.type = "wave.started"
    BY <1>2, <1>4, <2>1 DEF AddStep, Added, Announces
  <2>3. pc[c] = "announce"
    BY <2>1, <2>2 DEF AddStep
  <2>4. Kind(c) \in Waves
    BY <2>3 DEF Place
  <2>. QED
    BY <2>3, <2>4 DEF WaveGoesOn, BeforeFamilies, BetweenFamilies, InFamily
<1>. QED
  BY <1>3, <1>4

\* From family to family.
LEMMA OwnGoesOn ==
    ASSUME NEW c \in Requests, WaveGoesOn(c), AnyStep(c), ~CommitStep(c), ~LoseStep(c)
    PROVE  WaveGoesOn(c)'
<1>1. /\ pc'[c] \notin {"done", "failed"} /\ pc[c] \notin {"done", "failed"}
      /\ req'[c].kind = req[c].kind
  BY DEF AnyStep, QuietStep, MarkStep, AddStep, StartStep, SettleStep
<1>2. SUFFICES ASSUME Kind(c) \in Waves
               PROVE  (BeforeFamilies(c) \/ BetweenFamilies(c) \/ InFamily(c))'
  BY <1>1 DEF WaveGoesOn, Kind
<1>3. /\ By(c, "job.started")' = By(c, "job.started")
      /\ By(c, "wave.finished")' = By(c, "wave.finished")
      /\ Even(c)' = Even(c)
  BY OwnTold, EvenStays
<1>4. \/ pc[c] = "idle" /\ pc'[c] = "start"
      \/ pc[c] = "start" /\ pc'[c] = "startCommit"
      \/ pc[c] = "finish" /\ pc'[c] \in {"start", "close"}
      \/ pc[c] \in AtWork \ {"finish"} /\ pc'[c] \in AtWork
  <2>1. CASE QuietStep(c)
    <3>1. Kind(c) \notin JobKinds
      BY <1>2 DEF Waves, JobKinds
    <3>. QED
      BY <2>1, <3>1 DEF QuietStep, AtWork, Steps
  <2>2. CASE MarkStep(c)
    BY <2>2 DEF MarkStep, AtWork, Steps
  <2>3. CASE \E e : AddStep(c, e)
    BY <2>3 DEF AddStep, AtWork, Steps
  <2>4. CASE (\E e : StartStep(c, e)) \/ (\E e : SettleStep(c, e))
    BY <2>4 DEF StartStep, SettleStep, AtWork, Steps
  <2>. QED
    BY <2>1, <2>2, <2>3, <2>4 DEF AnyStep
<1>5. BeforeFamilies(c) \/ BetweenFamilies(c) \/ InFamily(c)
  BY <1>1, <1>2 DEF WaveGoesOn
<1>6. DOMAIN log \subseteq DOMAIN log'
  BY VisibleStays DEF Kept
<1>7. CASE pc[c] = "finish"
  <2>1. InFamily(c) /\ pc'[c] \in {"start", "close"}
    BY <1>4, <1>5, <1>7 DEF BeforeFamilies, BetweenFamilies, AtWork
  <2>2. PICK n : n = Len(log) + 1
    OBVIOUS
  <2>3. n \in DOMAIN log' /\ OpenEnds(c)' = {n}
    BY <1>7, <2>1, <2>2, OwnEnds DEF InFamily
  <2>. QED
    BY <1>3, <2>1, <2>3 DEF InFamily, BetweenFamilies
<1>8. CASE pc[c] # "finish"
  <2>1. OpenEnds(c)' = OpenEnds(c)
    BY <1>8, OwnEnds
  <2>2. CASE pc[c] \in AtWork
    <3>1. InFamily(c) /\ pc'[c] \in AtWork
      BY <1>4, <1>5, <1>8, <2>2 DEF BeforeFamilies, BetweenFamilies, AtWork
    <3>. QED
      BY <1>3, <2>1, <3>1 DEF InFamily
  <2>3. CASE pc[c] \notin AtWork
    <3>1. /\ pc[c] \in {"idle", "start"} /\ pc'[c] \in {"start", "startCommit"}
          /\ BeforeFamilies(c) \/ BetweenFamilies(c)
      BY <1>4, <1>5, <1>8, <2>3 DEF InFamily
    <3>2. BeforeFamilies(c) => BeforeFamilies(c)'
      BY <1>3, <2>1, <3>1 DEF BeforeFamilies
    <3>3. BetweenFamilies(c) => BetweenFamilies(c)'
      BY <1>3, <1>6, <2>1, <3>1 DEF BetweenFamilies
    <3>. QED
      BY <3>1, <3>2, <3>3
  <2>. QED
    BY <2>2, <2>3
<1>. QED
  BY <1>7, <1>8

\* A wave that ends, or is lost, has told as many ends as it should.
LEMMA OwnLost ==
    ASSUME NEW c \in Requests, WaveBegun(c), WaveGoesOn(c), AnyStep(c), ~CommitStep(c), LoseStep(c)
    PROVE  WaveBegun(c)' /\ WaveGoesOn(c)'
<1>1. /\ pc[c] \notin {"done", "failed"} /\ pc'[c] \in {"done", "failed"}
      /\ DOMAIN log' = DOMAIN log
  BY DEF LoseStep, Ends, SameRows
<1>2. WaveGoesOn(c)'
  BY <1>1 DEF WaveGoesOn
<1>3. SUFFICES ASSUME NEW i \in DOMAIN log, Announces(i, c)', Visible(log'[i])
               PROVE  Even(c)
  BY <1>1, <1>2, EvenStays DEF WaveBegun
<1>4. Announces(i, c) /\ Live(i)
  BY <1>3 DEF Announces, Visible, Live, LoseStep, Ends, SameRows, IsOpen
<1>5. Kind(c) \in Waves /\ By(c, "job.started") # {}
  BY <1>1, <1>4 DEF WaveBegun
<1>. QED
  BY <1>1, <1>5 DEF WaveGoesOn, BeforeFamilies, BetweenFamilies, InFamily

\* What c has told after a commit.
OpenOf(c, t) == {i \in DOMAIN log : IsOpen(c, log[i]) /\ log[i].type = t}

\* A commit makes all open entries of c visible.
LEMMA CommitAdds ==
    ASSUME NEW c, Ends(c, "committed"), NEW t
    PROVE  /\ By(c, t)' = By(c, t) \cup OpenOf(c, t)
           /\ By(c, t) \cap OpenOf(c, t) = {}
           /\ OpenEnds(c)' = {}
           /\ DOMAIN log' = DOMAIN log
<1>1. By(c, t)' = {i \in DOMAIN log' : log'[i].by = c /\ log'[i].type = t /\ Visible(log'[i])}
  BY Primed
<1>2. OpenEnds(c)' = {i \in DOMAIN log' : /\ log'[i].by = c /\ log'[i].state = "open"
                                          /\ log'[i].type = "wave.finished"}
  BY Primed
<1>3. /\ DOMAIN log' = DOMAIN log
      /\ \A i \in DOMAIN log :
            /\ log'[i].by = log[i].by /\ log'[i].type = log[i].type
            /\ IsOpen(c, log[i]) => log'[i].state = "committed"
            /\ ~IsOpen(c, log[i]) => log'[i].state = log[i].state
  BY DEF Ends, SameRows
<1>4. OpenEnds(c)' = {}
  BY <1>2, <1>3 DEF IsOpen
<1>5. By(c, t)' = By(c, t) \cup OpenOf(c, t)
  BY <1>1, <1>3 DEF By, OpenOf, IsOpen, Visible
<1>6. By(c, t) \cap OpenOf(c, t) = {}
  BY DEF By, OpenOf, IsOpen, Visible
<1>. QED
  BY <1>3, <1>4, <1>5, <1>6

\* A request has one open start when it commits one, and none otherwise.
LEMMA OpenStarts ==
    ASSUME TypeOK, Telling, NEW c \in Requests
    PROVE  /\ pc[c] = "startCommit" => \E i : OpenOf(c, "job.started") = {i}
           /\ pc[c] # "startCommit" => OpenOf(c, "job.started") = {}
<1>1. ASSUME NEW k \in OpenOf(c, "job.started")
      PROVE  /\ k \in DOMAIN log /\ k \in Nat /\ pc[c] = "startCommit"
             /\ Tells(k, Job(c)) /\ Live(k)
             /\ \A x \in DOMAIN log : Tells(x, Job(c)) /\ Live(x) => x <= k
  <2>1. /\ k \in DOMAIN log /\ log[k].by = c /\ log[k].state = "open"
        /\ log[k].type = "job.started"
    BY DEF OpenOf, IsOpen
  <2>2. log[k].job \in Jobs /\ k \in Nat
    BY <2>1, Positions, EntryFields DEF TypeOK
  <2>3. OpenWord(k, log[k].job) /\ Tells(k, log[k].job) /\ Live(k)
    BY <2>1, <2>2 DEF Telling, Tells, Live
  <2>. QED
    BY <2>1, <2>2, <2>3 DEF OpenWord, Announced
<1>2. ASSUME pc[c] = "startCommit"
      PROVE  \E i : OpenOf(c, "job.started") = {i}
  <2>1. PICK i \in DOMAIN log : IsOpen(c, log[i]) /\ Tells(i, Job(c))
    BY <1>2 DEF Telling, HasWord
  <2>2. /\ log[i].job \in Jobs /\ log[i].by = c /\ log[i].state = "open"
        /\ log[i].job = Job(c)
    BY <2>1, Positions, EntryFields DEF TypeOK, Tells, IsOpen
  <2>3. Announced(i, c)
    BY <2>1, <2>2 DEF Telling, OpenWord
  <2>4. i \in OpenOf(c, "job.started")
    BY <1>2, <2>1, <2>3 DEF OpenOf, Announced
  <2>5. ASSUME NEW k \in OpenOf(c, "job.started")
        PROVE  k = i
    <3>1. k <= i /\ i <= k /\ k \in Nat /\ i \in Nat
      BY <1>1, <2>4, <2>5
    <3>. QED
      BY <3>1
  <2>. QED
    BY <2>4, <2>5
<1>. QED
  BY <1>1, <1>2

\* The commit of a start: one more, and one more end if there was a family before.
LEMMA CommitEven ==
    ASSUME TypeOK, Telling, NEW c \in Requests, CommitStep(c), pc[c] = "startCommit",
           BeforeFamilies(c) \/ BetweenFamilies(c)
    PROVE  Even(c)' /\ By(c, "job.started")' # {}
<1> DEFINE F == By(c, "wave.finished")
           S == By(c, "job.started")
<1>1. IsFiniteSet(F) /\ IsFiniteSet(S)
  <2>1. F \subseteq DOMAIN log /\ S \subseteq DOMAIN log
    BY DEF By
  <2>. QED
    BY <2>1, Positions, FS_Subset DEF TypeOK
<1>2. Ends(c, "committed") /\ OpenOf(c, "wave.finished") = OpenEnds(c)
  BY DEF CommitStep, OpenOf, OpenEnds
<1>3. PICK i : OpenOf(c, "job.started") = {i}
  BY OpenStarts
<1>4. S' = S \cup {i} /\ i \notin S
  BY <1>2, <1>3, CommitAdds
<1>5. F' = F \cup OpenEnds(c) /\ F \cap OpenEnds(c) = {}
  BY <1>2, CommitAdds
<1>6. /\ Even(c) = (Cardinality(F) + 1 = Cardinality(S))
      /\ Even(c)' = (Cardinality(F') + 1 = Cardinality(S'))
  BY DEF Even
<1> HIDE DEF F, S
<1>7. Cardinality(S') = Cardinality(S) + 1 /\ Cardinality(S) \in Nat /\ Cardinality(F) \in Nat
  BY <1>1, <1>4, FS_AddElement, FS_CardinalityType
<1>8. CASE BeforeFamilies(c)
  <2>1. S = {} /\ F = {} /\ F' = {}
    BY <1>5, <1>8 DEF BeforeFamilies, F, S
  <2>2. Cardinality(F') = 0 /\ Cardinality(S) = 0
    BY <2>1, FS_EmptySet
  <2>. QED
    BY <1>4, <1>6, <1>7, <2>2 DEF S
<1>9. CASE BetweenFamilies(c)
  <2>1. PICK k : OpenEnds(c) = {k}
    BY <1>9 DEF BetweenFamilies
  <2>2. Cardinality(F') = Cardinality(F) + 1
    BY <1>1, <1>5, <2>1, FS_AddElement
  <2>3. Cardinality(F) + 1 = Cardinality(S)
    BY <1>6, <1>9 DEF BetweenFamilies
  <2>. QED
    BY <1>4, <1>6, <1>7, <2>2, <2>3 DEF S
<1>. QED
  BY <1>8, <1>9

\* A wave that commits.
LEMMA OwnCommitted ==
    ASSUME TypeOK, Telling, NEW c \in Requests, Place(c), WaveBegun(c), WaveGoesOn(c),
           AnyStep(c), CommitStep(c)
    PROVE  WaveBegun(c)' /\ WaveGoesOn(c)'
<1>1. /\ Ends(c, "committed") /\ pc[c] \notin {"done", "failed"} /\ DOMAIN log' = DOMAIN log
      /\ \A i \in DOMAIN log : Announces(i, c)' /\ Live(i)' => Announces(i, c) /\ Live(i)
  BY DEF CommitStep, Ends, SameRows, IsOpen, Announces, Live
<1>2. CASE Kind(c) \notin Waves
  <2>1. ~(req'[c].kind \in Waves)
    BY <1>2 DEF CommitStep, Waves, Kind, Holds, SameTask
  <2>2. WaveGoesOn(c)'
    BY <2>1 DEF WaveGoesOn, Kind
  <2>3. \A i \in DOMAIN log' : ~(Announces(i, c)' /\ Live(i)')
    BY <1>1, <1>2 DEF WaveBegun
  <2>. QED
    BY <2>2, <2>3 DEF WaveBegun
<1>3. CASE Kind(c) \in Waves
  <2>1. /\ pc'[c] \in AtWork /\ pc'[c] \notin {"done", "failed"} /\ req'[c].kind = req[c].kind
        /\ pc[c] = "startCommit" \/ pc[c] \in AtWork
    BY <1>3 DEF CommitStep, AtWork, Steps, Holds, SameTask
  <2>2. BeforeFamilies(c) \/ BetweenFamilies(c) \/ InFamily(c)
    BY <1>1, <1>3 DEF WaveGoesOn
  <2>3. OpenEnds(c)' = {}
    BY <1>1, CommitAdds
  <2>4. Even(c)' /\ By(c, "job.started")' # {}
    <3>1. CASE pc[c] = "startCommit"
      <4>1. BeforeFamilies(c) \/ BetweenFamilies(c)
        BY <2>2, <3>1 DEF InFamily, AtWork
      <4>. QED
        BY <3>1, <4>1, CommitEven
    <3>2. CASE pc[c] # "startCommit"
      <4>1. InFamily(c)
        BY <2>1, <2>2, <3>2 DEF BeforeFamilies, BetweenFamilies, AtWork
      <4>2. OpenOf(c, "wave.finished") = {}
        BY <4>1 DEF InFamily, OpenOf, OpenEnds
      <4>3. OpenOf(c, "job.started") = {}
        BY <3>2, OpenStarts
      <4>4. /\ By(c, "wave.finished")' = By(c, "wave.finished")
            /\ By(c, "job.started")' = By(c, "job.started")
        BY <1>1, <4>2, <4>3, CommitAdds
      <4>. QED
        BY <4>1, <4>4 DEF InFamily, Even
    <3>. QED
      BY <3>1, <3>2
  <2>5. WaveGoesOn(c)'
    BY <2>1, <2>3, <2>4 DEF WaveGoesOn, InFamily
  <2>6. WaveBegun(c)'
    BY <1>3, <2>1, <2>4 DEF WaveBegun, Kind
  <2>. QED
    BY <2>5, <2>6
<1>. QED
  BY <1>2, <1>3

\* Every step of a request keeps Waving.
LEMMA WavingStep ==
    ASSUME TypeOK, Telling, Waving, NEW c \in Requests, Place(c), AnyStep(c)
    PROVE  Waving'
<1>1. WaveBegun(c) /\ WaveGoesOn(c)
  BY DEF Waving
<1>2. WaveBegun(c)' /\ WaveGoesOn(c)'
  <2>1. CASE CommitStep(c)
    BY <1>1, <2>1, OwnCommitted
  <2>2. CASE ~CommitStep(c) /\ LoseStep(c)
    BY <1>1, <2>2, OwnLost
  <2>3. CASE ~CommitStep(c) /\ ~LoseStep(c)
    BY <1>1, <2>3, OwnBegun, OwnGoesOn
  <2>. QED
    BY <2>1, <2>2, <2>3
<1>. QED
  BY <1>2, OthersWave DEF Waving

\* What a told merge has come to.
LEMMA MergesHold ==
    ASSUME TypeOK, Merging, NEW r \in Requests, NEW i \in By(r, "cohesion.merge")
    PROVE  \/ OutcomesAfter(r, i) = {"completed"}
           \/ OutcomesAfter(r, i) = {"failed"} /\ req[r].kind = "demo"
           \/ OutcomesAfter(r, i) = {} /\ (HalfDecided(r, log[i].job) \/ pc[r] = "failed")
<1>1. i \in DOMAIN log /\ log[i].type = "cohesion.merge" /\ Visible(log[i]) /\ log[i].by = r
  BY DEF By
<1>2. ToldMerge(i)
  BY <1>1 DEF Merging
<1>3. \A x : x \in OutcomesAfter(r, i) <=>
                 \E k \in DOMAIN log : Outcome(i, k) /\ Visible(log[k]) /\ log[k].info = x
  BY <1>1 DEF OutcomesAfter, By, Outcome
<1>4. CASE Waiting(i)
  <2>1. \A k \in DOMAIN log : Outcome(i, k) => ~Visible(log[k])
    BY <1>4 DEF Waiting, Visible
  <2>2. OutcomesAfter(r, i) = {}
    BY <1>3, <2>1
  <2>. QED
    BY <1>1, <1>4, <2>2 DEF Waiting, HalfDecided
<1>5. CASE Abandoned(i)
  <2>1. \A k \in DOMAIN log : Outcome(i, k) => ~Visible(log[k])
    BY <1>5 DEF Abandoned, Visible
  <2>2. OutcomesAfter(r, i) = {}
    BY <1>3, <2>1
  <2>. QED
    BY <1>1, <1>5, <2>2 DEF Abandoned
<1>6. ASSUME NEW v, Carried(i, v)
      PROVE  OutcomesAfter(r, i) = {v} /\ Right(r, v)
  <2>1. /\ \E k \in DOMAIN log : Outcome(i, k)
        /\ \A k \in DOMAIN log : Outcome(i, k) => Visible(log[k]) /\ log[k].info = v
        /\ Right(r, v)
    BY <1>1, <1>6 DEF Carried
  <2>2. \A x : x \in OutcomesAfter(r, i) <=> x = v
    BY <1>3, <2>1
  <2>. QED
    BY <2>1, <2>2
<1>. QED
  BY <1>2, <1>4, <1>5, <1>6 DEF ToldMerge, Right, Kind

\* The invariant the runs check.
LEMMA DecisionsHold ==
    ASSUME TypeOK, Deciding, Merging, Waving
    PROVE  DecisionsToldWhole
<1>1. SUFFICES ASSUME NEW r \in Requests
               PROVE  /\ \A i \in By(r, "cohesion.veto") : "failed" \in OutcomesAfter(r, i)
                      /\ By(r, "wave.started") # {} => Even(r)
  BY MergesHold DEF DecisionsToldWhole, Even
<1>2. ASSUME NEW i \in By(r, "cohesion.veto")
      PROVE  "failed" \in OutcomesAfter(r, i)
  <2>1. i \in DOMAIN log /\ log[i].type = "cohesion.veto" /\ Visible(log[i]) /\ log[i].by = r
    BY DEF By
  <2>2. PICK k \in DOMAIN log : Failed(i, k) /\ Visible(log[k])
    BY <2>1 DEF Deciding, ToldVeto
  <2>3. k \in By(r, "job.completed") /\ k > i /\ log[k].job = log[i].job /\ log[k].info = "failed"
    BY <2>1, <2>2 DEF Failed, By
  <2>. QED
    BY <2>3 DEF OutcomesAfter
<1>3. ASSUME By(r, "wave.started") # {}
      PROVE  Even(r)
  <2>1. PICK i \in DOMAIN log : Announces(i, r) /\ Visible(log[i])
    BY <1>3 DEF By, Announces
  <2>2. WaveBegun(r) /\ WaveGoesOn(r) /\ Live(i)
    BY <2>1 DEF Waving, Visible, Live
  <2>3. CASE pc[r] \in {"done", "failed"}
    BY <2>1, <2>2, <2>3 DEF WaveBegun
  <2>4. CASE pc[r] \notin {"done", "failed"}
    <3>1. Kind(r) \in Waves /\ By(r, "job.started") # {}
      BY <2>1, <2>2, <2>4 DEF WaveBegun
    <3>. QED
      BY <2>2, <2>4, <3>1 DEF WaveGoesOn, BeforeFamilies, BetweenFamilies, InFamily
  <2>. QED
    BY <2>3, <2>4
<1>. QED
  BY <1>2, <1>3

-----------------------------------------------------------------------------
(* Polls of the stream, and steps of nobody.                               *)

Elsewhere == pc' = pc /\ req' = req /\ status' = status /\ write' = write /\ raced' = raced

\* Places and writes do not depend on the log.
LEMMA ViewKeepsPlaces ==
    ASSUME Elsewhere, Writing, \A c \in Requests : Place(c)
    PROVE  Writing' /\ \A c \in Requests : Place(c)'
<1>1. ASSUME NEW c \in Requests
      PROVE  Place(c)'
  <2>1. Place(c)
    OBVIOUS
  <2>. QED
    BY <2>1 DEF Elsewhere, Place, Kind, Job
<1>2. ASSUME NEW c \in Requests, NEW j \in Jobs
      PROVE  WriteOK(c, j)'
  <2>1. WriteOK(c, j)
    BY DEF Writing
  <2>. QED
    BY <2>1 DEF Elsewhere, WriteOK, StartWrite, SettleWrite, RunningWrite, Job
<1>. QED
  BY <1>1, <1>2 DEF Writing

\* A poll keeps Telling.
LEMMA ViewKeepsWords ==
    ASSUME Elsewhere, SameView, Telling
    PROVE  Telling'
<1>1. /\ DOMAIN log' = DOMAIN log
      /\ \A i \in DOMAIN log :
            /\ log'[i].type = log[i].type /\ log'[i].job = log[i].job
            /\ log'[i].info = log[i].info /\ log'[i].by = log[i].by
            /\ (log'[i].state = "open") = (log[i].state = "open")
            /\ (log'[i].state = "lost") = (log[i].state = "lost")
            /\ Visible(log'[i]) = Visible(log[i])
  BY DEF SameView, SameRows
<1>2. ASSUME NEW i \in DOMAIN log', NEW j \in Jobs
      PROVE  OpenWord(i, j)'
  <2>1. SUFFICES ASSUME log'[i].state = "open", Tells(i, j)'
                 PROVE  /\ Announced(i, log[i].by)'
                        /\ \A k \in DOMAIN log' : Tells(k, j)' /\ Live(k)' => k <= i
    BY DEF OpenWord
  <2>2. i \in DOMAIN log /\ log[i].state = "open" /\ Tells(i, j) /\ OpenWord(i, j)
    BY <1>1, <2>1 DEF Tells, Telling
  <2>3. /\ Announced(i, log[i].by)
        /\ \A k \in DOMAIN log : Tells(k, j) /\ Live(k) => k <= i
    BY <2>2 DEF OpenWord
  <2>4. Announced(i, log[i].by)'
    BY <1>1, <2>2, <2>3 DEF Announced, Job, Elsewhere
  <2>5. \A k \in DOMAIN log' : Tells(k, j)' /\ Live(k)' =>
            k \in DOMAIN log /\ Tells(k, j) /\ Live(k)
    BY <1>1 DEF Tells, Live
  <2>. QED
    BY <2>3, <2>4, <2>5
<1>3. ASSUME NEW c \in Requests
      PROVE  HasWord(c)'
  <2>1. HasWord(c)
    BY DEF Telling
  <2>. QED
    BY <1>1, <2>1 DEF HasWord, IsOpen, Tells, Job, Elsewhere
<1>4. ASSUME NEW j \in Jobs
      PROVE  /\ status'[j] = Absent => Told(j)' = {}
             /\ status'[j] # Absent => \E m \in DOMAIN log' : LastWord(j, m)'
  <2>1. Told(j)' = Told(j) /\ Told(j) \subseteq DOMAIN log
    <3>1. /\ Told(j) = {i \in DOMAIN log : Tells(i, j) /\ Visible(log[i])}
          /\ Told(j)' = {i \in DOMAIN log' : Tells(i, j)' /\ Visible(log'[i])}
      BY ToldIs
    <3>. QED
      BY <1>1, <3>1 DEF Tells
  <2>2. ASSUME NEW m \in DOMAIN log, LastWord(j, m)
        PROVE  LastWord(j, m)'
    BY <1>1, <2>1, <2>2 DEF LastWord, Elsewhere
  <2>. QED
    BY <1>1, <2>1, <2>2 DEF Telling, Elsewhere
<1>. QED
  BY <1>2, <1>3, <1>4 DEF Telling

\* A poll keeps Deciding.
LEMMA ViewKeepsDecisions ==
    ASSUME Elsewhere, SameView, Deciding
    PROVE  Deciding'
<1>1. /\ DOMAIN log' = DOMAIN log
      /\ \A i \in DOMAIN log :
            /\ log'[i].type = log[i].type /\ log'[i].job = log[i].job
            /\ log'[i].info = log[i].info /\ log'[i].by = log[i].by
            /\ (log'[i].state = "open") = (log[i].state = "open")
            /\ Visible(log'[i]) = Visible(log[i])
  BY DEF SameView, SameRows
<1>2. ASSUME NEW i \in DOMAIN log, NEW k \in DOMAIN log
      PROVE  Failed(i, k)' = Failed(i, k)
  BY <1>1 DEF Failed
<1>3. ASSUME NEW i \in DOMAIN log
      PROVE  /\ OpenVeto(i) => OpenVeto(i)'
             /\ ToldVeto(i) => ToldVeto(i)'
  BY <1>1, <1>2 DEF OpenVeto, ToldVeto, Job, Elsewhere
<1>. QED
  BY <1>1, <1>3 DEF Deciding

\* A poll keeps Merging.
LEMMA ViewKeepsMerges ==
    ASSUME Elsewhere, SameView, Merging
    PROVE  Merging'
<1>1. /\ DOMAIN log' = DOMAIN log
      /\ \A i \in DOMAIN log :
            /\ log'[i].type = log[i].type /\ log'[i].job = log[i].job
            /\ log'[i].info = log[i].info /\ log'[i].by = log[i].by
            /\ (log'[i].state = "open") = (log[i].state = "open")
            /\ (log'[i].state = "lost") = (log[i].state = "lost")
            /\ Visible(log'[i]) = Visible(log[i])
  BY DEF SameView, SameRows
<1>2. ASSUME NEW i \in DOMAIN log, NEW k \in DOMAIN log
      PROVE  Outcome(i, k)' = Outcome(i, k)
  BY <1>1 DEF Outcome
<1>3. ASSUME NEW i \in DOMAIN log
      PROVE  /\ OpenMerge(i) => OpenMerge(i)'
             /\ Waiting(i) => Waiting(i)'
             /\ Abandoned(i) => Abandoned(i)'
  <2>1. OpenMerge(i) => OpenMerge(i)'
    BY <1>1, <1>2 DEF OpenMerge, Job, Elsewhere
  <2>2. Waiting(i) => Waiting(i)'
    BY <1>1, <1>2 DEF Waiting, Job, Right, Kind, Elsewhere
  <2>3. Abandoned(i) => Abandoned(i)'
    BY <1>1, <1>2 DEF Abandoned, Elsewhere
  <2>. QED
    BY <2>1, <2>2, <2>3
<1>4. ASSUME NEW i \in DOMAIN log, NEW v, Carried(i, v)
      PROVE  Carried(i, v)'
  BY <1>1, <1>2, <1>4 DEF Carried, Job, Right, Kind, Elsewhere
<1>5. ASSUME NEW i \in DOMAIN log, ToldMerge(i)
      PROVE  ToldMerge(i)'
  BY <1>3, <1>4, <1>5 DEF ToldMerge
<1>. QED
  BY <1>1, <1>3, <1>5 DEF Merging

\* A poll keeps Waving.
LEMMA ViewKeepsWaves ==
    ASSUME Elsewhere, SameView, Waving
    PROVE  Waving'
<1>1. /\ DOMAIN log' = DOMAIN log
      /\ \A i \in DOMAIN log :
            /\ log'[i].type = log[i].type /\ log'[i].by = log[i].by
            /\ (log'[i].state = "open") = (log[i].state = "open")
            /\ (log'[i].state = "lost") = (log[i].state = "lost")
            /\ Visible(log'[i]) = Visible(log[i])
  BY DEF SameView, SameRows
<1>2. SUFFICES ASSUME NEW c \in Requests
               PROVE  WaveBegun(c)' /\ WaveGoesOn(c)'
  BY DEF Waving
<1>3. ASSUME NEW t
      PROVE  By(c, t)' = By(c, t)
  <2>1. By(c, t)' = {i \in DOMAIN log' : log'[i].by = c /\ log'[i].type = t /\ Visible(log'[i])}
    BY Primed
  <2>. QED
    BY <1>1, <2>1 DEF By
<1>4. OpenEnds(c)' = OpenEnds(c)
  <2>1. OpenEnds(c)' = {i \in DOMAIN log' : /\ log'[i].by = c /\ log'[i].state = "open"
                                            /\ log'[i].type = "wave.finished"}
    BY Primed
  <2>. QED
    BY <1>1, <2>1 DEF OpenEnds, IsOpen
<1>5. Even(c)' = Even(c)
  BY <1>3 DEF Even
<1>6. WaveBegun(c) /\ WaveGoesOn(c) /\ pc'[c] = pc[c] /\ Kind(c)' = Kind(c)
  BY DEF Waving, Elsewhere, Kind
<1>7. WaveBegun(c)'
  <2>1. \A i \in DOMAIN log : Announces(i, c)' = Announces(i, c) /\ Live(i)' = Live(i)
    BY <1>1 DEF Announces, Live
  <2>. QED
    BY <1>1, <1>3, <1>5, <1>6, <2>1 DEF WaveBegun
<1>8. WaveGoesOn(c)'
  BY <1>1, <1>3, <1>4, <1>5, <1>6 DEF WaveGoesOn, BeforeFamilies, BetweenFamilies, InFamily
<1>. QED
  BY <1>7, <1>8

\* A poll keeps Versioning.
LEMMA ViewKeepsVersions ==
    ASSUME Elsewhere, SameView, Versioning
    PROVE  Versioning'
<1>1. ASSUME NEW j \in Jobs, NEW p \in Paths
      PROVE  InOrder(j, p)'
  BY OrderSameView DEF Versioning
<1>2. ASSUME NEW c \in Requests
      PROVE  Inserting(c)'
  <2>1. Kept
    BY DEF SameView, SameRows, Kept
  <2>2. pc'[c] = pc[c] /\ req'[c] = req[c] /\ Inserting(c)
    BY DEF Elsewhere, Versioning
  <2>. QED
    BY <2>1, <2>2, InsertingStays
<1>. QED
  BY <1>1, <1>2 DEF Versioning

-----------------------------------------------------------------------------
(* The inductive invariant.                                                *)

\* The initial states are well-typed.
LEMMA InitType == Init => TypeOK
<1>1. SUFFICES ASSUME Init
               PROVE  TypeOK
  OBVIOUS
<1>2. pc \in [Requests -> Steps]
  BY <1>1 DEF Init, Steps
<1>3. req \in [Requests -> Arguments]
  <2>1. PICK mix \in Mixes : req = [c \in Requests |-> [Idle EXCEPT !.kind = mix[c]]]
    BY <1>1 DEF Init
  <2>2. ASSUME NEW c \in Requests
        PROVE  [Idle EXCEPT !.kind = mix[c]] \in Arguments
    <3>1. mix[c] \in NewJobKinds \cup JobKinds \cup {"none"}
      BY <2>1, MixesAssumption
    <3>. QED
      BY <3>1, IdleArguments DEF Arguments
  <2>. QED
    BY <2>1, <2>2
<1>4. PICK s \in EarlierStatuses :
          /\ status = [j \in Jobs |-> IF j = 1 THEN s ELSE Absent]
          /\ log = <<[type |-> "job.started", job |-> 1, info |-> s, version |-> 0,
                      by |-> Nobody, state |-> "committed"]>>
  BY <1>1 DEF Init
<1>5. s \in Statuses /\ 1 \in Jobs
  BY StatusesAssumption, BoundsAssumption DEF Jobs
<1>6. status \in [Jobs -> Statuses \cup {Absent}]
  BY <1>4, <1>5
<1>7. log \in Seq(Entries)
  <2>1. [type |-> "job.started", job |-> 1, info |-> s, version |-> 0,
         by |-> Nobody, state |-> "committed"] \in Entries
    BY <1>5 DEF Entries, EventTypes, Infos
  <2>. QED
    BY <1>4, <2>1
<1>8. write \in [Requests -> [Jobs -> Statuses \cup {Nothing, Touch}]] /\ raced \subseteq Jobs
  BY <1>1, NoWriteType DEF Init
<1>. QED
  BY <1>2, <1>3, <1>6, <1>7, <1>8 DEF TypeOK

\* The initial states satisfy the invariant.
LEMMA InitInv == Init => CityInv
<1>1. SUFFICES ASSUME Init
               PROVE  CityInv
  OBVIOUS
<1>2. TypeOK
  BY <1>1, InitType
<1>3. \A c \in Requests : pc[c] = "idle" /\ \A j \in Jobs : write[c][j] = Nothing
  BY <1>1, NoWriteType DEF Init
<1>4. PICK s : /\ \A j \in Jobs : status[j] = IF j = 1 THEN s ELSE Absent
               /\ DOMAIN log = {1} /\ s \in Statuses /\ 1 \in Jobs
               /\ log[1].type = "job.started" /\ log[1].job = 1 /\ log[1].info = s
               /\ log[1].by = Nobody /\ log[1].state = "committed"
  <2>1. PICK s \in EarlierStatuses :
          /\ status = [j \in Jobs |-> IF j = 1 THEN s ELSE Absent]
          /\ log = <<[type |-> "job.started", job |-> 1, info |-> s, version |-> 0,
                      by |-> Nobody, state |-> "committed"]>>
    BY <1>1 DEF Init
  <2>2. DOMAIN log = {1}
    BY <2>1
  <2>3. log[1] = [type |-> "job.started", job |-> 1, info |-> s, version |-> 0,
                  by |-> Nobody, state |-> "committed"]
    BY <2>1
  <2>4. s \in Statuses /\ 1 \in Jobs
    BY StatusesAssumption, BoundsAssumption DEF Jobs
  <2>. QED
    BY <2>1, <2>2, <2>3, <2>4
<1>5. \A c \in Requests : Place(c)
  BY <1>3 DEF Place, AtWork
<1>6. Writing
  BY <1>3 DEF Writing, WriteOK
<1>7. Telling
  <2>1. \A i \in DOMAIN log, j \in Jobs : OpenWord(i, j)
    BY <1>4 DEF OpenWord
  <2>2. \A c \in Requests : HasWord(c)
    BY <1>3 DEF HasWord
  <2>3. ASSUME NEW j \in Jobs
        PROVE  Told(j) = IF j = 1 THEN {1} ELSE {}
    BY <1>4 DEF Told, Stored, Visible
  <2>4. LastWord(1, 1)
    BY <1>4, <2>3 DEF LastWord, Stands
  <2>5. s # Absent
    BY <1>4, Distinct
  <2>. QED
    BY <1>4, <2>1, <2>2, <2>3, <2>4, <2>5 DEF Telling
<1>8. Deciding /\ Merging
  BY <1>4 DEF Deciding, Merging
<1>9. Waving
  <2>1. SUFFICES ASSUME NEW c \in Requests
                 PROVE  WaveBegun(c) /\ WaveGoesOn(c)
    BY DEF Waving
  <2>2. \A i \in DOMAIN log : log[i].by # c
    BY <1>4, RequestsAssumption
  <2>3. By(c, "job.started") = {} /\ By(c, "wave.finished") = {} /\ OpenEnds(c) = {}
    BY <2>2 DEF By, OpenEnds, IsOpen
  <2>. QED
    BY <1>3, <2>2, <2>3 DEF WaveBegun, Announces, WaveGoesOn, BeforeFamilies
<1>10. Versioning
  <2>1. \A j, p : Rows(j, p) = {}
    BY <1>4 DEF Rows
  <2>. QED
    BY <1>3, <2>1 DEF Versioning, InOrder, Inserting
<1>. QED
  BY <1>2, <1>5, <1>6, <1>7, <1>8, <1>9, <1>10 DEF CityInv

\* Every step keeps the invariant.
LEMMA StepInv == CityInv /\ [Next]_vars => CityInv'
<1>1. SUFFICES ASSUME CityInv, [Next]_vars
               PROVE  CityInv'
  OBVIOUS
<1>2. CASE \E c \in Requests : Request(c) \/ Work(c) \/ Fail(c)
  <2>1. PICK c \in Requests : Request(c) \/ Work(c) \/ Fail(c)
    BY <1>2
  <2>2. TypeOK' /\ AnyStep(c)
    BY <1>1, <2>1, StepKinds DEF CityInv
  <2>3. \A d \in Requests : Place(d)'
    BY <1>1, <2>2, OwnPlace, OthersPlace DEF CityInv
  <2>4. Writing' /\ Versioning'
    BY <1>1, <2>2, WritingStep, VersioningStep DEF CityInv
  <2>5. Telling'
    BY <1>1, <2>2, TellingStep DEF CityInv
  <2>6. Deciding' /\ Merging' /\ Waving'
    BY <1>1, <2>2, DecidingStep, MergingStep, WavingStep DEF CityInv
  <2>. QED
    BY <2>2, <2>3, <2>4, <2>5, <2>6 DEF CityInv
<1>3. CASE Poll \/ UNCHANGED vars
  <2>1. Elsewhere /\ SameView /\ log' \in Seq(Entries)
    <3>1. CASE Poll
      BY <1>1, <3>1, PollKeeps DEF Poll, Elsewhere, CityInv, TypeOK
    <3>2. CASE UNCHANGED vars
      BY <1>1, <3>2 DEF vars, Elsewhere, SameView, SameRows, CityInv, TypeOK
    <3>. QED
      BY <1>3, <3>1, <3>2
  <2>2. TypeOK'
    BY <1>1, <2>1 DEF CityInv, TypeOK, Elsewhere
  <2>3. Writing' /\ \A c \in Requests : Place(c)'
    BY <1>1, <2>1, ViewKeepsPlaces DEF CityInv
  <2>4. Telling' /\ Deciding' /\ Merging' /\ Waving' /\ Versioning'
    BY <1>1, <2>1, ViewKeepsWords, ViewKeepsDecisions, ViewKeepsMerges, ViewKeepsWaves,
       ViewKeepsVersions
    DEF CityInv
  <2>. QED
    BY <2>2, <2>3, <2>4 DEF CityInv
<1>. QED
  BY <1>1, <1>2, <1>3 DEF Next

\* The invariant holds of any number of requests, jobs and paths, whatever
\* batches they run, in any interleaving of their transactions.
THEOREM CityInvariant == Spec => []CityInv
  BY InitInv, StepInv, PTL DEF Spec

\* Type correctness: every row, event and local variable of a request keeps its
\* type, so for instance no job ever has a status outside the five.
THEOREM TypeCorrect == Spec => []TypeOK
<1>1. CityInv => TypeOK
  BY DEF CityInv
<1>. QED
  BY <1>1, CityInvariant, PTL

\* record_artifact: the versions of a path are 1, 2, ... in the order of the
\* feed, however batches race for a version and fail.
THEOREM ArtifactsInOrder == Spec => []ArtifactHistory
<1>1. CityInv => ArtifactHistory
  BY HistoryHolds DEF CityInv
<1>. QED
  BY <1>1, CityInvariant, PTL

\* set_job_status and start_job: the service's last word on a job carries the
\* status of its row, unless a request wrote the row from a copy that was out of
\* date.
THEOREM StatusIsTold == Spec => []StatusTold
<1>1. CityInv => StatusTold
  BY StatusHolds DEF CityInv
<1>. QED
  BY <1>1, CityInvariant, PTL

\* cohesion_decide, city_pulse, conduct_city and run_wedge_demo: a veto is told
\* together with the failure it decided, a merge is followed by its outcome
\* unless the request failed in between, the end of a family is told with the
\* start of the next.  This is about the decisions of the service itself, not
\* about what a caller has emit_viz_event tell.
THEOREM DecisionsAreWhole == Spec => []DecisionsToldWhole
<1>1. CityInv => DecisionsToldWhole
  BY DecisionsHold DEF CityInv
<1>. QED
  BY <1>1, CityInvariant, PTL

\* stream_city_events: a poll passes over nothing that was committed, whatever
\* the size of a page.
THEOREM StreamSkipsNothing == Spec => StreamNeverJumps
<1> DEFINE Jumps == \E i \in Unread : i <= Cursor' /\ log'[i].state # "sent"
<1>1. CityInv /\ [Next]_vars => [~Jumps]_vars
  BY StreamStep DEF CityInv
<1>2. [~Jumps]_vars => [LET after == Cursor'
                        IN \A i \in Unread : i <= after => log'[i].state = "sent"]_vars
  OBVIOUS
<1>. QED
  BY <1>1, <1>2, CityInvariant, PTL DEF Spec, StreamNeverJumps
=============================================================================
