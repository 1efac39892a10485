-------------------------- MODULE PersonaVersions --------------------------
(***************************************************************************)
(* The version history of personas (api/main.py, persona_repository.py,    *)
(* persona_version_repository.py).  Every endpoint that creates a persona  *)
(* records version 1 with it; an update and an applied preset record the   *)
(* highest number plus one, with a snapshot of the row.  The number is     *)
(* read and then inserted; (persona_id, version_number) is unique.         *)
(*                                                                         *)
(* The ORM sends only the columns that differ from what the request has    *)
(* loaded.  An update that changes nothing sends no UPDATE at all and      *)
(* holds no row lock when it records its version.  Row locks, foreign keys *)
(* and the unique constraint are PostgreSQL's (external).                  *)
(*                                                                         *)
(* The 23 knobs are one column and model, temperature and max_tokens       *)
(* another; names and descriptions are left out, and so are the personas   *)
(* a clone or a blend is made of.  A request is made once.                 *)
(***************************************************************************)
EXTENDS Naturals, FiniteSets

CONSTANTS
    Personas,   \* rows of personas
    Writers,    \* PUT and apply-preset requests
    Target,     \* the persona a request names
    Values,     \* values of a column
    MaxVersion, \* bound: version numbers
    MaxTunes    \* bound: tunings by families

ASSUME VersionAssumption ==
    /\ MaxVersion \in Nat \ {0} /\ MaxTunes \in Nat
    /\ IsFiniteSet(Writers)
    /\ Target \in [Writers -> Personas]

Columns == {"knobs", "settings"}
Profiles == [Columns -> Values]
Kinds == {"put", "preset"}

VARIABLES
    life,      \* the life of a persona row: none, stored or deleted
    content,   \* its columns, committed
    tunes,     \* tunings so far
    versions,  \* its committed versions: [number, snapshot]
    holder,    \* the request that holds the row's lock
    pc,        \* what a request does next
    kind,      \* the endpoint it called
    wanted,    \* the profile it submits
    loaded,    \* the columns as its session has loaded them
    snapshot,  \* the refreshed row, which its version will hold
    number,    \* the version number it has computed
    stale,     \* history: the row was changed after it was loaded
    drifted,   \* history: personas whose row was last written without a version
    unlocked   \* history: personas for which an update wrote a version only

request == <<pc, kind, wanted, loaded, snapshot, number>>
vars == <<life, content, tunes, versions, holder, request, stale, drifted, unlocked>>

Version == [number : 1..MaxVersion, snapshot : Profiles]
Nobody == "nobody"
ASSUME NobodyAssumption == Nobody \notin Writers
Stored(p) == life[p] = "stored"
Numbers(p) == {v.number : v \in versions[p]}
Nil == [c \in Columns |-> "nil"]

Init ==
    /\ life = [p \in Personas |-> "none"]
    /\ content = [p \in Personas |-> Nil]
    /\ tunes = 0
    /\ versions = [p \in Personas |-> {}]
    /\ holder = [p \in Personas |-> Nobody]
    /\ pc = [w \in Writers |-> "idle"]
    /\ kind = [w \in Writers |-> "put"]
    /\ wanted = [w \in Writers |-> Nil]
    /\ loaded = [w \in Writers |-> Nil]
    /\ snapshot = [w \in Writers |-> Nil]
    /\ number = [w \in Writers |-> 0]
    /\ stale = {}
    /\ drifted = {}
    /\ unlocked = {}

-----------------------------------------------------------------------------
Busy == {"loaded", "flushed", "numbered", "inserted"}

\* Requests that have loaded a row which is written now, by another.
Overtaken(p) == {x \in Writers : Target[x] = p /\ pc[x] \in Busy /\ holder[p] # x}

\* A new row, with version 1 in the same commit or without one.
Insert(p, c, first) ==
    /\ life[p] = "none"
    /\ life' = [life EXCEPT ![p] = "stored"]
    /\ content' = [content EXCEPT ![p] = c]
    /\ versions' = [versions EXCEPT ![p] = first]
    /\ drifted' = IF first = {} THEN drifted \cup {p} ELSE drifted
    /\ UNCHANGED <<holder, request, stale, unlocked, tunes>>

RecordFirst(c) == {[number |-> 1, snapshot |-> c]}

\* create_persona and import_persona.
CreatePersona(p, c) == Insert(p, c, RecordFirst(c))

\* extract_analysis and extract_and_create_persona: knobs from a text.
AnalysePersona(p, v) ==
    \E c \in Profiles : c.knobs = v /\ Insert(p, c, RecordFirst(c))

\* clone_persona, of a persona with this profile.
ClonePersona(p, c) == Insert(p, c, RecordFirst(c))

\* A blend has columns of the personas it is made of, or between theirs.
BlendPersonas(p, c, d) ==
    \E e \in Profiles :
        /\ \A k \in Columns : c[k] = d[k] => e[k] = c[k]
        /\ Insert(p, e, RecordFirst(e))

\* What Cyrex holds under an id is up to Cyrex.
ImportFromCyrex(p, c) == Insert(p, c, RecordFirst(c))

\* seed_presets, and the persona create_family makes for a parent without one.
SeedPersona(p, c) == Insert(p, c, {})

\* get, in PersonaService.update; a persona that is not there is answered 404.
Load(w, k, c) ==
    /\ pc[w] = "idle"
    /\ kind' = [kind EXCEPT ![w] = k]
    /\ wanted' = [wanted EXCEPT
           ![w] = IF k = "put" THEN c ELSE [content[Target[w]] EXCEPT !.knobs = c.knobs]]
    /\ loaded' = [loaded EXCEPT ![w] = content[Target[w]]]
    /\ Stored(Target[w])
    /\ pc' = [pc EXCEPT ![w] = "loaded"]
    /\ UNCHANGED <<life, content, versions, holder, snapshot, number,
                   stale, drifted, unlocked, tunes>>

\* The columns the endpoint assigns, and those of them that differ.
Assigned(w) == IF kind[w] = "put" THEN Columns ELSE {"knobs"}
Dirty(w) == {c \in Assigned(w) : wanted[w][c] # loaded[w][c]}

\* Mutant of Flushed: every assigned column is left as it was loaded.
FlushedFromCopy(w) ==
    [c \in Columns |-> IF c \in Dirty(w) THEN wanted[w][c] ELSE loaded[w][c]]

\* The row after the UPDATE, as the refresh finds it.
Flushed(w) ==
    [c \in Columns |-> IF c \in Dirty(w) THEN wanted[w][c] ELSE content[Target[w]][c]]

\* What an ended request has in memory is forgotten.
Forget(w) ==
    /\ wanted' = [wanted EXCEPT ![w] = Nil]
    /\ loaded' = [loaded EXCEPT ![w] = Nil]
    /\ snapshot' = [snapshot EXCEPT ![w] = Nil]
    /\ number' = [number EXCEPT ![w] = 0]
    /\ kind' = [kind EXCEPT ![w] = "put"]

\* A request ends without a trace.
Fail(w, answer) ==
    /\ pc' = [pc EXCEPT ![w] = answer]
    /\ holder' = [p \in Personas |-> IF holder[p] = w THEN Nobody ELSE holder[p]]
    /\ Forget(w)
    /\ stale' = stale \ {w}
    /\ UNCHANGED <<life, content, versions, drifted, unlocked, tunes>>

\* Mutant of Flush: the UPDATE is sent with the commit, after the version.
FlushWithoutLock(w) ==
    LET p == Target[w]
    IN  /\ pc[w] = "loaded"
        /\ Stored(p)
        /\ snapshot' = [snapshot EXCEPT ![w] = Flushed(w)]
        /\ pc' = [pc EXCEPT ![w] = "flushed"]
        /\ UNCHANGED <<life, content, versions, holder, kind, wanted,
                       loaded, number, stale, drifted, unlocked, tunes>>

\* flush with an UPDATE: the columns, or updated_at alone when the client
\* does not send back the value it was given.  Waits for the row's lock.
Flush(w) ==
    LET p == Target[w]
    IN  /\ pc[w] = "loaded"
        /\ holder[p] = Nobody
        /\ \/ /\ Stored(p)
              /\ holder' = [holder EXCEPT ![p] = w]
              /\ snapshot' = [snapshot EXCEPT ![w] = Flushed(w)]
              /\ pc' = [pc EXCEPT ![w] = "flushed"]
              /\ UNCHANGED <<life, content, versions, kind, wanted,
                             loaded, number, stale, drifted, unlocked, tunes>>
           \/ ~Stored(p) /\ Fail(w, "error")

\* flush without an UPDATE, then refresh.
SkipFlush(w) ==
    LET p == Target[w]
    IN  /\ pc[w] = "loaded"
        /\ Dirty(w) = {}
        /\ \/ /\ Stored(p)
              /\ snapshot' = [snapshot EXCEPT ![w] = content[p]]
              /\ pc' = [pc EXCEPT ![w] = "flushed"]
              /\ unlocked' = unlocked \cup {p}
              /\ UNCHANGED <<life, content, versions, holder, kind,
                             wanted, loaded, number, stale, drifted, tunes>>
           \/ ~Stored(p) /\ Fail(w, "error")

\* get_latest_version_number, plus one.
NextNumber(w) ==
    LET p == Target[w]
    IN  /\ pc[w] = "flushed"
        /\ Cardinality(versions[p]) < MaxVersion
        /\ number' = [number EXCEPT ![w] =
               1 + CHOOSE n \in Numbers(p) \cup {0} : \A k \in Numbers(p) : k <= n]
        /\ pc' = [pc EXCEPT ![w] = "numbered"]
        /\ UNCHANGED <<life, content, versions, holder, kind, wanted,
                       loaded, snapshot, stale, drifted, unlocked, tunes>>

\* Mutant of InsertVersion: without the unique constraint.
InsertVersionUnchecked(w) ==
    /\ pc[w] = "numbered"
    /\ Stored(Target[w])
    /\ pc' = [pc EXCEPT ![w] = "inserted"]
    /\ UNCHANGED <<life, content, versions, holder, kind, wanted,
                   loaded, snapshot, number, stale, drifted, unlocked, tunes>>

\* The insert waits for an uncommitted version of the same number.
InsertVersion(w) ==
    LET p == Target[w]
    IN  /\ pc[w] = "numbered"
        /\ \A x \in Writers :
              pc[x] = "inserted" /\ Target[x] = p => number[x] # number[w]
        /\ \/ /\ Stored(p) /\ number[w] \notin Numbers(p)
              /\ pc' = [pc EXCEPT ![w] = "inserted"]
              /\ UNCHANGED <<life, content, versions, holder, kind,
                             wanted, loaded, snapshot, number, stale, drifted, unlocked, tunes>>
           \/ Stored(p) /\ number[w] \in Numbers(p) /\ Fail(w, "conflict")
           \/ ~Stored(p) /\ Fail(w, "error")

Commit(w) ==
    LET p == Target[w]
        writes == holder[p] = w
    IN  /\ pc[w] = "inserted"
        /\ pc' = [pc EXCEPT ![w] = "ok"]
        /\ versions' = [versions EXCEPT
               ![p] = @ \cup {[number |-> number[w], snapshot |-> snapshot[w]]}]
        /\ content' = [content EXCEPT ![p] = IF writes THEN snapshot[w] ELSE @]
        /\ holder' = [holder EXCEPT ![p] = IF writes THEN Nobody ELSE @]
        /\ stale' = (IF writes THEN stale \cup Overtaken(p) ELSE stale) \ {w}
        /\ drifted' = IF writes THEN drifted \ {p}
                      ELSE IF snapshot[w] # content[p] THEN drifted \cup {p}
                      ELSE drifted
        /\ Forget(w)
        /\ UNCHANGED <<life, unlocked, tunes>>

\* create_family tunes a persona it is given, model included, and records
\* nothing.
Retune(p, c) ==
    /\ Stored(p)
    /\ holder[p] = Nobody
    /\ tunes < MaxTunes
    /\ tunes' = tunes + 1
    /\ content' = [content EXCEPT ![p] = c]
    /\ stale' = stale \cup Overtaken(p)
    /\ drifted' = drifted \cup {p}
    /\ UNCHANGED <<life, versions, holder, request, unlocked>>

\* delete_persona takes the versions along; the DELETE waits for the row's
\* lock and for uncommitted versions, which refer to the row.
DeletePersona(p) ==
    /\ Stored(p)
    /\ holder[p] = Nobody
    /\ \A x \in Writers : ~(pc[x] = "inserted" /\ Target[x] = p)
    /\ life' = [life EXCEPT ![p] = "deleted"]
    /\ versions' = [versions EXCEPT ![p] = {}]
    /\ content' = [content EXCEPT ![p] = Nil]
    /\ drifted' = drifted \ {p}
    /\ UNCHANGED <<holder, request, stale, unlocked, tunes>>

\* A failed statement, a lost connection or the end of the server.
Abandon(w) == pc[w] \in Busy /\ Fail(w, "error")

Step(w) ==
    Flush(w) \/ SkipFlush(w) \/ NextNumber(w) \/ InsertVersion(w) \/ Commit(w)

New(p) ==
    \/ \E c \in Profiles : \/ CreatePersona(p, c)
                            \/ ImportFromCyrex(p, c)
                            \/ ClonePersona(p, c)
                            \/ SeedPersona(p, c)
    \/ \E v \in Values : AnalysePersona(p, v)
    \/ \E c, d \in Profiles : BlendPersonas(p, c, d)

Next ==
    \/ \E p \in Personas : New(p) \/ DeletePersona(p)
    \/ \E p \in Personas, c \in Profiles : Retune(p, c)
    \/ \E w \in Writers :
        \/ \E k \in Kinds, c \in Profiles : Load(w, k, c)
        \/ Step(w) \/ Abandon(w)

Spec == Init /\ [][Next]_vars

-----------------------------------------------------------------------------
TypeOK ==
    /\ life \in [Personas -> {"none", "stored", "deleted"}]
    /\ content \in [Personas -> Profiles \cup {Nil}]
    /\ tunes \in 0..MaxTunes
    /\ versions \in [Personas -> SUBSET Version]
    /\ holder \in [Personas -> Writers \cup {Nobody}]
    /\ pc \in [Writers -> Busy \cup {"idle", "ok", "conflict", "error"}]
    /\ kind \in [Writers -> Kinds]
    /\ wanted \in [Writers -> Profiles \cup {Nil}]
    /\ loaded \in [Writers -> Profiles \cup {Nil}]
    /\ snapshot \in [Writers -> Profiles \cup {Nil}]
    /\ number \in [Writers -> 0..MaxVersion]
    /\ stale \subseteq Writers
    /\ drifted \subseteq Personas
    /\ unlocked \subseteq Personas

\* The versions of a persona are its history: numbered 1, 2, 3 without gap or
\* repetition, the newest one a copy of the row.  Only a family's tuning, a
\* seeded preset, or an update that changed nothing and overlapped one that
\* did, leave a row the newest version does not show.
VersionHistory ==
    \A p \in Personas : Stored(p) =>
        /\ Numbers(p) = 1..Cardinality(versions[p])
        /\ p \notin drifted =>
              \E v \in versions[p] :
                  v.number = Cardinality(versions[p]) /\ v.snapshot = content[p]

\* The row lock taken by the UPDATE serialises the numbering: an update is
\* refused for its version number only if an update that sent no UPDATE ran
\* on the same persona.
ConflictOnlyBesideUnlocked ==
    \A w \in Writers : pc[w] = "conflict" => Target[w] \in unlocked

\* An accepted update changes the columns it wanted to change and no other:
\* what overlapping updates committed to other columns survives.  A column
\* the request submits unchanged keeps the request's value unless the row was
\* changed after it had been loaded.
AcceptedIsApplied ==
    [][\A w \in Writers : pc[w] = "inserted" /\ pc'[w] = "ok" =>
        \A c \in Columns :
            content'[Target[w]][c] =
                IF c \in Assigned(w) /\ (c \in Dirty(w) \/ w \notin stale)
                THEN wanted[w][c] ELSE content[Target[w]][c]]_vars
=============================================================================
