---------------------------- MODULE PersonaCache ----------------------------
(***************************************************************************)
(* The cache of what is derived from a persona: its system prompt and its  *)
(* sampling parameters (cache.py), used cache-aside by PersonaService and  *)
(* by the endpoints that change a persona (api/main.py).  Personas share   *)
(* no key, so one persona is modelled.                                     *)
(*                                                                         *)
(* Redis keeps a generation number and one entry per generation, a hash of *)
(* fields with a time to live.  Every access is a round trip of its own:   *)
(* a set reads the generation, reads the entry and writes it back; an      *)
(* invalidation reads the generation, writes the next one and deletes two  *)
(* entries, through a pipeline that is not a transaction.  An update       *)
(* invalidates BEFORE it commits.  One that changes the row holds its lock *)
(* meanwhile; one that writes what the row has already takes no lock, and  *)
(* still invalidates, so that invalidations may overlap.  Redis,           *)
(* PostgreSQL and their failures are external; the content of a persona is *)
(* abstracted to the number of times it was changed.                       *)
(***************************************************************************)
EXTENDS Naturals

CONSTANTS
    Readers,      \* requests for a derived field
    Writers,      \* requests that change the persona
    Fields,       \* "system_prompt", "sampling"
    Mixes,        \* which requests come together: the fields each reader asks
                  \* for, the kinds of write each writer makes
    MaxVersion,   \* bound on the number of changes
    MaxGeneration,  \* bound on the number of invalidations
    MaxFaults     \* bound on Redis failures and failed updates

NoWriter == "nobody"
Deleted == 0
Missing == 0
None == "none"

\* update: PersonaService.update (PUT, preset);  repeat: the same with the
\* values the row has, of which the flush makes no UPDATE;  retune:
\* create_family over an existing persona;  delete: DELETE.
Kinds == {"update", "repeat", "retune", "delete"}

\* The kinds that go through PersonaService.update.
Invalidating == {"update", "repeat"}

ASSUME WritersAssumption == NoWriter \notin Writers
ASSUME MixesAssumption ==
    Mixes \subseteq [reads : [Readers -> SUBSET Fields], writes : [Writers -> SUBSET Kinds]]
ASSUME FieldsAssumption == None \notin Fields
ASSUME BoundsAssumption ==
    MaxVersion \in Nat \ {0} /\ MaxGeneration \in Nat /\ MaxFaults \in Nat

VARIABLES
    row,      \* committed content of the persona, Deleted after a DELETE
    lock,     \* the writer whose transaction holds the row
    gen,      \* the generation key
    entry,    \* the entry of every generation: content per field
    rpc, field, rgen, val, seen,  \* a reader: place, field, generation and
                                  \* content it has read, entry it will update
    wpc, kind, wgen,              \* a writer: place, kind, generation it read
    faults,
    raced,    \* history: a cause of a stale entry has occurred
    ask       \* the mix of requests, which stays

reader == <<rpc, field, rgen, val, seen>>
writer == <<wpc, kind, wgen>>
vars == <<row, lock, gen, entry, reader, writer, faults, raced, ask>>

-----------------------------------------------------------------------------
Generations == 0..MaxGeneration

Empty == [f \in Fields |-> Missing]

Init ==
    /\ row = 1
    /\ lock = NoWriter
    /\ gen = 0
    /\ entry = [g \in Generations |-> Empty]
    /\ rpc = [r \in Readers |-> "idle"]
    /\ field = [r \in Readers |-> None]
    /\ rgen = [r \in Readers |-> 0]
    /\ val = [r \in Readers |-> Missing]
    /\ seen = [r \in Readers |-> Empty]
    /\ wpc = [w \in Writers |-> "idle"]
    /\ kind = [w \in Writers |-> None]
    /\ wgen = [w \in Writers |-> 0]
    /\ faults = 0
    /\ raced = FALSE
    /\ ask \in Mixes

-----------------------------------------------------------------------------
(* A read: get_system_prompt or get_sampling_params.                       *)

Answer(r) ==
    /\ rpc' = [rpc EXCEPT ![r] = "idle"]
    /\ field' = [field EXCEPT ![r] = None]
    /\ rgen' = [rgen EXCEPT ![r] = 0]
    /\ val' = [val EXCEPT ![r] = Missing]
    /\ seen' = [seen EXCEPT ![r] = Empty]

\* _get_entry, first round trip: the generation.
Lookup(r, f) ==
    /\ rpc[r] = "idle"
    /\ field' = [field EXCEPT ![r] = f]
    /\ rgen' = [rgen EXCEPT ![r] = gen]
    /\ rpc' = [rpc EXCEPT ![r] = "lookup"]
    /\ UNCHANGED <<row, lock, gen, entry, val, seen, writer, faults, raced, ask>>

\* Mutant of Hit: a hit renews the entry's time to live by storing it again.
HitRenews(r) ==
    /\ rpc[r] = "lookup"
    /\ entry[rgen[r]][field[r]] # Missing
    /\ val' = [val EXCEPT ![r] = entry[rgen[r]][field[r]]]
    /\ rpc' = [rpc EXCEPT ![r] = "store"]
    /\ UNCHANGED <<row, lock, gen, entry, field, rgen, seen, writer, faults, raced, ask>>

\* Second round trip: the entry has the field, which is the answer.
Hit(r) ==
    /\ rpc[r] = "lookup"
    /\ entry[rgen[r]][field[r]] # Missing
    /\ Answer(r)
    /\ UNCHANGED <<row, lock, gen, entry, writer, faults, raced, ask>>

Miss(r) ==
    /\ rpc[r] = "lookup"
    /\ entry[rgen[r]][field[r]] = Missing
    /\ rpc' = [rpc EXCEPT ![r] = "derive"]
    /\ UNCHANGED <<row, lock, gen, entry, field, rgen, val, seen, writer, faults, raced, ask>>

\* The persona is read from the database and the field is derived; a deleted
\* persona is a 404.
Derive(r) ==
    /\ rpc[r] = "derive"
    /\ IF row = Deleted
       THEN Answer(r)
       ELSE /\ val' = [val EXCEPT ![r] = row]
            /\ rpc' = [rpc EXCEPT ![r] = "store"]
            /\ UNCHANGED <<field, rgen, seen>>
    /\ UNCHANGED <<row, lock, gen, entry, writer, faults, raced, ask>>

\* A writer has announced a new generation and not committed its change.
Announced == \E w \in Writers : wpc[w] \in {"purge", "commit"} /\ kind[w] = "update"

\* _set_fields, first round trip.  It asks for the generation NOW, after the
\* content was read: if the persona has changed or is about to, old content
\* will be filed under the new generation.
StoreGeneration(r) ==
    /\ rpc[r] = "store"
    /\ rgen' = [rgen EXCEPT ![r] = gen]
    /\ rpc' = [rpc EXCEPT ![r] = "merge"]
    /\ raced' = (raced \/ val[r] # row \/ Announced)
    /\ UNCHANGED <<row, lock, gen, entry, field, val, seen, writer, faults, ask>>

\* Second round trip: the fields the entry has already.
StoreMerge(r) ==
    /\ rpc[r] = "merge"
    /\ seen' = [seen EXCEPT ![r] = entry[rgen[r]]]
    /\ rpc' = [rpc EXCEPT ![r] = "write"]
    /\ UNCHANGED <<row, lock, gen, entry, field, rgen, val, writer, faults, raced, ask>>

\* Mutant of StoreWrite: the entry is one key, without a generation.
StoreWriteUnversioned(r) ==
    /\ rpc[r] = "write"
    /\ entry' = [entry EXCEPT ![gen] = [seen[r] EXCEPT ![field[r]] = val[r]]]
    /\ Answer(r)
    /\ UNCHANGED <<row, lock, gen, writer, faults, raced, ask>>

\* Third round trip: the whole entry is written, with a time to live.
StoreWrite(r) ==
    /\ rpc[r] = "write"
    /\ entry' = [entry EXCEPT ![rgen[r]] = [seen[r] EXCEPT ![field[r]] = val[r]]]
    /\ Answer(r)
    /\ UNCHANGED <<row, lock, gen, writer, faults, raced, ask>>

-----------------------------------------------------------------------------
(* A write of the persona.                                                 *)

\* The row is changed and flushed, which locks it; update goes on to the
\* invalidation, the others straight to the commit.
BeginWrite(w, k) ==
    /\ wpc[w] = "idle"
    /\ k # "repeat"
    /\ lock = NoWriter
    /\ row # Deleted
    /\ row < MaxVersion /\ gen < MaxGeneration
    /\ lock' = w
    /\ kind' = [kind EXCEPT ![w] = k]
    /\ wpc' = [wpc EXCEPT ![w] = IF k = "update" THEN "invalidate" ELSE "commit"]
    /\ UNCHANGED <<row, gen, entry, reader, wgen, faults, raced, ask>>

\* The values are those the row has: the flush sends nothing and waits for
\* nobody, and the invalidation follows all the same.
BeginRepeat(w) ==
    /\ wpc[w] = "idle"
    /\ row # Deleted
    /\ gen < MaxGeneration
    /\ kind' = [kind EXCEPT ![w] = "repeat"]
    /\ wpc' = [wpc EXCEPT ![w] = "invalidate"]
    /\ UNCHANGED <<row, lock, gen, entry, reader, wgen, faults, raced, ask>>

\* invalidate, first round trip.
Invalidate(w) ==
    /\ wpc[w] = "invalidate"
    /\ gen < MaxGeneration
    /\ wgen' = [wgen EXCEPT ![w] = gen]
    /\ wpc' = [wpc EXCEPT ![w] = "announce"]
    /\ UNCHANGED <<row, lock, gen, entry, reader, kind, faults, raced, ask>>

\* Mutant of Announce: the generation is counted up, and a client that
\* retries counts it up again although it was applied.
AnnounceRetries(w) ==
    /\ wpc[w] = "announce"
    /\ gen' = gen + 2
    /\ wpc' = [wpc EXCEPT ![w] = "purge"]
    /\ UNCHANGED <<row, lock, entry, reader, kind, wgen, faults, raced, ask>>

\* The generation has moved since this writer read it, and the one it will
\* announce is behind it, or is the current one and holds the old content.
Overtaken(w) ==
    IF kind[w] = "update" THEN wgen[w] # gen ELSE wgen[w] + 1 < gen

\* The pipeline: SET of the next generation, whatever it is by now ...
Announce(w) ==
    /\ wpc[w] = "announce"
    /\ gen' = wgen[w] + 1
    /\ wpc' = [wpc EXCEPT ![w] = "purge"]
    /\ raced' = (raced \/ Overtaken(w))
    /\ UNCHANGED <<row, lock, entry, reader, kind, wgen, faults, ask>>

\* ... and DEL of both entries.
Purge(w) ==
    /\ wpc[w] = "purge"
    /\ entry' = [g \in Generations |-> IF g \in {wgen[w], wgen[w] + 1}
                                       THEN Empty ELSE entry[g]]
    /\ wpc' = [wpc EXCEPT ![w] = "commit"]
    /\ UNCHANGED <<row, lock, gen, reader, kind, wgen, faults, raced, ask>>

\* The end of the transaction, which releases the lock if it took one.
EndWrite(w) ==
    /\ lock' = IF lock = w THEN NoWriter ELSE lock
    /\ wpc' = [wpc EXCEPT ![w] = "idle"]
    /\ kind' = [kind EXCEPT ![w] = None]
    /\ wgen' = [wgen EXCEPT ![w] = 0]

Commit(w) ==
    /\ wpc[w] = "commit"
    /\ row' = IF kind[w] = "delete" THEN Deleted
              ELSE IF kind[w] = "repeat" THEN row ELSE row + 1
    /\ raced' = (raced \/ kind[w] \notin Invalidating)
    /\ EndWrite(w)
    /\ UNCHANGED <<gen, entry, reader, faults, ask>>

-----------------------------------------------------------------------------
(* Faults and time.                                                        *)

\* Redis does not answer a read: it is a miss, or the answer is not stored.
ReadFault(r) ==
    /\ rpc[r] \in {"lookup", "store", "merge", "write"}
    /\ faults < MaxFaults
    /\ faults' = faults + 1
    /\ IF rpc[r] = "lookup"
       THEN rpc' = [rpc EXCEPT ![r] = "derive"] /\ UNCHANGED <<field, rgen, val, seen>>
       ELSE Answer(r)
    /\ UNCHANGED <<row, lock, gen, entry, writer, raced, ask>>

\* Redis does not answer an invalidation: it is given up, the update is not.
InvalidationFault(w) ==
    /\ wpc[w] \in {"invalidate", "announce", "purge"}
    /\ faults < MaxFaults
    /\ faults' = faults + 1
    /\ wpc' = [wpc EXCEPT ![w] = "commit"]
    /\ raced' = (raced \/ (kind[w] = "update" /\ wpc[w] # "purge"))
    /\ UNCHANGED <<row, lock, gen, entry, reader, kind, wgen, ask>>

\* The version record or the commit fails: the change is rolled back, the
\* invalidation is not.
WriteFault(w) ==
    /\ wpc[w] = "commit"
    /\ faults < MaxFaults
    /\ faults' = faults + 1
    /\ EndWrite(w)
    /\ UNCHANGED <<row, gen, entry, reader, raced, ask>>

\* The time to live of an entry ends.
Expire(g) ==
    /\ entry[g] # Empty
    /\ entry' = [entry EXCEPT ![g] = Empty]
    /\ UNCHANGED <<row, lock, gen, reader, writer, faults, raced, ask>>

-----------------------------------------------------------------------------
Read(r) ==
    \/ Hit(r)
    \/ Miss(r)
    \/ Derive(r)
    \/ StoreGeneration(r)
    \/ StoreMerge(r)
    \/ StoreWrite(r)

Write(w) ==
    \/ Invalidate(w)
    \/ Announce(w)
    \/ Purge(w)
    \/ Commit(w)

Next ==
    \/ \E r \in Readers :
          \/ \E f \in Fields : f \in ask.reads[r] /\ Lookup(r, f)
          \/ Read(r) \/ ReadFault(r)
    \/ \E w \in Writers :
          \/ \E k \in Kinds : k \in ask.writes[w] /\ BeginWrite(w, k)
          \/ "repeat" \in ask.writes[w] /\ BeginRepeat(w)
          \/ Write(w) \/ InvalidationFault(w) \/ WriteFault(w)
    \/ \E g \in Generations : Expire(g)

Spec == Init /\ [][Next]_vars

(* A request that was started goes on, and a time to live ends.  Nobody    *)
(* has to start one.                                                       *)
Fairness ==
    /\ \A r \in Readers : WF_vars(Read(r))
    /\ \A w \in Writers : WF_vars(Write(w))
    /\ \A g \in Generations : WF_vars(Expire(g))

FairSpec == Spec /\ Fairness

-----------------------------------------------------------------------------
(* Properties.                                                             *)

Contents == [Fields -> 0..MaxVersion]

\* The type invariant.
TypeOK ==
    /\ row \in 0..MaxVersion
    /\ lock \in Writers \cup {NoWriter}
    /\ gen \in Generations
    /\ entry \in [Generations -> Contents]
    /\ rpc \in [Readers -> {"idle", "lookup", "derive", "store", "merge", "write"}]
    /\ field \in [Readers -> Fields \cup {None}]
    /\ rgen \in [Readers -> Generations]
    /\ val \in [Readers -> 0..MaxVersion]
    /\ seen \in [Readers -> Contents]
    /\ wpc \in [Writers -> {"idle", "invalidate", "announce", "purge", "commit"}]
    /\ kind \in [Writers -> Kinds \cup {None}]
    /\ wgen \in [Writers -> Generations]
    /\ faults \in 0..MaxFaults
    /\ raced \in BOOLEAN

Fresh(e) == \A f \in Fields : e[f] \in {Missing, row}

\* What the generations do achieve: an answer that asked for its generation
\* before an invalidation never reaches the entry that is read after it.
\* The entry of the current generation is stale only if an answer derived
\* before a change asked for the generation after the invalidation, if Redis
\* did not take the invalidation, if the change does not invalidate, or if
\* two invalidations overlapped and the later one announced, for a change, a
\* generation that was in use already, or a generation of the past.
StaleOnlyByRace == raced \/ Fresh(entry[gen])

\* Now and then no request is in flight.
Quiet == \A r \in Readers : rpc[r] = "idle"

\* A stale entry does not stay: once the persona is not changed any more,
\* the cache is fresh for good after one time to live, if requests do not
\* overlap without end.  (If they do, one of them may merge the stale field
\* before the entry ends and write it back after, and so may the next.)
EventuallyFresh == []<>Quiet => <>[]Fresh(entry[gen])

-----------------------------------------------------------------------------
(* The inductive invariant behind StaleOnlyByRace.                         *)

\* Of the writers that change the row, one at a time is past its flush and
\* holds the lock; those that repeat it are held up by nobody.
WriterHoldsRow ==
    \A w \in Writers :
        /\ lock = w <=> (wpc[w] # "idle" /\ kind[w] # "repeat")
        /\ lock = w => row \in 1..(MaxVersion - 1)
        /\ wpc[w] \in {"invalidate", "announce", "purge"} => kind[w] \in Invalidating
        /\ wpc[w] \in {"announce", "purge"} => wgen[w] < MaxGeneration

FieldsAreNamed == \A r \in Readers : rpc[r] # "idle" => field[r] \in Fields

\* Short of a race, nothing is filed under a generation that was not
\* announced, and nobody knows of one.
NoFutureEntries ==
    \/ raced
    \/ /\ \A g \in Generations : g > gen => entry[g] = Empty
       /\ \A r \in Readers : rgen[r] <= gen
       /\ \A w \in Writers : wpc[w] = "announce" => wgen[w] <= gen

\* Short of a race, whatever is or will be filed under the current generation
\* is the committed content, and nothing is while a change is announced.
FilesAreFresh ==
    \/ raced
    \/ /\ Fresh(entry[gen])
       /\ Announced => entry[gen] = Empty
       /\ \A r \in Readers :
             rpc[r] \in {"merge", "write"} /\ rgen[r] = gen =>
                 /\ val[r] = row /\ ~Announced
                 /\ rpc[r] = "write" => Fresh(seen[r])

CacheInv == WriterHoldsRow /\ FieldsAreNamed /\ NoFutureEntries /\ FilesAreFresh

-----------------------------------------------------------------------------
(* Statements of the repository that the code does not keep.               *)

\* "a versioned cache-aside pattern so invalidation is race-safe even when an
\* older in-flight request finishes after a persona update": between updates
\* the entry that is served is not stale.
InvalidationIsRaceSafe == lock = NoWriter => Fresh(entry[gen])
=============================================================================
