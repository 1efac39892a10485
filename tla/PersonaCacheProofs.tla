------------------------- MODULE PersonaCacheProofs -------------------------
(***************************************************************************)
(* What the generations of the persona cache guarantee, for any number of  *)
(* readers, writers, fields and changes.                                   *)
(***************************************************************************)
EXTENDS PersonaCache, TLAPS

USE DEF Deleted, Missing

\* The bounds are numbers, and an empty entry is an entry.
LEMMA BoundFacts ==
    /\ MaxVersion \in Nat /\ MaxVersion >= 1
    /\ MaxGeneration \in Nat /\ MaxFaults \in Nat
    /\ 0 \in Generations /\ Generations \subseteq Nat
    /\ Empty \in Contents
<1>1. /\ MaxVersion \in Nat /\ MaxVersion >= 1
      /\ MaxGeneration \in Nat /\ MaxFaults \in Nat
  BY BoundsAssumption
<1>2. 0 \in Generations /\ Generations \subseteq Nat
  BY <1>1 DEF Generations
<1>3. Empty \in Contents
  BY <1>1 DEF Empty, Contents
<1> QED  BY <1>1, <1>2, <1>3

\* The steps of a writer.
WriterStep(w) ==
    \/ \E k \in Kinds : BeginWrite(w, k)
    \/ BeginRepeat(w)
    \/ Write(w)
    \/ InvalidationFault(w)
    \/ WriteFault(w)

\* The cache starts empty, with nobody under way.
LEMMA InitInv == Init => TypeOK /\ CacheInv
<1> SUFFICES ASSUME Init PROVE TypeOK /\ CacheInv
  OBVIOUS
<1>1. TypeOK
  <2>1. row \in 0..MaxVersion /\ faults \in 0..MaxFaults
    BY BoundFacts DEF Init
  <2>2. gen \in Generations /\ rgen \in [Readers -> Generations]
        /\ wgen \in [Writers -> Generations]
    BY BoundFacts DEF Init
  <2>3. entry \in [Generations -> Contents] /\ seen \in [Readers -> Contents]
    BY BoundFacts DEF Init
  <2>4. val \in [Readers -> 0..MaxVersion]
    BY BoundFacts DEF Init
  <2> QED  BY <2>1, <2>2, <2>3, <2>4 DEF Init, TypeOK
<1>2. WriterHoldsRow
  BY WritersAssumption DEF Init, WriterHoldsRow
<1>3. FieldsAreNamed /\ NoFutureEntries
  BY BoundFacts DEF Init, FieldsAreNamed, NoFutureEntries
<1>4. Fresh(Empty)
  BY DEF Fresh, Empty
<1>5. FilesAreFresh
  BY <1>4, BoundFacts DEF Init, FilesAreFresh, Announced
<1> QED  BY <1>1, <1>2, <1>3, <1>5 DEF CacheInv

-----------------------------------------------------------------------------
(* Types.                                                                  *)

\* An answered reader is idle again.
LEMMA AnswerType ==
    ASSUME TypeOK, NEW r \in Readers, Answer(r)
    PROVE  /\ rpc' \in [Readers -> {"idle", "lookup", "derive", "store", "merge", "write"}]
           /\ field' \in [Readers -> Fields \cup {None}]
           /\ rgen' \in [Readers -> Generations]
           /\ val' \in [Readers -> 0..MaxVersion]
           /\ seen' \in [Readers -> Contents]
BY BoundFacts DEF TypeOK, Answer

\* Every step of a reader keeps the types.
LEMMA ReaderType ==
    ASSUME TypeOK, CacheInv, NEW r \in Readers,
           (\E f \in Fields : Lookup(r, f)) \/ Read(r) \/ ReadFault(r)
    PROVE  TypeOK'
<1> USE DEF TypeOK
<1>1. CASE \E f \in Fields : Lookup(r, f)
  BY <1>1 DEF Lookup, writer
<1>2. CASE Hit(r)
  BY <1>2, AnswerType DEF Hit, writer
<1>3. CASE Miss(r)
  BY <1>3 DEF Miss, writer
<1>4. CASE Derive(r)
  BY <1>4, AnswerType DEF Derive, writer
<1>5. CASE StoreGeneration(r)
  <2>1. raced' \in BOOLEAN
    BY <1>5 DEF StoreGeneration
  <2> QED  BY <1>5, <2>1 DEF StoreGeneration, writer
<1>6. CASE StoreMerge(r)
  BY <1>6 DEF StoreMerge, writer
<1>7. CASE StoreWrite(r)
  <2>1. field[r] \in Fields
    BY <1>7 DEF StoreWrite, CacheInv, FieldsAreNamed
  <2>2. [seen[r] EXCEPT ![field[r]] = val[r]] \in Contents
    BY <2>1 DEF Contents
  <2>3. entry' \in [Generations -> Contents]
    BY <1>7, <2>2 DEF StoreWrite
  <2> QED  BY <1>7, <2>3, AnswerType DEF StoreWrite, writer
<1>8. CASE ReadFault(r)
  <2>1. faults' \in 0..MaxFaults
    BY <1>8, BoundFacts DEF ReadFault
  <2> QED  BY <1>8, <2>1, AnswerType DEF ReadFault, writer
<1> QED  BY <1>1, <1>2, <1>3, <1>4, <1>5, <1>6, <1>7, <1>8 DEF Read

\* Every step of a writer keeps the types.
LEMMA WriterType ==
    ASSUME TypeOK, CacheInv, NEW w \in Writers, WriterStep(w)
    PROVE  TypeOK'
<1> USE DEF TypeOK
<1>0. /\ lock = w => row \in 1..(MaxVersion - 1)
      /\ wpc[w] # "idle" => lock = w \/ kind[w] = "repeat"
      /\ wpc[w] = "announce" => wgen[w] < MaxGeneration
  BY DEF CacheInv, WriterHoldsRow
<1>1. CASE \E k \in Kinds : BeginWrite(w, k)
  BY <1>1 DEF BeginWrite, reader
<1>2. CASE BeginRepeat(w)
  BY <1>2 DEF BeginRepeat, Kinds, reader
<1>3. CASE Invalidate(w)
  BY <1>3 DEF Invalidate, reader
<1>4. CASE Announce(w)
  <2>1. gen' \in Generations
    BY <1>0, <1>4, BoundFacts DEF Announce, Generations
  <2>2. raced' \in BOOLEAN
    BY <1>4 DEF Announce
  <2> QED  BY <1>4, <2>1, <2>2 DEF Announce, reader
<1>5. CASE Purge(w)
  <2>1. entry' \in [Generations -> Contents]
    BY <1>5, BoundFacts DEF Purge
  <2> QED  BY <1>5, <2>1 DEF Purge, reader
<1>6. CASE Commit(w)
  <2>1. row' \in 0..MaxVersion
    BY <1>0, <1>6, BoundFacts DEF Commit
  <2>2. raced' \in BOOLEAN
    BY <1>6 DEF Commit
  <2> QED  BY <1>6, <2>1, <2>2, BoundFacts DEF Commit, EndWrite, reader
<1>7. CASE InvalidationFault(w)
  <2>1. faults' \in 0..MaxFaults
    BY <1>7, BoundFacts DEF InvalidationFault
  <2>2. raced' \in BOOLEAN
    BY <1>7 DEF InvalidationFault
  <2> QED  BY <1>7, <2>1, <2>2 DEF InvalidationFault, reader
<1>8. CASE WriteFault(w)
  <2>1. faults' \in 0..MaxFaults
    BY <1>8, BoundFacts DEF WriteFault
  <2> QED  BY <1>8, <2>1, BoundFacts DEF WriteFault, EndWrite, reader
<1> QED  BY <1>1, <1>2, <1>3, <1>4, <1>5, <1>6, <1>7, <1>8 DEF WriterStep, Write

-----------------------------------------------------------------------------
(* The invariant, part by part.                                            *)

\* A step of a reader leaves the writers, the row and the generation alone.
LEMMA ReaderKeepsWriters ==
    ASSUME NEW r \in Readers,
           (\E f \in Fields : Lookup(r, f)) \/ Read(r) \/ ReadFault(r)
    PROVE  /\ row' = row /\ lock' = lock /\ gen' = gen
           /\ wpc' = wpc /\ kind' = kind /\ wgen' = wgen
BY DEF Lookup, Read, ReadFault, Hit, Miss, Derive, StoreGeneration, StoreMerge,
       StoreWrite, writer

\* Every step of a reader keeps the invariant: a store that has its generation
\* writes content which was committed when it asked, or marks the race.
LEMMA ReaderInv ==
    ASSUME TypeOK, CacheInv, NEW r \in Readers,
           (\E f \in Fields : Lookup(r, f)) \/ Read(r) \/ ReadFault(r)
    PROVE  CacheInv'
<1>1. /\ row' = row /\ lock' = lock /\ gen' = gen
      /\ wpc' = wpc /\ kind' = kind /\ wgen' = wgen
  BY ReaderKeepsWriters
<1>2. WriterHoldsRow'
  BY <1>1 DEF CacheInv, WriterHoldsRow
<1>3. Announced' <=> Announced
  BY <1>1 DEF Announced
<1>4. \A e : Fresh(e)' <=> Fresh(e)
  BY <1>1 DEF Fresh
<1>5. gen \in Generations /\ gen \in Nat /\ 0 <= gen
  BY BoundFacts DEF TypeOK
<1> USE DEF CacheInv
<1>6. CASE \E f \in Fields : Lookup(r, f)
  <2>1. FieldsAreNamed' /\ NoFutureEntries'
    BY <1>1, <1>5, <1>6 DEF TypeOK, Lookup, FieldsAreNamed, NoFutureEntries
  <2>2. FilesAreFresh'
    BY <1>1, <1>3, <1>4, <1>6 DEF TypeOK, Lookup, FilesAreFresh
  <2> QED  BY <1>2, <2>1, <2>2
<1>7. ASSUME Answer(r), entry' = entry, raced' = raced PROVE CacheInv'
  <2>1. FieldsAreNamed' /\ NoFutureEntries'
    BY <1>1, <1>5, <1>7 DEF TypeOK, Answer, FieldsAreNamed, NoFutureEntries
  <2>2. FilesAreFresh'
    BY <1>1, <1>3, <1>4, <1>7 DEF TypeOK, Answer, FilesAreFresh
  <2> QED  BY <1>2, <2>1, <2>2
<1>8. ASSUME rpc' = [rpc EXCEPT ![r] = "derive"], UNCHANGED <<field, rgen, val, seen>>,
             entry' = entry, raced' = raced, rpc[r] = "lookup"
      PROVE  CacheInv'
  <2>1. FieldsAreNamed' /\ NoFutureEntries'
    BY <1>1, <1>8 DEF TypeOK, FieldsAreNamed, NoFutureEntries
  <2>2. FilesAreFresh'
    BY <1>1, <1>3, <1>4, <1>8 DEF TypeOK, FilesAreFresh
  <2> QED  BY <1>2, <2>1, <2>2
<1>9. CASE Hit(r)
  BY <1>7, <1>9 DEF Hit
<1>10. CASE Miss(r)
  BY <1>8, <1>10 DEF Miss
<1>11. CASE Derive(r)
  <2>1. CASE row = Deleted
    BY <1>7, <1>11, <2>1 DEF Derive
  <2>2. CASE row # Deleted
    <3>1. FieldsAreNamed' /\ NoFutureEntries'
      BY <1>1, <1>11, <2>2 DEF TypeOK, Derive, FieldsAreNamed, NoFutureEntries
    <3>2. FilesAreFresh'
      BY <1>1, <1>3, <1>4, <1>11, <2>2 DEF TypeOK, Derive, FilesAreFresh
    <3> QED  BY <1>2, <3>1, <3>2
  <2> QED  BY <2>1, <2>2
<1>12. CASE StoreGeneration(r)
  <2>1. FieldsAreNamed' /\ NoFutureEntries'
    BY <1>1, <1>5, <1>12 DEF TypeOK, StoreGeneration, FieldsAreNamed, NoFutureEntries
  <2>2. ASSUME raced' PROVE FilesAreFresh'
    BY <2>2 DEF FilesAreFresh
  <2>3. ASSUME ~raced' PROVE FilesAreFresh'
    <3>1. ~raced /\ val[r] = row /\ ~Announced
      BY <1>12, <2>3 DEF StoreGeneration
    <3>2. FilesAreFresh'
      BY <1>1, <1>3, <1>4, <1>12, <3>1 DEF TypeOK, StoreGeneration, FilesAreFresh
    <3> QED  BY <3>2
  <2>4. FilesAreFresh'
    BY <2>2, <2>3
  <2> QED  BY <1>2, <2>1, <2>4
<1>13. CASE StoreMerge(r)
  <2>1. FieldsAreNamed' /\ NoFutureEntries'
    BY <1>1, <1>13 DEF TypeOK, StoreMerge, FieldsAreNamed, NoFutureEntries
  <2>2. FilesAreFresh'
    BY <1>1, <1>3, <1>4, <1>13 DEF TypeOK, StoreMerge, FilesAreFresh
  <2> QED  BY <1>2, <2>1, <2>2
<1>14. CASE StoreWrite(r)
  <2> DEFINE new == [seen[r] EXCEPT ![field[r]] = val[r]]
  <2>1. /\ rpc[r] = "write" /\ Answer(r) /\ raced' = raced
        /\ entry' = [entry EXCEPT ![rgen[r]] = new]
        /\ rgen[r] \in Generations /\ (raced \/ rgen[r] <= gen)
    BY <1>14 DEF StoreWrite, NoFutureEntries, TypeOK
  <2>2. FieldsAreNamed' /\ NoFutureEntries'
    BY <1>1, <1>5, <2>1, BoundFacts DEF TypeOK, Answer, FieldsAreNamed, NoFutureEntries
  <2>3. ASSUME raced PROVE FilesAreFresh'
    BY <2>1, <2>3 DEF FilesAreFresh
  <2>4. ASSUME ~raced, rgen[r] = gen PROVE FilesAreFresh'
    <3>1. val[r] = row /\ ~Announced /\ Fresh(seen[r])
      BY <2>1, <2>4 DEF FilesAreFresh
    <3>2. Fresh(new)
      BY <3>1 DEF Fresh, TypeOK, Contents
    <3>3. Fresh(entry[gen])'
      BY <1>1, <1>4, <1>5, <2>1, <2>4, <3>2 DEF TypeOK, Fresh
    <3> QED  BY <1>1, <1>3, <1>4, <2>1, <2>4, <3>1, <3>3 DEF TypeOK, Answer, FilesAreFresh
  <2>5. ASSUME ~raced, rgen[r] # gen PROVE FilesAreFresh'
    <3>1. entry'[gen] = entry[gen]
      BY <1>5, <2>1, <2>5 DEF TypeOK
    <3> QED  BY <1>1, <1>3, <1>4, <2>1, <2>5, <3>1 DEF TypeOK, Answer, FilesAreFresh
  <2>6. FilesAreFresh'
    BY <2>3, <2>4, <2>5
  <2> QED  BY <1>2, <2>2, <2>6
<1>15. CASE ReadFault(r)
  BY <1>7, <1>8, <1>15 DEF ReadFault
<1> QED  BY <1>6, <1>9, <1>10, <1>11, <1>12, <1>13, <1>14, <1>15 DEF Read

\* Every step of a writer keeps the part about writers: the row's lock admits
\* one change at a time.
LEMMA WriterKeepsLock ==
    ASSUME TypeOK, CacheInv, NEW w \in Writers, WriterStep(w)
    PROVE  WriterHoldsRow'
<1>0. WriterHoldsRow /\ MaxVersion \in Nat /\ MaxGeneration \in Nat /\ w # NoWriter
  BY BoundFacts, WritersAssumption DEF CacheInv
<1> USE DEF TypeOK, WriterHoldsRow, Invalidating
<1>1. CASE \E k \in Kinds : BeginWrite(w, k)
  <2>1. PICK k \in Kinds : BeginWrite(w, k)
    BY <1>1
  <2>2. /\ lock = NoWriter /\ lock' = w /\ wpc[w] = "idle" /\ k # "repeat"
        /\ row \in 1..(MaxVersion - 1) /\ row' = row /\ wgen' = wgen
        /\ kind' = [kind EXCEPT ![w] = k]
        /\ wpc' = [wpc EXCEPT ![w] = IF k = "update" THEN "invalidate" ELSE "commit"]
    BY <1>0, <2>1 DEF BeginWrite
  <2>3. \A v \in Writers : wpc[v] = "idle" \/ kind[v] = "repeat"
    BY <1>0, <2>2, WritersAssumption
  <2>4. \A v \in Writers \ {w} : wpc'[v] = wpc[v] /\ kind'[v] = kind[v]
    BY <2>2
  <2>5. kind'[w] = k /\ wpc'[w] \in {"invalidate", "commit"}
        /\ (wpc'[w] = "invalidate" => k = "update")
    BY <2>2
  <2> QED  BY <1>0, <2>2, <2>3, <2>4, <2>5
<1>2. CASE BeginRepeat(w)
  BY <1>0, <1>2 DEF BeginRepeat
<1>3. CASE Invalidate(w)
  BY <1>0, <1>3 DEF Invalidate
<1>4. CASE Announce(w)
  BY <1>0, <1>4 DEF Announce
<1>5. CASE Purge(w)
  BY <1>0, <1>5 DEF Purge
<1>6. ASSUME EndWrite(w), wpc[w] = "commit", lock = w \/ row' = row
      PROVE  WriterHoldsRow'
  BY <1>0, <1>6, WritersAssumption DEF EndWrite
<1>7. CASE Commit(w)
  BY <1>0, <1>6, <1>7 DEF Commit
<1>8. CASE InvalidationFault(w)
  BY <1>0, <1>8 DEF InvalidationFault
<1>9. CASE WriteFault(w)
  BY <1>6, <1>9 DEF WriteFault
<1> QED  BY <1>1, <1>2, <1>3, <1>4, <1>5, <1>7, <1>8, <1>9 DEF WriterStep, Write

\* A step that leaves the row, the generation and the entries alone, and after
\* which no more changes are announced, keeps what is filed.
LEMMA QuietStep ==
    ASSUME TypeOK, CacheInv, UNCHANGED <<row, gen, entry, reader, raced>>,
           Announced' => Announced,
           \A v \in Writers : wpc'[v] = "announce" =>
               \/ wpc[v] = "announce" /\ wgen'[v] = wgen[v]
               \/ wgen'[v] = gen
    PROVE  NoFutureEntries' /\ FilesAreFresh'
<1>1. gen \in Nat
  BY BoundFacts DEF TypeOK
<1>2. NoFutureEntries'
  BY <1>1 DEF CacheInv, NoFutureEntries, reader
<1>3. FilesAreFresh'
  BY DEF CacheInv, FilesAreFresh, Fresh, reader
<1> QED  BY <1>2, <1>3

\* Every step of a writer keeps the invariant: the generation that announces a
\* change starts empty and stays so until the change is committed or rolled
\* back, whatever the invalidations of other updates do meanwhile.
LEMMA WriterInv ==
    ASSUME TypeOK, CacheInv, NEW w \in Writers, WriterStep(w)
    PROVE  CacheInv'
<1>1. WriterHoldsRow /\ FieldsAreNamed /\ NoFutureEntries /\ FilesAreFresh
  BY DEF CacheInv
<1>2. WriterHoldsRow'
  BY WriterKeepsLock
<1>3. UNCHANGED reader
  BY DEF WriterStep, BeginWrite, BeginRepeat, Write, Invalidate, Announce, Purge,
         Commit, InvalidationFault, WriteFault
<1>4. gen \in Generations /\ gen \in Nat /\ MaxGeneration \in Nat
  BY BoundFacts DEF TypeOK
<1>5. FieldsAreNamed'
  BY <1>1, <1>3 DEF FieldsAreNamed, reader
<1>6. ASSUME raced' PROVE NoFutureEntries' /\ FilesAreFresh'
  BY <1>6 DEF NoFutureEntries, FilesAreFresh
<1>7. NoFutureEntries' /\ FilesAreFresh'
  <2>1. CASE \E k \in Kinds : BeginWrite(w, k)
    <3>1. UNCHANGED <<row, gen, entry, reader, raced>> /\ wgen' = wgen
      BY <2>1, <1>3 DEF BeginWrite
    <3>2. wpc'[w] \in {"invalidate", "commit"} /\ wpc'[w] # "announce"
          /\ (wpc'[w] = "commit" => kind'[w] # "update")
          /\ \A v \in Writers \ {w} : wpc'[v] = wpc[v] /\ kind'[v] = kind[v]
      BY <2>1 DEF BeginWrite, TypeOK
    <3>3. Announced' => Announced
      BY <3>2 DEF Announced
    <3> QED  BY <3>1, <3>2, <3>3, QuietStep
  <2>2. CASE BeginRepeat(w)
    <3>1. UNCHANGED <<row, gen, entry, reader, raced>> /\ wgen' = wgen
      BY <2>2, <1>3 DEF BeginRepeat
    <3>2. wpc'[w] = "invalidate"
          /\ \A v \in Writers \ {w} : wpc'[v] = wpc[v] /\ kind'[v] = kind[v]
      BY <2>2 DEF BeginRepeat, TypeOK
    <3>3. Announced' => Announced
      BY <3>2 DEF Announced
    <3> QED  BY <3>1, <3>2, <3>3, QuietStep
  <2>3. CASE Invalidate(w)
    <3>1. UNCHANGED <<row, gen, entry, reader, raced>>
      BY <2>3, <1>3 DEF Invalidate
    <3>2. wpc'[w] = "announce" /\ wgen'[w] = gen /\ kind' = kind
          /\ \A v \in Writers \ {w} : wpc'[v] = wpc[v] /\ wgen'[v] = wgen[v]
      BY <2>3 DEF Invalidate, TypeOK
    <3>3. Announced' => Announced
      BY <3>2 DEF Announced
    <3> QED  BY <3>1, <3>2, <3>3, QuietStep
  <2>4. ASSUME Announce(w), ~raced' PROVE NoFutureEntries' /\ FilesAreFresh'
    <3>1. /\ ~raced /\ ~Overtaken(w) /\ wpc[w] = "announce" /\ gen' = wgen[w] + 1
          /\ row' = row /\ entry' = entry /\ kind' = kind /\ wgen' = wgen
          /\ wpc' = [wpc EXCEPT ![w] = "purge"]
      BY <2>4 DEF Announce
    <3>2. wgen[w] \in Nat /\ wgen[w] <= gen /\ wgen[w] < MaxGeneration
          /\ kind[w] \in Invalidating
      BY <1>1, <3>1, BoundFacts DEF TypeOK, NoFutureEntries, WriterHoldsRow
    <3>3. gen' = gen + 1 \/ (gen' = gen /\ kind[w] = "repeat")
      BY <1>4, <3>1, <3>2 DEF Overtaken, Invalidating
    <3>4. gen' \in Generations /\ gen' \in Nat /\ gen <= gen'
      BY <1>4, <3>1, <3>2, <3>3 DEF Generations
    <3>5. \A r \in Readers : rgen'[r] <= gen /\ rgen'[r] \in Nat
      BY <1>1, <1>3, <3>1, BoundFacts DEF NoFutureEntries, TypeOK, reader
    <3>6. \A v \in Writers : wpc'[v] = "announce" => wgen'[v] <= gen /\ wgen'[v] \in Nat
      BY <1>1, <3>1, BoundFacts DEF NoFutureEntries, TypeOK
    <3>7. \A g \in Generations : g > gen' => entry'[g] = Empty
      BY <1>1, <1>4, <3>1, <3>4, BoundFacts DEF NoFutureEntries
    <3>8. NoFutureEntries'
      BY <1>4, <3>4, <3>5, <3>6, <3>7 DEF NoFutureEntries
    <3>9. CASE gen' = gen + 1
      <4>1. entry'[gen'] = Empty
        BY <1>1, <1>4, <3>1, <3>4, <3>9 DEF NoFutureEntries
      <4>2. \A r \in Readers : rgen'[r] # gen'
        BY <1>4, <3>5, <3>9
      <4> QED  BY <3>8, <4>1, <4>2 DEF FilesAreFresh, Fresh, Empty
    <3>10. CASE gen' = gen /\ kind[w] = "repeat"
      <4>1. Announced' => Announced
        BY <3>1, <3>10 DEF Announced, TypeOK
      <4> QED  BY <1>1, <1>3, <3>1, <3>8, <3>10, <4>1 DEF FilesAreFresh, Fresh, reader
    <3> QED  BY <3>3, <3>9, <3>10
  <2>5. CASE Purge(w)
    <3>1. gen' = gen /\ row' = row /\ raced' = raced /\ kind' = kind /\ wgen' = wgen
          /\ wpc[w] = "purge" /\ wpc' = [wpc EXCEPT ![w] = "commit"]
      BY <2>5 DEF Purge
    <3>2. \A g \in Generations : entry'[g] \in {Empty, entry[g]}
      BY <2>5 DEF Purge
    <3>3. NoFutureEntries'
      BY <1>1, <1>3, <3>1, <3>2 DEF NoFutureEntries, TypeOK, reader
    <3>4. Announced' => Announced
      BY <3>1 DEF Announced, TypeOK
    <3>5. FilesAreFresh'
      BY <1>1, <1>3, <1>4, <3>1, <3>2, <3>4 DEF FilesAreFresh, Fresh, Empty, reader
    <3> QED  BY <3>3, <3>5
  <2>6. ASSUME Commit(w), ~raced' PROVE NoFutureEntries' /\ FilesAreFresh'
    <3>1. /\ ~raced /\ kind[w] \in Invalidating /\ wpc[w] = "commit"
          /\ gen' = gen /\ entry' = entry /\ EndWrite(w)
          /\ row' = IF kind[w] = "repeat" THEN row ELSE row + 1
      BY <2>6 DEF Commit, Invalidating
    <3>2. \A v \in Writers \ {w} : wpc'[v] = wpc[v] /\ kind'[v] = kind[v] /\ wgen'[v] = wgen[v]
      BY <3>1 DEF EndWrite, TypeOK
    <3>3. wpc'[w] = "idle"
      BY <3>1 DEF EndWrite, TypeOK
    <3>4. NoFutureEntries'
      BY <1>1, <1>3, <3>1, <3>2, <3>3 DEF NoFutureEntries, reader
    <3>5. CASE kind[w] = "repeat"
      <4>1. Announced' => Announced
        BY <3>2, <3>3 DEF Announced
      <4> QED  BY <1>1, <1>3, <3>1, <3>4, <3>5, <4>1 DEF FilesAreFresh, Fresh, reader
    <3>6. CASE kind[w] = "update"
      <4>1. Announced
        BY <3>1, <3>6 DEF Announced
      <4>2. entry[gen] = Empty
            /\ \A r \in Readers : ~(rpc[r] \in {"merge", "write"} /\ rgen[r] = gen)
        BY <1>1, <3>1, <4>1 DEF FilesAreFresh
      <4>3. lock = w
        BY <1>1, <3>1, <3>6 DEF WriterHoldsRow
      <4>4. ~Announced'
        BY <1>1, <3>2, <3>3, <4>3 DEF Announced, WriterHoldsRow
      <4> QED  BY <1>3, <3>1, <3>4, <4>2, <4>4 DEF FilesAreFresh, Fresh, Empty, reader
    <3> QED  BY <3>1, <3>5, <3>6 DEF Invalidating
  <2>7. ASSUME InvalidationFault(w), ~raced' PROVE NoFutureEntries' /\ FilesAreFresh'
    <3>1. /\ ~raced /\ (kind[w] = "update" => wpc[w] = "purge")
          /\ UNCHANGED <<row, gen, entry, reader>> /\ kind' = kind /\ wgen' = wgen
          /\ wpc' = [wpc EXCEPT ![w] = "commit"]
      BY <2>7, <1>3 DEF InvalidationFault
    <3>2. Announced' => Announced
      BY <3>1 DEF Announced, TypeOK
    <3>3. raced' = raced
      BY <2>7, <3>1 DEF InvalidationFault, TypeOK
    <3>4. \A v \in Writers : wpc'[v] = "announce" => wpc[v] = "announce"
      BY <3>1 DEF TypeOK
    <3> QED  BY <3>1, <3>2, <3>3, <3>4, QuietStep
  <2>8. CASE WriteFault(w)
    <3>1. UNCHANGED <<row, gen, entry, reader, raced>> /\ EndWrite(w)
      BY <2>8, <1>3 DEF WriteFault
    <3>2. wpc'[w] = "idle" /\ \A v \in Writers \ {w} :
              wpc'[v] = wpc[v] /\ kind'[v] = kind[v] /\ wgen'[v] = wgen[v]
      BY <3>1 DEF EndWrite, TypeOK
    <3>3. Announced' => Announced
      BY <3>2 DEF Announced
    <3> QED  BY <3>1, <3>2, <3>3, QuietStep
  <2> QED  BY <1>6, <2>1, <2>2, <2>3, <2>4, <2>5, <2>6, <2>7, <2>8 DEF WriterStep, Write
<1> QED  BY <1>2, <1>5, <1>7 DEF CacheInv

\* The end of a time to live only empties an entry.
LEMMA ExpireInv ==
    ASSUME TypeOK, CacheInv, NEW g \in Generations, Expire(g)
    PROVE  TypeOK' /\ CacheInv'
<1>1. entry' = [entry EXCEPT ![g] = Empty]
      /\ UNCHANGED <<row, lock, gen, reader, writer, faults, raced>>
  BY DEF Expire
<1>2. \A h \in Generations : entry'[h] \in {Empty, entry[h]}
  BY <1>1 DEF TypeOK
<1>3. TypeOK'
  BY <1>1, BoundFacts DEF TypeOK, reader, writer
<1>4. WriterHoldsRow'
  BY <1>1 DEF CacheInv, WriterHoldsRow, writer
<1>5. FieldsAreNamed' /\ NoFutureEntries'
  BY <1>1, <1>2 DEF CacheInv, FieldsAreNamed, NoFutureEntries, reader, writer
<1>6. gen \in Generations
  BY DEF TypeOK
<1>7. Announced' <=> Announced
  BY <1>1 DEF Announced, writer
<1>8. FilesAreFresh'
  BY <1>1, <1>2, <1>6, <1>7 DEF CacheInv, FilesAreFresh, Fresh, Empty, reader
<1> QED  BY <1>3, <1>4, <1>5, <1>8 DEF CacheInv

\* The invariant is inductive.
LEMMA InvStep == TypeOK /\ CacheInv /\ [Next]_vars => TypeOK' /\ CacheInv'
<1> SUFFICES ASSUME TypeOK, CacheInv, [Next]_vars PROVE TypeOK' /\ CacheInv'
  OBVIOUS
<1>1. ASSUME NEW r \in Readers,
             (\E f \in Fields : Lookup(r, f)) \/ Read(r) \/ ReadFault(r)
      PROVE  TypeOK' /\ CacheInv'
  BY <1>1, ReaderType, ReaderInv
<1>2. ASSUME NEW w \in Writers, WriterStep(w)
      PROVE  TypeOK' /\ CacheInv'
  BY <1>2, WriterType, WriterInv
<1>3. ASSUME NEW g \in Generations, Expire(g) PROVE TypeOK' /\ CacheInv'
  BY <1>3, ExpireInv
<1>4. CASE UNCHANGED vars
  BY <1>4 DEF vars, reader, writer, TypeOK, CacheInv, WriterHoldsRow,
     FieldsAreNamed, NoFutureEntries, FilesAreFresh, Announced, Fresh
<1> QED  BY <1>1, <1>2, <1>3, <1>4 DEF Next, WriterStep

-----------------------------------------------------------------------------
(* Theorems.                                                               *)

\* The types and the inductive invariant hold of every reachable state.
THEOREM CacheCorrect == Spec => [](TypeOK /\ CacheInv)
BY InitInv, InvStep, PTL DEF Spec

\* The generations keep an invalidated answer out of the entry that is read
\* afterwards: for any number of requests, the entry is stale only through
\* one of the recorded causes.
THEOREM StaleEntriesAreRaces == Spec => []StaleOnlyByRace
<1>1. CacheInv => StaleOnlyByRace
  BY DEF CacheInv, FilesAreFresh, StaleOnlyByRace
<1> QED  BY <1>1, CacheCorrect, PTL
=============================================================================
