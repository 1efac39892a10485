----------------------- MODULE PersonaVersionsProofs -----------------------
(***************************************************************************)
(* Proofs about PersonaVersions, for any personas, requests, values and    *)
(* bounds.                                                                 *)
(*                                                                         *)
(* The properties speak of committed rows and of answers; what makes them  *)
(* inductive is what a request holds between its statements.  The heart of *)
(* it is that at most one version of a persona is uncommitted at a time,   *)
(* and that its number is the next one: the number was at most the next    *)
(* one when it was read, versions are only added, and the unique           *)
(* constraint refuses those there are.                                     *)
(***************************************************************************)
EXTENDS PersonaVersions, FiniteSetTheorems, TLAPS

\* Past its flush a request has refreshed the row.
Past == {"flushed", "numbered", "inserted"}

\* The number after the newest version.
NextOf(p) == Cardinality(versions[p]) + 1

\* The numbers of a persona's versions, and its newest version.
Numbered(p) ==
    /\ IsFiniteSet(versions[p])
    /\ Numbers(p) = 1..Cardinality(versions[p])

Newest(p) ==
    Stored(p) /\ p \notin drifted =>
        \E v \in versions[p] :
            v.number = Cardinality(versions[p]) /\ v.snapshot = content[p]

\* Who holds the row's lock, and what it is about to write.
Held(p) ==
    /\ Stored(p) => content[p] \in Profiles
    /\ holder[p] # Nobody =>
          /\ Stored(p)
          /\ Target[holder[p]] = p
          /\ pc[holder[p]] \in Past
          /\ snapshot[holder[p]] = Flushed(holder[p])

\* What a request has loaded and refreshed.
Copies(w) ==
    /\ pc[w] \in Busy => life[Target[w]] # "none" /\ wanted[w] \in Profiles
    /\ pc[w] \in Busy /\ w \notin stale /\ Stored(Target[w]) =>
          loaded[w] = content[Target[w]]
    /\ pc[w] \in Past => snapshot[w] \in Profiles
    /\ pc[w] \in Past /\ holder[Target[w]] # w => Dirty(w) = {} /\ Target[w] \in unlocked

\* What its version number is worth.
Counts(w) ==
    /\ pc[w] = "numbered" /\ Stored(Target[w]) =>
          /\ number[w] \in 1..NextOf(Target[w])
          /\ Target[w] \notin unlocked => number[w] = NextOf(Target[w])
    /\ pc[w] = "inserted" => Stored(Target[w]) /\ number[w] = NextOf(Target[w])
    /\ pc[w] = "conflict" => Target[w] \in unlocked

\* One uncommitted version of a persona at a time.
OneInserted ==
    \A w, x \in Writers :
        pc[w] = "inserted" /\ pc[x] = "inserted" /\ Target[w] = Target[x] => w = x

VersionInv ==
    /\ TypeOK
    /\ \A p \in Personas : Numbered(p) /\ Newest(p) /\ Held(p)
    /\ \A w \in Writers : Copies(w) /\ Counts(w)
    /\ OneInserted

-----------------------------------------------------------------------------
\* Initially there is nothing.
LEMMA InitVersionInv == Init => VersionInv
<1> SUFFICES ASSUME Init PROVE VersionInv
  OBVIOUS
<1>1. TypeOK
  BY VersionAssumption DEF Init, TypeOK, Kinds, Busy
<1>2. ASSUME NEW p \in Personas PROVE Numbered(p) /\ Newest(p) /\ Held(p)
  BY <1>2, FS_EmptySet DEF Init, Numbered, Numbers, Newest, Held, Stored
<1>3. ASSUME NEW w \in Writers PROVE Copies(w) /\ Counts(w)
  BY <1>3 DEF Init, Copies, Counts, Busy, Past
<1>4. OneInserted
  BY DEF Init, OneInserted
<1> QED
  BY <1>1, <1>2, <1>3, <1>4 DEF VersionInv

\* What a request would write depends on its memory and the row alone.
LEMMA SameMemory ==
    ASSUME NEW x, kind'[x] = kind[x], wanted'[x] = wanted[x], loaded'[x] = loaded[x]
    PROVE  /\ Dirty(x)' = Dirty(x)
           /\ Assigned(x)' = Assigned(x)
           /\ content'[Target[x]] = content[Target[x]] => Flushed(x)' = Flushed(x)
<1>1. Assigned(x)' = Assigned(x)
  BY DEF Assigned
<1>2. Dirty(x)' = Dirty(x)
  BY <1>1 DEF Dirty
<1>3. ASSUME content'[Target[x]] = content[Target[x]] PROVE Flushed(x)' = Flushed(x)
  BY <1>2, <1>3 DEF Flushed
<1> QED
  BY <1>1, <1>2, <1>3

\* A request that ends without a trace gives its lock back and changes
\* nothing else.
LEMMA FailKeeps ==
    ASSUME VersionInv, NEW w \in Writers, NEW answer \in {"error", "conflict"},
           Fail(w, answer), answer = "conflict" => Target[w] \in unlocked
    PROVE  VersionInv'
<1> USE DEF VersionInv
<1>1. TypeOK'
  BY VersionAssumption DEF Fail, Forget, TypeOK, Kinds
<1>2. ASSUME NEW p \in Personas PROVE Numbered(p)' /\ Newest(p)' /\ Held(p)'
  <2>1. Numbered(p)' /\ Newest(p)'
    BY DEF Fail, Numbered, Newest, Numbers, Stored
  <2>2. Held(p)'
    <3>1. ASSUME holder'[p] # Nobody PROVE Flushed(holder[p])' = Flushed(holder[p])
      BY <3>1, SameMemory, NobodyAssumption DEF Fail, Forget, TypeOK
    <3> QED
      BY <3>1, VersionAssumption, NobodyAssumption
      DEF Fail, Forget, Held, Stored, TypeOK, Past
  <2> QED BY <2>1, <2>2
<1>3. ASSUME NEW x \in Writers PROVE Copies(x)' /\ Counts(x)'
  <2> Copies(x) /\ Counts(x) /\ Target[x] \in Personas
    BY VersionAssumption
  <2>1. Copies(x)'
    <3>1. x # w => Dirty(x)' = Dirty(x)
      BY SameMemory DEF Fail, Forget, TypeOK
    <3> QED
      BY <3>1, VersionAssumption, NobodyAssumption
      DEF Fail, Forget, Copies, Stored, TypeOK, Past, Busy
  <2>2. Counts(x)'
    BY VersionAssumption DEF Fail, Forget, Counts, Stored, TypeOK, NextOf
  <2> QED BY <2>1, <2>2
<1>4. OneInserted'
  BY DEF OneInserted, Fail, TypeOK
<1> QED
  BY <1>1, <1>2, <1>3, <1>4

\* A request loads the row; the submitted profile is complete.
LEMMA LoadKeeps ==
    ASSUME VersionInv, NEW w \in Writers, NEW k \in Kinds, NEW c \in Profiles,
           Load(w, k, c)
    PROVE  VersionInv'
<1> USE DEF VersionInv
<1> Target[w] \in Personas /\ Stored(Target[w]) /\ content[Target[w]] \in Profiles
  BY VersionAssumption DEF Load, Held
<1>1. wanted'[w] \in Profiles
  BY DEF Load, TypeOK, Profiles, Columns
<1>2. TypeOK'
  BY <1>1, VersionAssumption DEF Load, TypeOK, Busy
<1>3. ASSUME NEW p \in Personas PROVE Numbered(p)' /\ Newest(p)' /\ Held(p)'
  <2>1. Numbered(p)' /\ Newest(p)'
    BY DEF Load, Numbered, Newest, Numbers, Stored
  <2>2. Held(p)'
    <3>1. ASSUME holder[p] # Nobody PROVE Flushed(holder[p])' = Flushed(holder[p])
      BY <3>1, SameMemory DEF Load, TypeOK, Held, Past
    <3> QED
      BY <3>1, NobodyAssumption DEF Load, Held, Stored, TypeOK, Past
  <2> QED BY <2>1, <2>2
<1>4. ASSUME NEW x \in Writers PROVE Copies(x)' /\ Counts(x)'
  <2> Copies(x) /\ Counts(x) /\ Target[x] \in Personas
    BY VersionAssumption
  <2>1. Copies(x)'
    <3>1. x # w => Dirty(x)' = Dirty(x)
      BY SameMemory DEF Load, TypeOK
    <3> QED
      BY <1>1, <3>1 DEF Load, Copies, Stored, TypeOK, Past, Busy
  <2>2. Counts(x)'
    BY DEF Load, Counts, Stored, TypeOK, NextOf
  <2> QED BY <2>1, <2>2
<1>5. OneInserted'
  BY DEF OneInserted, Load, TypeOK
<1> QED
  BY <1>2, <1>3, <1>4, <1>5

\* An UPDATE takes the row's lock; the refresh shows what will be committed.
LEMMA FlushKeeps ==
    ASSUME VersionInv, NEW w \in Writers, Flush(w)
    PROVE  VersionInv'
<1> USE DEF VersionInv
<1> DEFINE q == Target[w]
<1> q \in Personas
  BY VersionAssumption
<1>a. CASE ~Stored(q)
  BY <1>a, FailKeeps DEF Flush
<1>b. CASE Stored(q)
  <2> /\ pc[w] = "loaded" /\ holder[q] = Nobody
      /\ holder' = [holder EXCEPT ![q] = w]
      /\ snapshot' = [snapshot EXCEPT ![w] = Flushed(w)]
      /\ pc' = [pc EXCEPT ![w] = "flushed"]
      /\ UNCHANGED <<life, content, versions, kind, wanted, loaded, number,
                     stale, drifted, unlocked, tunes>>
    BY <1>b DEF Flush
  <2>0. Flushed(w) \in Profiles
    BY <1>b DEF Copies, Held, Busy, Flushed, Profiles
  <2>1. TypeOK'
    BY <2>0 DEF TypeOK, Busy
  <2> HIDE DEF q
  <2>s. ASSUME NEW x PROVE Flushed(x)' = Flushed(x) /\ Dirty(x)' = Dirty(x)
    BY SameMemory
  <2>2. ASSUME NEW p \in Personas PROVE Numbered(p)' /\ Newest(p)' /\ Held(p)'
    <3>1. Numbered(p)' /\ Newest(p)'
      BY DEF Numbered, Newest, Numbers, Stored
    <3>2. Held(p)'
      <4>1. CASE p = q
        BY <4>1, <1>b, <2>s, NobodyAssumption DEF Held, Stored, TypeOK, Past, q
      <4>2. CASE p # q
        BY <4>2, <2>s, NobodyAssumption DEF Held, Stored, TypeOK, Past, q
      <4> QED BY <4>1, <4>2
    <3> QED BY <3>1, <3>2
  <2>3. ASSUME NEW x \in Writers PROVE Copies(x)' /\ Counts(x)'
    <3> Copies(x) /\ Counts(x) /\ Target[x] \in Personas
      BY VersionAssumption
    <3>1. Copies(x)'
      BY <2>0, <2>s, NobodyAssumption DEF Copies, Stored, TypeOK, Past, Busy, q
    <3>2. Counts(x)'
      BY DEF Counts, Stored, TypeOK, NextOf
    <3> QED BY <3>1, <3>2
  <2>4. OneInserted'
    BY DEF OneInserted, TypeOK
  <2> QED
    BY <2>1, <2>2, <2>3, <2>4
<1> QED
  BY <1>a, <1>b

\* An update that changes nothing takes no lock, and says so.
LEMMA SkipFlushKeeps ==
    ASSUME VersionInv, NEW w \in Writers, SkipFlush(w)
    PROVE  VersionInv'
<1> USE DEF VersionInv
<1> DEFINE q == Target[w]
<1> q \in Personas
  BY VersionAssumption
<1>a. CASE ~Stored(q)
  BY <1>a, FailKeeps DEF SkipFlush
<1>b. CASE Stored(q)
  <2> /\ pc[w] = "loaded" /\ Dirty(w) = {}
      /\ snapshot' = [snapshot EXCEPT ![w] = content[q]]
      /\ pc' = [pc EXCEPT ![w] = "flushed"]
      /\ unlocked' = unlocked \cup {q}
      /\ UNCHANGED <<life, content, versions, holder, kind, wanted, loaded, number,
                     stale, drifted, tunes>>
    BY <1>b DEF SkipFlush
  <2>0. content[q] \in Profiles
    BY <1>b DEF Held
  <2>1. TypeOK'
    BY <2>0 DEF TypeOK, Busy
  <2> HIDE DEF q
  <2>s. ASSUME NEW x PROVE Flushed(x)' = Flushed(x) /\ Dirty(x)' = Dirty(x)
    BY SameMemory
  <2>2. ASSUME NEW p \in Personas PROVE Numbered(p)' /\ Newest(p)' /\ Held(p)'
    <3>1. Numbered(p)' /\ Newest(p)'
      BY DEF Numbered, Newest, Numbers, Stored
    <3>2. Held(p)'
      BY <2>s, NobodyAssumption DEF Held, Stored, TypeOK, Past
    <3> QED BY <3>1, <3>2
  <2>3. ASSUME NEW x \in Writers PROVE Copies(x)' /\ Counts(x)'
    <3> Copies(x) /\ Counts(x) /\ Target[x] \in Personas
      BY VersionAssumption
    <3>1. Copies(x)'
      BY <2>0, <2>s DEF Copies, Stored, TypeOK, Past, Busy, q
    <3>2. Counts(x)'
      BY DEF Counts, Stored, TypeOK, NextOf
    <3> QED BY <3>1, <3>2
  <2>4. OneInserted'
    BY DEF OneInserted, TypeOK
  <2> QED
    BY <2>1, <2>2, <2>3, <2>4
<1> QED
  BY <1>a, <1>b

\* The number read is the one after the newest version.
LEMMA NextNumberKeeps ==
    ASSUME VersionInv, NEW w \in Writers, NextNumber(w)
    PROVE  VersionInv'
<1> USE DEF VersionInv
<1> DEFINE q == Target[w]
           N == Cardinality(versions[q])
<1>q. q \in Personas
  BY VersionAssumption
<1>0. N \in Nat /\ Numbers(q) = 1..N /\ N < MaxVersion
  BY <1>q, FS_CardinalityType DEF Numbered, NextNumber
<1>n. number' = [number EXCEPT ![w] = N + 1]
  <2> DEFINE IsTop(n) == \A k \in Numbers(q) : k <= n
  <2>1. N \in Numbers(q) \cup {0} /\ IsTop(N)
    BY <1>0
  <2>2. ASSUME NEW n \in Numbers(q) \cup {0}, IsTop(n) PROVE n = N
    BY <2>2, <1>0
  <2>3. (CHOOSE n \in Numbers(q) \cup {0} : IsTop(n)) = N
    BY <2>1, <2>2
  <2>4. number' = [number EXCEPT
            ![w] = 1 + CHOOSE n \in Numbers(q) \cup {0} : IsTop(n)]
    BY DEF NextNumber
  <2>5. 1 + N = N + 1
    BY <1>0
  <2> QED
    BY ONLY <2>3, <2>4, <2>5
<1>p. /\ pc[w] = "flushed" /\ pc' = [pc EXCEPT ![w] = "numbered"]
      /\ UNCHANGED <<life, content, versions, holder, kind, wanted, loaded, snapshot,
                     stale, drifted, unlocked, tunes>>
  BY DEF NextNumber
<1> HIDE DEF q, N
<1>1. TypeOK'
  BY <1>0, <1>n, <1>p, VersionAssumption DEF TypeOK, Busy
<1>s. ASSUME NEW x PROVE Flushed(x)' = Flushed(x) /\ Dirty(x)' = Dirty(x)
  BY <1>p, SameMemory
<1>2. ASSUME NEW p \in Personas PROVE Numbered(p)' /\ Newest(p)' /\ Held(p)'
  <2>1. Numbered(p)' /\ Newest(p)'
    BY <1>p DEF Numbered, Newest, Numbers, Stored
  <2>2. Held(p)'
    BY <1>p, <1>s, NobodyAssumption DEF Held, Stored, TypeOK, Past
  <2> QED BY <2>1, <2>2
<1>3. ASSUME NEW x \in Writers PROVE Copies(x)' /\ Counts(x)'
  <2> Copies(x) /\ Counts(x)
    OBVIOUS
  <2>1. Copies(x)'
    BY <1>p, <1>s DEF Copies, Stored, TypeOK, Past, Busy
  <2>2. Counts(x)'
    BY <1>0, <1>n, <1>p DEF Counts, Stored, TypeOK, NextOf, q, N
  <2> QED BY <2>1, <2>2
<1>4. OneInserted'
  BY <1>p DEF OneInserted, TypeOK
<1> QED
  BY <1>1, <1>2, <1>3, <1>4

\* The unique constraint lets the next number pass and nothing else; it
\* refuses only beside an update that holds no lock.
LEMMA InsertVersionKeeps ==
    ASSUME VersionInv, NEW w \in Writers, InsertVersion(w)
    PROVE  VersionInv'
<1> USE DEF VersionInv
<1> DEFINE q == Target[w]
           N == Cardinality(versions[q])
<1>q. q \in Personas
  BY VersionAssumption
<1>0. N \in Nat /\ Numbers(q) = 1..N
  BY <1>q, FS_CardinalityType DEF Numbered
<1>c. Counts(w) /\ pc[w] = "numbered"
  BY DEF InsertVersion
<1>a. CASE ~Stored(q)
  BY <1>a, FailKeeps DEF InsertVersion
<1>b. CASE Stored(q) /\ number[w] \in Numbers(q)
  <2>1. q \in unlocked
    BY <1>b, <1>0, <1>c DEF Counts, NextOf
  <2> QED
    BY <1>b, <2>1, FailKeeps DEF InsertVersion
<1>d. CASE Stored(q) /\ number[w] \notin Numbers(q)
  <2>n. number[w] = N + 1
    BY <1>d, <1>0, <1>c DEF Counts, NextOf
  <2>p. /\ pc' = [pc EXCEPT ![w] = "inserted"]
        /\ UNCHANGED <<life, content, versions, holder, kind, wanted, loaded, snapshot,
                       number, stale, drifted, unlocked, tunes>>
    BY <1>d DEF InsertVersion
  <2>o. ASSUME NEW x \in Writers, pc[x] = "inserted" PROVE Target[x] # q
    BY <2>o, <2>n DEF InsertVersion, Counts, NextOf
  <2> HIDE DEF q, N
  <2>1. TypeOK'
    BY <2>p DEF TypeOK, Busy
  <2>s. ASSUME NEW x PROVE Flushed(x)' = Flushed(x) /\ Dirty(x)' = Dirty(x)
    BY <2>p, SameMemory
  <2>2. ASSUME NEW p \in Personas PROVE Numbered(p)' /\ Newest(p)' /\ Held(p)'
    <3>1. Numbered(p)' /\ Newest(p)'
      BY <2>p DEF Numbered, Newest, Numbers, Stored
    <3>2. Held(p)'
      BY <2>p, <2>s, NobodyAssumption DEF Held, Stored, TypeOK, Past
    <3> QED BY <3>1, <3>2
  <2>3. ASSUME NEW x \in Writers PROVE Copies(x)' /\ Counts(x)'
    <3> Copies(x) /\ Counts(x)
      OBVIOUS
    <3>1. Copies(x)'
      BY <1>c, <2>p, <2>s DEF Copies, Stored, TypeOK, Past, Busy
    <3>2. Counts(x)'
      BY <1>d, <2>n, <2>p DEF Counts, Stored, TypeOK, NextOf, q, N
    <3> QED BY <3>1, <3>2
  <2>4. OneInserted'
    BY <2>o, <2>p DEF OneInserted, TypeOK, q
  <2> QED
    BY <2>1, <2>2, <2>3, <2>4
<1> QED
  BY <1>a, <1>b, <1>d

\* Adding the next number keeps the numbers without gap.
LEMMA AddNext ==
    ASSUME VersionInv, NEW p \in Personas, NEW s \in Profiles,
           versions'[p] = versions[p] \cup {[number |-> NextOf(p), snapshot |-> s]}
    PROVE  Numbered(p)' /\ Cardinality(versions'[p]) = NextOf(p)
<1> DEFINE v == [number |-> NextOf(p), snapshot |-> s]
           N == Cardinality(versions[p])
<1>1. N \in Nat /\ IsFiniteSet(versions[p]) /\ Numbers(p) = 1..N
  BY FS_CardinalityType DEF VersionInv, Numbered
<1>2. v.number = N + 1
  BY DEF NextOf
<1>3. v \notin versions[p]
  BY <1>1, <1>2 DEF Numbers
<1>4. IsFiniteSet(versions'[p]) /\ Cardinality(versions'[p]) = N + 1
  BY <1>1, <1>3, FS_AddElement
<1>5. Numbers(p)' = Numbers(p) \cup {N + 1}
  BY <1>2 DEF Numbers
<1>6. Numbers(p)' = 1..N + 1
  BY <1>1, <1>5
<1> QED
  BY <1>4, <1>6 DEF Numbered, NextOf

\* The commit: the version, and with the lock the row.
LEMMA CommitKeeps ==
    ASSUME VersionInv, NEW w \in Writers, Commit(w)
    PROVE  VersionInv'
<1> USE DEF VersionInv
<1> DEFINE q == Target[w]
           writes == holder[q] = w
<1>q. q \in Personas
  BY VersionAssumption
<1>p. /\ pc[w] = "inserted" /\ pc' = [pc EXCEPT ![w] = "ok"]
      /\ versions' = [versions EXCEPT
             ![q] = @ \cup {[number |-> number[w], snapshot |-> snapshot[w]]}]
      /\ content' = [content EXCEPT ![q] = IF writes THEN snapshot[w] ELSE @]
      /\ holder' = [holder EXCEPT ![q] = IF writes THEN Nobody ELSE @]
      /\ stale' = (IF writes THEN stale \cup Overtaken(q) ELSE stale) \ {w}
      /\ drifted' = IF writes THEN drifted \ {q}
                    ELSE IF snapshot[w] # content[q] THEN drifted \cup {q}
                    ELSE drifted
      /\ Forget(w) /\ UNCHANGED <<life, unlocked, tunes>>
  BY DEF Commit
<1>0. /\ Stored(q) /\ number[w] = NextOf(q) /\ snapshot[w] \in Profiles
      /\ number[w] \in 1..MaxVersion
  <2>1. Copies(w) /\ Counts(w) /\ number[w] \in 0..MaxVersion
    BY DEF TypeOK
  <2>2. NextOf(q) \in Nat \ {0}
    BY <1>q, FS_CardinalityType DEF Numbered, NextOf
  <2> QED
    BY <1>p, <2>1, <2>2, VersionAssumption DEF Copies, Counts, Past
<1>n. Numbered(q)' /\ Cardinality(versions'[q]) = NextOf(q)
  BY <1>p, <1>q, <1>0, AddNext DEF TypeOK
<1> HIDE DEF q, writes
<1>1. TypeOK'
  <2>1. [number |-> number[w], snapshot |-> snapshot[w]] \in Version
    BY <1>0 DEF Version
  <2>2. versions' \in [Personas -> SUBSET Version]
    BY <1>p, <1>q, <2>1 DEF TypeOK
  <2>3. content' \in [Personas -> Profiles \cup {Nil}]
    BY <1>p, <1>q, <1>0 DEF TypeOK
  <2> QED
    BY <1>p, <1>q, <2>2, <2>3, VersionAssumption
    DEF TypeOK, Forget, Kinds, Overtaken
<1>s. ASSUME NEW x \in Writers, x # w
      PROVE  /\ Dirty(x)' = Dirty(x)
             /\ Target[x] # q \/ ~writes => Flushed(x)' = Flushed(x)
  <2>1. kind'[x] = kind[x] /\ wanted'[x] = wanted[x] /\ loaded'[x] = loaded[x]
    BY <1>p, <1>s DEF Forget, TypeOK
  <2>2. Target[x] # q \/ ~writes => content'[Target[x]] = content[Target[x]]
    BY <1>p, <1>q, VersionAssumption DEF TypeOK
  <2> QED
    BY <2>1, <2>2, SameMemory
<1>2. ASSUME NEW p \in Personas PROVE Numbered(p)' /\ Newest(p)' /\ Held(p)'
  <2>1. CASE p # q
    <3>1. Numbered(p)' /\ Newest(p)'
      BY <1>p, <2>1 DEF Numbered, Newest, Numbers, Stored, TypeOK
    <3>2. holder[p] # w
      BY <2>1, NobodyAssumption DEF Held, q
    <3>3. Held(p)'
      BY <1>p, <1>q, <1>s, <2>1, <3>2, NobodyAssumption
      DEF Held, Stored, TypeOK, Past, Forget
    <3> QED BY <3>1, <3>3
  <2>2. CASE p = q
    <3>1. Newest(p)'
      <4> DEFINE v == [number |-> number[w], snapshot |-> snapshot[w]]
      <4>1. v \in versions'[q] /\ v.number = Cardinality(versions'[q])
        BY <1>p, <1>q, <1>0, <1>n DEF TypeOK
      <4>2. CASE writes
        <5>1. content'[q] = v.snapshot
          BY <4>2, <1>p, <1>q DEF TypeOK
        <5> QED BY <2>2, <4>1, <5>1 DEF Newest
      <4>3. CASE ~writes
        <5>1. q \notin drifted' => content'[q] = v.snapshot
          BY <4>3, <1>p, <1>q DEF TypeOK
        <5> QED BY <2>2, <4>1, <5>1 DEF Newest
      <4> QED BY <4>2, <4>3
    <3>2. Held(p)'
      <4>1. CASE writes
        BY <4>1, <2>2, <1>p, <1>q, <1>0 DEF Held, TypeOK
      <4>2. CASE ~writes
        BY <4>2, <2>2, <1>p, <1>q, <1>s, NobodyAssumption
        DEF Held, Stored, TypeOK, Past, Forget, writes
      <4> QED BY <4>1, <4>2
    <3> QED BY <2>2, <1>n, <3>1, <3>2
  <2> QED BY <2>1, <2>2
<1>3. ASSUME NEW x \in Writers PROVE Copies(x)' /\ Counts(x)'
  <2>1. CASE x = w
    BY <2>1, <1>p DEF Copies, Counts, TypeOK, Busy, Past
  <2>2. CASE x # w
    <3>0. /\ Copies(x) /\ Counts(x) /\ Target[x] \in Personas
          /\ pc'[x] = pc[x] /\ number'[x] = number[x] /\ snapshot'[x] = snapshot[x]
          /\ wanted'[x] = wanted[x] /\ loaded'[x] = loaded[x] /\ Dirty(x)' = Dirty(x)
      BY <2>2, <1>p, <1>s, VersionAssumption DEF TypeOK, Forget
    <3>1. Copies(x)'
      <4>1. CASE Target[x] # q
        BY <4>1, <2>2, <3>0, <1>p, <1>q DEF Copies, Stored, TypeOK, Overtaken
      <4>2. CASE Target[x] = q /\ ~writes
        BY <4>2, <2>2, <3>0, <1>p, <1>q DEF Copies, Stored, TypeOK
      <4>3. CASE Target[x] = q /\ writes
        <5>1. pc[x] \in Busy => x \in stale'
          BY <4>3, <2>2, <1>p DEF Overtaken, writes, q
        <5>2. holder[q] # x
          BY <4>3, <2>2 DEF writes
        <5> QED
          BY <4>3, <5>1, <5>2, <2>2, <3>0, <1>p, <1>q DEF Copies, Stored, TypeOK
      <4> QED BY <4>1, <4>2, <4>3
    <3>2. Counts(x)'
      <4>1. CASE Target[x] # q
        BY <4>1, <3>0, <1>p, <1>q DEF Counts, Stored, TypeOK, NextOf
      <4>2. CASE Target[x] = q
        <5>1. pc[x] # "inserted"
          BY <4>2, <2>2, <1>p DEF OneInserted, q
        <5>2. pc[x] = "numbered" => q \in unlocked
          <6>1. Copies(w)
            OBVIOUS
          <6> QED
            BY <4>2, <2>2, <3>0, <6>1, <1>p DEF Copies, Past, q
        <5>3. NextOf(q)' = NextOf(q) + 1 /\ NextOf(q) \in Nat
          BY <1>n, <1>q, FS_CardinalityType DEF NextOf, Numbered
        <5> QED
          BY <4>2, <5>1, <5>2, <5>3, <3>0, <1>p DEF Counts, Stored
      <4> QED BY <4>1, <4>2
    <3> QED BY <3>1, <3>2
  <2> QED BY <2>1, <2>2
<1>4. OneInserted'
  BY <1>p DEF OneInserted, TypeOK
<1> QED
  BY <1>1, <1>2, <1>3, <1>4

\* Tuning writes the row alone; whoever has loaded it is out of date.
LEMMA RetuneKeeps ==
    ASSUME VersionInv, NEW q \in Personas, NEW c \in Profiles, Retune(q, c)
    PROVE  VersionInv'
<1> USE DEF VersionInv
<1>p. /\ Stored(q) /\ holder[q] = Nobody
      /\ content' = [content EXCEPT ![q] = c]
      /\ stale' = stale \cup Overtaken(q)
      /\ drifted' = drifted \cup {q}
      /\ UNCHANGED <<life, versions, holder, pc, kind, wanted, loaded, snapshot,
                     number, unlocked>>
  BY DEF Retune, request
<1>1. TypeOK'
  <2>1. tunes' \in 0..MaxTunes
    BY VersionAssumption DEF Retune, TypeOK
  <2> QED
    BY <1>p, <2>1 DEF TypeOK, Overtaken
<1>s. ASSUME NEW x PROVE /\ Dirty(x)' = Dirty(x)
                         /\ Target[x] \in Personas \ {q} => Flushed(x)' = Flushed(x)
  BY <1>p, SameMemory DEF TypeOK
<1>2. ASSUME NEW p \in Personas PROVE Numbered(p)' /\ Newest(p)' /\ Held(p)'
  <2>1. Numbered(p)' /\ Newest(p)'
    BY <1>p DEF Numbered, Newest, Numbers, Stored, TypeOK
  <2>2. CASE p = q
    BY <2>1, <2>2, <1>p DEF Held, Stored, TypeOK
  <2>3. CASE p # q
    BY <2>1, <2>3, <1>p, <1>s DEF Held, Stored, TypeOK
  <2> QED BY <2>2, <2>3
<1>3. ASSUME NEW x \in Writers PROVE Copies(x)' /\ Counts(x)'
  <2> Copies(x) /\ Counts(x) /\ Target[x] \in Personas
    BY VersionAssumption
  <2>1. Copies(x)'
    <3>1. CASE Target[x] # q
      BY <3>1, <1>p, <1>s DEF Copies, Stored, TypeOK
    <3>2. CASE Target[x] = q
      <4>1. pc[x] \in Busy => x \in stale'
        BY <3>2, <1>p, NobodyAssumption DEF Overtaken
      <4> QED
        BY <3>2, <4>1, <1>p, <1>s DEF Copies, Stored
    <3> QED BY <3>1, <3>2
  <2>2. Counts(x)'
    BY <1>p DEF Counts, Stored, NextOf
  <2> QED BY <2>1, <2>2
<1>4. OneInserted'
  BY <1>p DEF OneInserted
<1> QED
  BY <1>1, <1>2, <1>3, <1>4

\* Deleting waits for the lock and for uncommitted versions; who has loaded
\* the row, or read a number, will find it gone.
LEMMA DeleteKeeps ==
    ASSUME VersionInv, NEW q \in Personas, DeletePersona(q)
    PROVE  VersionInv'
<1> USE DEF VersionInv
<1>p. /\ holder[q] = Nobody
      /\ \A x \in Writers : ~(pc[x] = "inserted" /\ Target[x] = q)
      /\ life' = [life EXCEPT ![q] = "deleted"]
      /\ versions' = [versions EXCEPT ![q] = {}]
      /\ content' = [content EXCEPT ![q] = Nil]
      /\ drifted' = drifted \ {q}
      /\ UNCHANGED <<holder, pc, kind, wanted, loaded, snapshot, number,
                     stale, unlocked, tunes>>
  BY DEF DeletePersona, request
<1>1. TypeOK'
  BY <1>p DEF TypeOK
<1>s. ASSUME NEW x PROVE /\ Dirty(x)' = Dirty(x)
                         /\ Target[x] \in Personas \ {q} => Flushed(x)' = Flushed(x)
  BY <1>p, SameMemory DEF TypeOK
<1>2. ASSUME NEW p \in Personas PROVE Numbered(p)' /\ Newest(p)' /\ Held(p)'
  <2>1. CASE p = q
    <3>1. versions'[q] = {} /\ ~Stored(q)'
      BY <1>p DEF TypeOK, Stored
    <3>2. Numbered(q)'
      BY <3>1, FS_EmptySet DEF Numbered, Numbers
    <3> QED
      BY <2>1, <3>1, <3>2, <1>p DEF Newest, Held
  <2>2. CASE p # q
    BY <2>2, <1>p, <1>s DEF Numbered, Numbers, Newest, Held, Stored, TypeOK
  <2> QED BY <2>1, <2>2
<1>3. ASSUME NEW x \in Writers PROVE Copies(x)' /\ Counts(x)'
  <2> Copies(x) /\ Counts(x) /\ Target[x] \in Personas
    BY VersionAssumption
  <2>1. Copies(x)'
    BY <1>p, <1>s DEF Copies, Stored, TypeOK
  <2>2. Counts(x)'
    BY <1>p DEF Counts, Stored, NextOf, TypeOK
  <2> QED BY <2>1, <2>2
<1>4. OneInserted'
  BY <1>p DEF OneInserted
<1> QED
  BY <1>1, <1>2, <1>3, <1>4

\* A new row has version 1 with it, or none and is marked for it.
LEMMA InsertKeeps ==
    ASSUME VersionInv, NEW q \in Personas, NEW c \in Profiles,
           NEW first \in {{}, RecordFirst(c)}, Insert(q, c, first)
    PROVE  VersionInv'
<1> USE DEF VersionInv
<1>p. /\ life[q] = "none"
      /\ life' = [life EXCEPT ![q] = "stored"]
      /\ content' = [content EXCEPT ![q] = c]
      /\ versions' = [versions EXCEPT ![q] = first]
      /\ drifted' = IF first = {} THEN drifted \cup {q} ELSE drifted
      /\ UNCHANGED <<holder, pc, kind, wanted, loaded, snapshot, number,
                     stale, unlocked, tunes>>
  BY DEF Insert, request
<1>0. holder[q] = Nobody /\ \A x \in Writers : Target[x] = q => pc[x] \notin Busy
  BY <1>p DEF Held, Copies, Stored
<1>f. [number |-> 1, snapshot |-> c] \in Version
  BY VersionAssumption DEF Version
<1>1. TypeOK'
  <2>1. first \subseteq Version
    BY <1>f DEF RecordFirst
  <2> QED
    BY <1>p, <2>1 DEF TypeOK
<1>s. ASSUME NEW x PROVE /\ Dirty(x)' = Dirty(x)
                         /\ Target[x] \in Personas \ {q} => Flushed(x)' = Flushed(x)
  BY <1>p, SameMemory DEF TypeOK
<1>2. ASSUME NEW p \in Personas PROVE Numbered(p)' /\ Newest(p)' /\ Held(p)'
  <2>1. CASE p = q
    <3>0. versions'[q] = first /\ content'[q] = c
      BY <1>p DEF TypeOK
    <3>1. Held(q)'
      BY <3>0, <1>p, <1>0 DEF Held
    <3>2. CASE first = {}
      <4>1. Numbered(q)'
        BY <3>0, <3>2, FS_EmptySet DEF Numbered, Numbers
      <4> QED
        BY <2>1, <3>1, <3>2, <4>1, <1>p DEF Newest
    <3>3. CASE first = RecordFirst(c)
      <4> DEFINE v == [number |-> 1, snapshot |-> c]
      <4>0. versions'[q] = {v} /\ v.number = 1 /\ v.snapshot = c
        BY <3>0, <3>3 DEF RecordFirst
      <4>1. IsFiniteSet(versions'[q]) /\ Cardinality(versions'[q]) = 1
        BY <4>0, FS_Singleton
      <4>2. Numbers(q)' = {1}
        BY <4>0 DEF Numbers
      <4>3. Newest(q)'
        BY <3>0, <4>0, <4>1 DEF Newest
      <4>4. 1..1 = {1}
        OBVIOUS
      <4> QED
        BY <2>1, <3>1, <4>1, <4>2, <4>3, <4>4 DEF Numbered
    <3> QED BY <3>2, <3>3
  <2>2. CASE p # q
    BY <2>2, <1>p, <1>s DEF Numbered, Numbers, Newest, Held, Stored, TypeOK
  <2> QED BY <2>1, <2>2
<1>3. ASSUME NEW x \in Writers PROVE Copies(x)' /\ Counts(x)'
  <2> Copies(x) /\ Counts(x) /\ Target[x] \in Personas
    BY VersionAssumption
  <2>1. CASE Target[x] = q
    BY <2>1, <1>0, <1>p DEF Copies, Counts, Past, Busy
  <2>2. CASE Target[x] # q
    BY <2>2, <1>p, <1>s DEF Copies, Counts, Stored, NextOf, TypeOK
  <2> QED BY <2>1, <2>2
<1>4. OneInserted'
  BY <1>p DEF OneInserted
<1> QED
  BY <1>1, <1>2, <1>3, <1>4

-----------------------------------------------------------------------------
\* Every step keeps the invariant.
LEMMA NextKeeps == VersionInv /\ [Next]_vars => VersionInv'
<1> SUFFICES ASSUME VersionInv, [Next]_vars PROVE VersionInv'
  OBVIOUS
<1>1. ASSUME NEW p \in Personas, New(p) PROVE VersionInv'
  <2>1. \E c \in Profiles : \E first \in {{}, RecordFirst(c)} : Insert(p, c, first)
    <3>1. CASE \E c \in Profiles : CreatePersona(p, c) \/ ImportFromCyrex(p, c)
                                      \/ ClonePersona(p, c) \/ SeedPersona(p, c)
      BY <3>1 DEF CreatePersona, ImportFromCyrex, ClonePersona, SeedPersona
    <3>2. CASE \E v \in Values : AnalysePersona(p, v)
      BY <3>2 DEF AnalysePersona
    <3>3. CASE \E c, d \in Profiles : BlendPersonas(p, c, d)
      BY <3>3 DEF BlendPersonas
    <3> QED BY <1>1, <3>1, <3>2, <3>3 DEF New
  <2> QED BY <2>1, InsertKeeps
<1>2. ASSUME NEW p \in Personas, DeletePersona(p) PROVE VersionInv'
  BY <1>2, DeleteKeeps
<1>3. ASSUME NEW p \in Personas, NEW c \in Profiles, Retune(p, c) PROVE VersionInv'
  BY <1>3, RetuneKeeps
<1>4. ASSUME NEW w \in Writers, NEW k \in Kinds, NEW c \in Profiles, Load(w, k, c)
      PROVE VersionInv'
  BY <1>4, LoadKeeps
<1>5. ASSUME NEW w \in Writers, Step(w) PROVE VersionInv'
  BY <1>5, FlushKeeps, SkipFlushKeeps, NextNumberKeeps, InsertVersionKeeps, CommitKeeps
  DEF Step
<1>6. ASSUME NEW w \in Writers, Abandon(w) PROVE VersionInv'
  BY <1>6, FailKeeps DEF Abandon
<1>7. CASE UNCHANGED vars
  <2> UNCHANGED <<life, content, tunes, versions, holder, pc, kind, wanted, loaded,
                  snapshot, number, stale, drifted, unlocked>>
    BY <1>7 DEF vars, request
  <2>s. ASSUME NEW x PROVE Flushed(x)' = Flushed(x) /\ Dirty(x)' = Dirty(x)
    BY SameMemory
  <2>1. TypeOK'
    BY DEF VersionInv, TypeOK
  <2>2. ASSUME NEW p \in Personas PROVE Numbered(p)' /\ Newest(p)' /\ Held(p)'
    BY <2>s DEF VersionInv, Numbered, Numbers, Newest, Held, Stored
  <2>3. ASSUME NEW x \in Writers PROVE Copies(x)' /\ Counts(x)'
    BY <2>s DEF VersionInv, Copies, Counts, Stored, NextOf
  <2>4. OneInserted'
    BY DEF VersionInv, OneInserted
  <2> QED BY <2>1, <2>2, <2>3, <2>4 DEF VersionInv
<1> QED
  BY <1>1, <1>2, <1>3, <1>4, <1>5, <1>6, <1>7 DEF Next

\* Type correctness and what requests hold between their statements, for any
\* personas, requests, values and bounds.
THEOREM VersionsCorrect == Spec => []VersionInv
<1>1. Init => VersionInv
  BY InitVersionInv
<1>2. VersionInv /\ [Next]_vars => VersionInv'
  BY NextKeeps
<1> QED
  BY <1>1, <1>2, PTL DEF Spec

\* The versions of a persona are numbered without gap, and the newest one
\* shows the row unless it was written without a version.
THEOREM VersionsAreHistory == Spec => []VersionHistory
<1>1. VersionInv => VersionHistory
  BY DEF VersionInv, VersionHistory, Numbered, Newest
<1> QED
  BY <1>1, VersionsCorrect, PTL

\* A version number is refused only on a persona for which some update took
\* no row lock.
THEOREM ConflictsNeedNoLock == Spec => []ConflictOnlyBesideUnlocked
<1>1. VersionInv => ConflictOnlyBesideUnlocked
  BY DEF VersionInv, ConflictOnlyBesideUnlocked, Counts
<1> QED
  BY <1>1, VersionsCorrect, PTL

\* What one accepted update may do to the row.
Applied(w) ==
    \A c \in Columns :
        content'[Target[w]][c] =
            IF c \in Assigned(w) /\ (c \in Dirty(w) \/ w \notin stale)
            THEN wanted[w][c] ELSE content[Target[w]][c]

\* With the lock the row becomes what the flush computed, which is still what
\* it would compute; without it there was nothing to write.
LEMMA CommitApplies ==
    ASSUME VersionInv, NEW w \in Writers, Commit(w)
    PROVE  Applied(w)
<1> DEFINE q == Target[w]
<1>0. /\ pc[w] = "inserted" /\ q \in Personas /\ Stored(q)
      /\ Copies(w) /\ Held(q) /\ w # Nobody
      /\ content'[q] = IF holder[q] = w THEN snapshot[w] ELSE content[q]
  BY VersionAssumption, NobodyAssumption DEF VersionInv, Commit, Counts, TypeOK
<1>1. w \notin stale => loaded[w] = content[q]
  BY <1>0 DEF Copies, Busy
<1>2. SUFFICES ASSUME NEW c \in Columns
               PROVE  content'[q][c] =
                        IF c \in Assigned(w) /\ (c \in Dirty(w) \/ w \notin stale)
                        THEN wanted[w][c] ELSE content[q][c]
  BY DEF Applied
<1>3. c \in Assigned(w) /\ c \notin Dirty(w) => wanted[w][c] = loaded[w][c]
  BY DEF Dirty
<1>4. CASE holder[q] = w
  <2>1. content'[q][c] = IF c \in Dirty(w) THEN wanted[w][c] ELSE content[q][c]
    BY <1>0, <1>4 DEF Held, Flushed
  <2>2. c \in Dirty(w) => c \in Assigned(w)
    BY DEF Dirty
  <2> QED BY <1>1, <1>3, <2>1, <2>2
<1>5. CASE holder[q] # w
  <2>1. c \notin Dirty(w) /\ content'[q] = content[q]
    BY <1>0, <1>5 DEF Copies, Past
  <2> QED BY <1>1, <1>3, <2>1
<1> QED BY <1>4, <1>5

\* Only a commit answers a request "ok".
LEMMA OnlyCommitAnswers ==
    ASSUME VersionInv, [Next]_vars, NEW w \in Writers, pc[w] = "inserted", pc'[w] = "ok"
    PROVE  Commit(w)
<1> pc \in [Writers -> Busy \cup {"idle", "ok", "conflict", "error"}]
  BY DEF VersionInv, TypeOK
<1>1. ASSUME NEW p \in Personas, New(p) PROVE FALSE
  BY <1>1 DEF New, CreatePersona, ImportFromCyrex, ClonePersona, SeedPersona,
              AnalysePersona, BlendPersonas, Insert, request
<1>2. ASSUME NEW p \in Personas, DeletePersona(p) PROVE FALSE
  BY <1>2 DEF DeletePersona, request
<1>3. ASSUME NEW p \in Personas, NEW c \in Profiles, Retune(p, c) PROVE FALSE
  BY <1>3 DEF Retune, request
<1>4. ASSUME NEW x \in Writers, NEW k \in Kinds, NEW c \in Profiles, Load(x, k, c)
      PROVE FALSE
  BY <1>4 DEF Load
<1>5. ASSUME NEW x \in Writers, Step(x) PROVE Commit(w)
  <2>1. CASE Commit(x)
    BY <2>1 DEF Commit
  <2>2. CASE Flush(x) \/ SkipFlush(x) \/ NextNumber(x) \/ InsertVersion(x)
    BY <2>2 DEF Flush, SkipFlush, NextNumber, InsertVersion, Fail
  <2> QED BY <1>5, <2>1, <2>2 DEF Step
<1>6. ASSUME NEW x \in Writers, Abandon(x) PROVE FALSE
  BY <1>6 DEF Abandon, Fail
<1>7. ~UNCHANGED vars
  BY DEF vars, request
<1> QED
  BY <1>1, <1>2, <1>3, <1>4, <1>5, <1>6, <1>7 DEF Next

\* An accepted update changes the columns it wanted to change and no other,
\* whatever overlapping requests have committed in the meantime.
THEOREM AcceptedUpdatesApply == Spec => AcceptedIsApplied
<1>1. VersionInv /\ [Next]_vars =>
        [\A w \in Writers : pc[w] = "inserted" /\ pc'[w] = "ok" =>
            \A c \in Columns :
                content'[Target[w]][c] =
                    IF c \in Assigned(w) /\ (c \in Dirty(w) \/ w \notin stale)
                    THEN wanted[w][c] ELSE content[Target[w]][c]]_vars
  BY CommitApplies, OnlyCommitAnswers DEF Applied
<1> QED
  BY <1>1, VersionsCorrect, PTL DEF Spec, AcceptedIsApplied
=============================================================================
