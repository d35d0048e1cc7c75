-------------------------- MODULE StmtCacheProofs ---------------------------
(***************************************************************************)
(* The statement cache for every number of tasks, texts and entries: its   *)
(* entries hold distinct statements that are not finalized.  And when one  *)
(* task has it for itself: what the task holds is what it asked for, so    *)
(* that the cache implements exclusive leases in spite of current_size.    *)
(***************************************************************************)
EXTENDS StmtCache, FiniteSetTheorems, TLAPS

\* The inductive invariant of the cache, whatever its callers do.
CacheInv == TypeOK /\ EntriesAreLive

\* The other tasks have nothing of a cache that is owned.
OwnerAlone == \A t \in Tasks : t # owner => hit[t] = 0 /\ held[t] = {}

IsLent(s) == \E t \in Tasks : s \in Lent[t]

\* An entry that a task will read again is its own.
HitsAreSound ==
    \A t \in Tasks : hit[t] # 0 =>
        LET e == entries[hit[t]]
        IN  /\ hit[t] \in 1..size
            /\ e.stmt # NULL
            /\ e.in_use
            /\ asked[t] \in Sqls /\ text[e.stmt] = asked[t]
            /\ \A h \in held[t] : h.stmt # e.stmt

\* The statements in use, as far as they can be found, are the lent ones; idle
\* statements are clean.
UseMatchesLoans ==
    \A i \in Slots :
        /\ entries[i].in_use /\ i <= size => IsLent(entries[i].stmt)
        /\ entries[i].stmt \in Stmts /\ ~entries[i].in_use =>
             ~IsLent(entries[i].stmt) /\ entries[i].stmt \notin dirty

\* Only the last entry can be in the cache and out of reach.
LastMayHide ==
    \A i \in Slots : size < i /\ i < MaxEntries => entries[i].stmt = NULL

\* The inductive invariant of a cache with an owner, beside CacheInv.
LoanInv ==
    /\ OwnerAlone
    /\ HeldIsRight
    /\ phase = "ready" => HitsAreSound /\ UseMatchesLoans /\ LastMayHide
    /\ phase = "destroyed" => \A t \in Tasks : hit[t] = 0

-----------------------------------------------------------------------------
(* Small facts *)

\* The larger of two numbers.
LEMMA MaxOfTwo ==
    ASSUME NEW a \in Int, NEW b \in Int
    PROVE  Max({a, b}) = IF a >= b THEN a ELSE b
<1> DEFINE m == IF a >= b THEN a ELSE b
<1>1. m \in {a, b} /\ \A y \in {a, b} : m >= y
  OBVIOUS
<1>2. \A x \in {a, b} : (\A y \in {a, b} : x >= y) => x = m
  OBVIOUS
<1> QED
  BY <1>1, <1>2, Zenon DEF Max

\* The searched entries are in the array.
LEMMA SearchedAreSlots == TypeOK => 1..size \subseteq Slots
BY CacheAssumption DEF TypeOK, Slots

-----------------------------------------------------------------------------
(* The entries *)

\* An empty cache.
LEMMA InitCache == Init => CacheInv
<1> SUFFICES ASSUME Init PROVE CacheInv
  OBVIOUS
<1>1. Blank \in Entries
  BY CacheAssumption DEF Blank, Entries
<1>2. TypeOK
  BY <1>1, CacheAssumption DEF Init, TypeOK
<1>3. EntriesAreLive
  BY DEF Init, EntriesAreLive, Cached, EmptySlots, Blank
<1> QED
  BY <1>2, <1>3 DEF CacheInv

\* An entry marked in use or not, and at another time.
LEMMA MarkedEntry ==
    ASSUME NEW e \in Entries, NEW b \in BOOLEAN, NEW n \in 0..MaxTick
    PROVE  /\ [e EXCEPT !.in_use = b] \in Entries
           /\ [e EXCEPT !.in_use = b, !.last = n] \in Entries
           /\ [e EXCEPT !.in_use = b].stmt = e.stmt
           /\ [e EXCEPT !.in_use = b, !.last = n].stmt = e.stmt
           /\ [e EXCEPT !.in_use = b].in_use = b
           /\ [e EXCEPT !.in_use = b, !.last = n].in_use = b
BY DEF Entries

\* A hit marks an entry and leaves its statement there.
LEMMA GetHitCache ==
    ASSUME CacheInv, NEW t \in Tasks, NEW q \in Sqls, GetHit(t, q)
    PROVE  CacheInv'
<1> USE DEF CacheInv
<1>1. PICK i \in Hits(q) :
        /\ entries' = [entries EXCEPT ![i] =
                         [@ EXCEPT !.in_use = TRUE, !.last = now]]
        /\ dirty' = dirty \ {entries[i].stmt}
        /\ hit' = [hit EXCEPT ![t] = i]
  BY DEF GetHit, Reset
<1>2. i \in Slots /\ i \in 0..MaxEntries
  BY SearchedAreSlots DEF Hits, IdleIn, Slots
<1>3. entries[i] \in Entries /\ now \in 0..MaxTick
  BY <1>2 DEF TypeOK
<1> DEFINE e == [entries[i] EXCEPT !.in_use = TRUE, !.last = now]
<1>4. e \in Entries /\ e.stmt = entries[i].stmt
  BY <1>3, MarkedEntry
<1>5. entries' = [entries EXCEPT ![i] = e]
  BY <1>1
<1> HIDE DEF e
<1>6. entries' \in [Slots -> Entries]
  BY <1>4, <1>5 DEF TypeOK
<1>7. TypeOK'
  BY <1>1, <1>2, <1>6 DEF GetHit, TypeOK
<1>8. \A j \in Slots : entries'[j].stmt = entries[j].stmt
  BY <1>2, <1>4, <1>5 DEF TypeOK
<1>9. EntriesAreLive'
  BY <1>8 DEF GetHit, EntriesAreLive, Cached, EmptySlots
<1> QED
  BY <1>7, <1>9

\* Reading the entry again changes none.
LEMMA GetReturnCache ==
    ASSUME CacheInv, NEW t \in Tasks, GetReturn(t)
    PROVE  CacheInv'
<1> USE DEF CacheInv
<1>1. TypeOK'
  <2> DEFINE got == {[stmt |-> entries[hit[t]].stmt, sql |-> asked[t]]}
                      \cap [stmt : Stmts, sql : Sqls]
  <2>1. held' = [held EXCEPT ![t] = @ \cup got]
    BY DEF GetReturn
  <2>2. got \in SUBSET [stmt : Stmts, sql : Sqls]
    OBVIOUS
  <2> HIDE DEF got
  <2>3. held' \in [Tasks -> SUBSET [stmt : Stmts, sql : Sqls]]
    BY <2>1, <2>2 DEF TypeOK
  <2> QED
    BY <2>3, CacheAssumption DEF GetReturn, TypeOK
<1>2. EntriesAreLive'
  BY DEF GetReturn, EntriesAreLive, Cached, EmptySlots
<1> QED
  BY <1>1, <1>2

\* A statement placed in an entry is a new one; the one it takes the place of
\* was in no other.
LEMMA PlaceCache ==
    ASSUME CacheInv, phase = "ready", phase' = "ready",
           NEW t \in Tasks, NEW i \in Slots, NEW q \in Sqls,
           NEW s \in Stmts \ live, NEW gone,
           gone \subseteq {entries[i].stmt},
           Place(t, i, s, q, gone),
           size' \in 0..MaxEntries,
           UNCHANGED <<owner, now, hit, asked>>
    PROVE  CacheInv'
<1> USE DEF CacheInv
<1>1. now \in 0..MaxTick
  BY DEF TypeOK
<1>2. entries' \in [Slots -> Entries]
  BY <1>1 DEF Place, TypeOK, Entries
<1>3. /\ text' \in [Stmts -> Sqls \cup {NULL}]
      /\ live' \subseteq Stmts /\ dirty' \subseteq live'
      /\ held' \in [Tasks -> SUBSET [stmt : Stmts, sql : Sqls]]
  BY DEF Place, TypeOK
<1>4. TypeOK'
  BY <1>2, <1>3 DEF TypeOK
<1>5. \A j \in Slots :
        entries'[j].stmt = IF j = i THEN s ELSE entries[j].stmt
  BY DEF Place, TypeOK
<1>6. s # NULL /\ \A j \in Slots : entries[j].stmt # s
  BY SetsAssumption DEF EntriesAreLive, Cached
<1>7. \A j \in Slots : j # i /\ entries[j].stmt # NULL =>
        entries[j].stmt \in live \ gone
  BY DEF EntriesAreLive, Cached, EmptySlots
<1>8. EntriesAreLive'
  <2>1. Cached' \subseteq live'
    BY <1>5, <1>7 DEF Cached, Place
  <2>2. \A j, k \in Slots : 
          entries'[j].stmt # NULL /\ entries'[j].stmt = entries'[k].stmt => j = k
    BY <1>5, <1>6 DEF EntriesAreLive, EmptySlots
  <2> QED
    BY <2>1, <2>2 DEF EntriesAreLive, EmptySlots
<1> QED
  BY <1>4, <1>8

\* The three ways of a miss, with the size each leaves.
LEMMA MissCases ==
    ASSUME CacheInv, NEW t \in Tasks, NEW q \in Sqls, GetMiss(t, q)
    PROVE  \E s \in Stmts \ live, i \in Slots :
             \/ /\ IsFirst(i, EmptySlots)
                /\ Place(t, i, s, q, {})
                /\ size' = IF size >= i THEN size ELSE i
             \/ /\ EmptySlots = {} /\ size = MaxEntries
                /\ IsVictim(i)
                /\ Place(t, i, s, q, {entries[i].stmt})
                /\ size' = IF size - 1 >= i THEN size - 1 ELSE i
             \/ /\ EmptySlots = {} /\ size < MaxEntries
                /\ i = size + 1
                /\ Place(t, i, s, q, {})
                /\ size' = i
<1> USE DEF CacheInv
<1>1. PICK s \in Stmts \ live :
         \/ \E i \in EmptySlots :
              /\ IsFirst(i, EmptySlots)
              /\ Place(t, i, s, q, {})
              /\ size' = Max({size, i})
         \/ \E i \in Slots :
              /\ EmptySlots = {} /\ size >= MaxEntries
              /\ IsVictim(i)
              /\ Place(t, i, s, q, {entries[i].stmt})
              /\ size' = SizeAfterEviction(i)
         \/ /\ EmptySlots = {} /\ size < MaxEntries
            /\ Place(t, size + 1, s, q, {})
            /\ size' = size + 1
  BY DEF GetMiss
<1>2. size \in 0..MaxEntries /\ MaxEntries \in Nat \ {0}
  BY CacheAssumption DEF TypeOK
<1>3. CASE \E i \in EmptySlots :
              /\ IsFirst(i, EmptySlots)
              /\ Place(t, i, s, q, {})
              /\ size' = Max({size, i})
  <2>1. PICK i \in EmptySlots :
              /\ IsFirst(i, EmptySlots)
              /\ Place(t, i, s, q, {})
              /\ size' = Max({size, i})
    BY <1>3
  <2>2. i \in Slots /\ i \in Int
    BY DEF EmptySlots, Slots
  <2>3. size' = IF size >= i THEN size ELSE i
    BY <1>2, <2>1, <2>2, MaxOfTwo
  <2> QED
    BY <2>1, <2>2, <2>3
<1>4. CASE \E i \in Slots :
              /\ EmptySlots = {} /\ size >= MaxEntries
              /\ IsVictim(i)
              /\ Place(t, i, s, q, {entries[i].stmt})
              /\ size' = SizeAfterEviction(i)
  <2>1. PICK i \in Slots :
              /\ EmptySlots = {} /\ size >= MaxEntries
              /\ IsVictim(i)
              /\ Place(t, i, s, q, {entries[i].stmt})
              /\ size' = SizeAfterEviction(i)
    BY <1>4
  <2>2. i \in Int /\ size - 1 \in Int /\ size = MaxEntries
    BY <1>2, <2>1 DEF Slots
  <2>3. size' = IF size - 1 >= i THEN size - 1 ELSE i
    BY <2>1, <2>2, MaxOfTwo DEF SizeAfterEviction
  <2> QED
    BY <2>1, <2>2, <2>3
<1>5. CASE /\ EmptySlots = {} /\ size < MaxEntries
           /\ Place(t, size + 1, s, q, {})
           /\ size' = size + 1
  <2>1. size + 1 \in Slots
    BY <1>2, <1>5 DEF Slots
  <2> QED
    BY <1>5, <2>1
<1> QED
  BY <1>1, <1>3, <1>4, <1>5

\* A miss, whichever way it finds its entry.
LEMMA GetMissCache ==
    ASSUME CacheInv, NEW t \in Tasks, NEW q \in Sqls, GetMiss(t, q)
    PROVE  CacheInv'
<1>1. PICK s \in Stmts \ live, i \in Slots :
        /\ Place(t, i, s, q, {}) \/ Place(t, i, s, q, {entries[i].stmt})
        /\ size' \in {size, size - 1, i}
        /\ size' = size - 1 => size - 1 >= i \/ size' = i
  <2>1. size \in Nat /\ \A i \in Slots : i \in Nat \ {0}
    BY DEF CacheInv, TypeOK, Slots
  <2> QED
    BY <2>1, MissCases
<1>2. size' \in 0..MaxEntries
  BY <1>1, CacheAssumption DEF CacheInv, TypeOK, Slots
<1>3. /\ phase = "ready" /\ phase' = "ready"
      /\ UNCHANGED <<owner, now, hit, asked>>
  BY DEF GetMiss, CanGet
<1> QED
  BY <1>1, <1>2, <1>3, PlaceCache

\* Binding and stepping a statement, and releasing it.
LEMMA UseCache ==
    ASSUME CacheInv, NEW t \in Tasks, NEW h \in held[t],
           Step(t, h) \/ Release(t, h)
    PROVE  CacheInv'
<1> USE DEF CacheInv
<1>1. CASE Step(t, h)
  BY <1>1 DEF Step, TypeOK, EntriesAreLive, Cached, EmptySlots
<1>2. CASE Release(t, h)
  <2>1. \/ UNCHANGED <<entries, dirty>>
        \/ \E i \in 1..size :
             /\ entries' = [entries EXCEPT ![i].in_use = FALSE]
             /\ dirty' = dirty \ {h.stmt}
    BY <1>2 DEF Release, IsFirst, Reset
  <2>2. dirty' \subseteq dirty
    BY <2>1
  <2>3. /\ entries' \in [Slots -> Entries]
        /\ \A j \in Slots : entries'[j].stmt = entries[j].stmt
    <3>1. CASE UNCHANGED <<entries, dirty>>
      BY <3>1 DEF TypeOK
    <3>2. ASSUME NEW i \in 1..size,
                 entries' = [entries EXCEPT ![i].in_use = FALSE]
          PROVE  /\ entries' \in [Slots -> Entries]
                 /\ \A j \in Slots : entries'[j].stmt = entries[j].stmt
      <4> DEFINE e == [entries[i] EXCEPT !.in_use = FALSE]
      <4>1. i \in Slots
        BY SearchedAreSlots
      <4>2. e \in Entries /\ e.stmt = entries[i].stmt
        <5>1. entries[i] \in Entries /\ 0 \in 0..MaxTick
          BY <4>1, CacheAssumption DEF TypeOK
        <5> QED
          BY <5>1, MarkedEntry
      <4>3. entries' = [entries EXCEPT ![i] = e]
        BY <3>2
      <4> HIDE DEF e
      <4> QED
        BY <4>1, <4>2, <4>3 DEF TypeOK
    <3> QED
      BY <2>1, <3>1, <3>2
  <2>4. TypeOK'
    BY <1>2, <2>2, <2>3 DEF Release, TypeOK
  <2>5. EntriesAreLive'
    BY <1>2, <2>3 DEF Release, EntriesAreLive, Cached, EmptySlots
  <2> QED
    BY <2>4, <2>5
<1> QED
  BY <1>1, <1>2

\* What is finalized was in the entries that are wiped, and in no other.
LEMMA WipeCache ==
    ASSUME CacheInv, phase = "ready", phase' = "ready",
           NEW S \in SUBSET Slots, Wipe(S), Finalize(StmtsIn(S)),
           size' \in {0, size}, UNCHANGED <<owner, now, hit, asked, held>>
    PROVE  CacheInv'
<1> USE DEF CacheInv
<1>1. Blank \in Entries
  BY CacheAssumption DEF Blank, Entries
<1>2. entries' \in [Slots -> Entries]
  BY <1>1 DEF Wipe, TypeOK
<1>3. TypeOK'
  BY <1>2, CacheAssumption DEF Finalize, TypeOK
<1>4. \A j \in Slots :
        entries'[j].stmt = IF j \in S THEN NULL ELSE entries[j].stmt
  BY DEF Wipe, Blank
<1>5. \A j \in Slots \ S : entries[j].stmt # NULL =>
        entries[j].stmt \in live \ StmtsIn(S)
  BY DEF EntriesAreLive, Cached, EmptySlots, StmtsIn
<1>6. Cached' \subseteq live'
  BY <1>4, <1>5 DEF Cached, Finalize
<1>7. \A j, k \in Slots :
        entries'[j].stmt # NULL /\ entries'[j].stmt = entries'[k].stmt => j = k
  BY <1>4 DEF EntriesAreLive, EmptySlots
<1>8. EntriesAreLive'
  BY <1>6, <1>7 DEF EntriesAreLive, EmptySlots
<1> QED
  BY <1>3, <1>8

\* The wipes are clear and evict_lru; a destroyed cache keeps its entries.
LEMMA ClosingCache == CacheInv /\ (Clear \/ EvictLru \/ Destroy) => CacheInv'
<1> SUFFICES ASSUME CacheInv, Clear \/ EvictLru \/ Destroy PROVE CacheInv'
  OBVIOUS
<1>1. 1..size \subseteq Slots
  BY SearchedAreSlots DEF CacheInv
<1>2. CASE Clear
  <2>1. IdleIn(1..size) \in SUBSET Slots
    BY <1>1 DEF IdleIn
  <2> QED
    BY <1>2, <2>1, WipeCache DEF Clear
<1>3. CASE EvictLru
  <2>1. PICK i \in IdleIn(1..size) : Finalize(StmtsIn({i})) /\ Wipe({i})
    BY <1>3 DEF EvictLru
  <2>2. {i} \in SUBSET Slots
    BY <1>1 DEF IdleIn
  <2> QED
    BY <1>3, <2>1, <2>2, WipeCache DEF EvictLru
<1>4. CASE Destroy
  <2>1. TypeOK'
    BY <1>4, CacheAssumption DEF CacheInv, Destroy, Finalize, TypeOK
  <2> QED
    BY <1>4, <2>1 DEF CacheInv, Destroy, EntriesAreLive
<1> QED
  BY <1>2, <1>3, <1>4

\* Every step.
LEMMA NextCache == CacheInv /\ [Next]_vars => CacheInv'
<1> SUFFICES ASSUME CacheInv, [Next]_vars PROVE CacheInv'
  OBVIOUS
<1>1. CASE Tick
  <2>1. TypeOK'
    BY <1>1, CacheAssumption DEF Tick, CacheInv, TypeOK
  <2> QED
    BY <1>1, <2>1 DEF Tick, CacheInv, EntriesAreLive, Cached, EmptySlots
<1>2. CASE UNCHANGED vars
  BY <1>2 DEF vars, CacheInv, TypeOK, EntriesAreLive, Cached, EmptySlots
<1> QED
  BY <1>1, <1>2, GetHitCache, GetReturnCache, GetMissCache, UseCache, ClosingCache
  DEF Next

\* The types and the entries are right in every reachable state.
THEOREM CacheInvariant == Spec => []CacheInv
BY InitCache, NextCache, PTL DEF Spec

\* current_size stays within the array, and everything else in its type.
THEOREM TypeCorrect == Spec => []TypeOK
<1>1. CacheInv => TypeOK
  BY DEF CacheInv
<1> QED
  BY <1>1, CacheInvariant, PTL

\* No entry has a finalized statement and no two have the same one, so that
\* the cache never finalizes or searches a statement that is gone.
THEOREM EntriesStayLive == Spec => []EntriesAreLive
<1>1. CacheInv => EntriesAreLive
  BY DEF CacheInv
<1> QED
  BY <1>1, CacheInvariant, PTL

-----------------------------------------------------------------------------
(* A cache that one task has for itself *)

\* What a task is lent: what it holds, and what it has hit.
LEMMA LentIs ==
    ASSUME NEW t \in Tasks, NEW s
    PROVE  s \in Lent[t] <=> \/ \E h \in held[t] : h.stmt = s
                             \/ hit[t] # 0 /\ s = entries[hit[t]].stmt
BY DEF Lent

\* What is lent has not been finalized.
LEMMA LentAreLive ==
    ASSUME CacheInv, LoanInv, NEW s, IsLent(s)
    PROVE  s \in live /\ s \in Stmts /\ s # NULL
<1>1. PICK t \in Tasks : s \in Lent[t]
  BY DEF IsLent
<1>2. CASE \E h \in held[t] : h.stmt = s
  BY <1>2, SetsAssumption DEF CacheInv, TypeOK, LoanInv, HeldIsRight
<1>3. CASE hit[t] # 0 /\ s = entries[hit[t]].stmt
  <2>1. phase = "ready"
    BY <1>3 DEF CacheInv, TypeOK, LoanInv
  <2>2. hit[t] \in Slots /\ s # NULL
    BY <1>3, <2>1, SearchedAreSlots DEF CacheInv, LoanInv, HitsAreSound
  <2>3. s \in live
    BY <1>3, <2>1, <2>2 DEF CacheInv, EntriesAreLive, Cached
  <2> QED
    BY <2>2, <2>3 DEF CacheInv, TypeOK
<1> QED
  BY <1>1, <1>2, <1>3, LentIs

\* The loans are finitely many.
LEMMA LoansAreFinite ==
    CacheInv => IsFiniteSet(Loans) /\ Cardinality(Loans) \in Nat
<1> DEFINE Pairs == Stmts \X Sqls
           Records == [stmt : Stmts, sql : Sqls]
           f == [p \in Pairs |-> [stmt |-> p[1], sql |-> p[2]]]
<1>1. IsFiniteSet(Pairs)
  BY SetsAssumption, FS_Product
<1>2. f \in Surjection(Pairs, Records)
  <2>1. \A r \in Records : <<r.stmt, r.sql>> \in Pairs
                           /\ f[<<r.stmt, r.sql>>] = r
    OBVIOUS
  <2>2. f \in [Pairs -> Records]
    OBVIOUS
  <2> QED
    BY <2>1, <2>2 DEF Surjection
<1>3. IsFiniteSet(Records)
  BY <1>1, <1>2, FS_Surjection
<1>4. IsFiniteSet(Tasks \X Records)
  BY <1>3, SetsAssumption, FS_Product
<1>5. Loans \in SUBSET (Tasks \X Records)
  BY DEF Loans
<1> QED
  BY <1>4, <1>5, FS_Subset, FS_CardinalityType

\* The owner that may ask for a statement holds fewer than there are entries.
LEMMA AskingCounts ==
    ASSUME CacheInv, NEW t \in Tasks, CanGet(t)
    PROVE  owner # NULL => owner = t /\ Cardinality(Loans) < MaxEntries
<1> DEFINE H == {u \in Tasks : hit[u] # 0}
<1>1. IsFiniteSet(H)
  BY SetsAssumption, FS_Subset
<1>2. Cardinality(H) \in Nat
  BY <1>1, FS_CardinalityType
<1>3. owner # NULL =>
        owner = t /\ Cardinality(Loans) + Cardinality(H) < MaxEntries
  BY DEF CanGet, InUseByTasks
<1> QED
  BY <1>2, <1>3, LoansAreFinite, CacheAssumption

\* When everything can be found and less is lent than there are entries, an
\* entry is idle.
LEMMA SomeIdle ==
    ASSUME owner # NULL, CacheInv, LoanInv, NEW t \in Tasks, CanGet(t),
           size = MaxEntries
    PROVE  IdleIn(Slots) # {}
<1> SUFFICES ASSUME IdleIn(Slots) = {} PROVE FALSE
  OBVIOUS
<1>1. phase = "ready" /\ \A u \in Tasks : hit[u] = 0
  BY DEF CanGet, LoanInv, OwnerAlone
<1>2. \A i \in Slots : entries[i].in_use /\ i <= size
  BY DEF IdleIn, Slots
<1>3. \A i \in Slots : IsLent(entries[i].stmt)
  BY <1>1, <1>2 DEF LoanInv, UseMatchesLoans
<1>4. \A i \in Slots : \E l \in Loans : l[2].stmt = entries[i].stmt
  <2> SUFFICES ASSUME NEW i \in Slots
               PROVE  \E l \in Loans : l[2].stmt = entries[i].stmt
    OBVIOUS
  <2>1. PICK u \in Tasks : entries[i].stmt \in Lent[u]
    BY <1>3 DEF IsLent
  <2>2. PICK h \in held[u] : h.stmt = entries[i].stmt
    BY <1>1, <2>1, LentIs
  <2>3. h \in [stmt : Stmts, sql : Sqls]
    BY DEF CacheInv, TypeOK
  <2>4. <<u, h>> \in Loans
    BY <2>3 DEF Loans
  <2> QED
    BY <2>2, <2>4
<1> DEFINE f == [i \in Slots |-> CHOOSE l \in Loans :
                                   l[2].stmt = entries[i].stmt]
<1>5. \A i \in Slots : f[i] \in Loans /\ f[i][2].stmt = entries[i].stmt
  BY <1>4
<1>6. \A i \in Slots : entries[i].stmt # NULL
  BY <1>3, LentAreLive
<1>7. \A i, j \in Slots : f[i] = f[j] => i = j
  BY <1>1, <1>5, <1>6 DEF CacheInv, EntriesAreLive, EmptySlots
<1>8. f \in Injection(Slots, Loans)
  <2>1. f \in [Slots -> Loans]
    BY <1>5
  <2> HIDE DEF f
  <2> QED
    BY <1>7, <2>1 DEF Injection, IsInjective
<1>9. Cardinality(Slots) <= Cardinality(Loans)
  BY <1>8, LoansAreFinite, FS_Injection
<1>10. Cardinality(Slots) = MaxEntries
  BY FS_Interval, CacheAssumption DEF Slots
<1> QED
  BY <1>9, <1>10, AskingCounts, LoansAreFinite, CacheAssumption

\* An empty cache, with nothing lent.
LEMMA InitLoans == Init => LoanInv /\ Lease!LeaseInit
<1> SUFFICES ASSUME Init PROVE LoanInv /\ Lease!LeaseInit
  OBVIOUS
<1>1. Lent = [t \in Tasks |-> {}]
  BY DEF Init, Lent
<1>2. \A i \in Slots : entries[i] = Blank
  BY DEF Init
<1>3. LoanInv
  BY <1>2, SetsAssumption DEF Init, LoanInv, HeldIsRight, HitsAreSound,
     UseMatchesLoans, LastMayHide, OwnerAlone, Blank
<1> QED
  BY <1>1, <1>3 DEF Init, Lease!LeaseInit

\* A hit lends an idle, clean statement prepared from the text asked for.
LEMMA GetHitLoans ==
    ASSUME owner # NULL, CacheInv, LoanInv, NEW t \in Tasks, NEW q \in Sqls,
           GetHit(t, q)
    PROVE  LoanInv' /\ \E s \in Stmts : Lease!Lend(t, s, {})
<1>1. PICK i \in Hits(q) :
        /\ entries' = [entries EXCEPT ![i] =
                         [@ EXCEPT !.in_use = TRUE, !.last = now]]
        /\ dirty' = dirty \ {entries[i].stmt}
        /\ hit' = [hit EXCEPT ![t] = i]
  BY DEF GetHit, Reset
<1> DEFINE s == entries[i].stmt
<1>2. /\ phase = "ready" /\ phase' = "ready"
      /\ hit[t] = 0
      /\ UNCHANGED <<size, text, live, held>>
      /\ asked' = [asked EXCEPT ![t] = q]
  BY DEF GetHit, CanGet
<1>3. i \in Slots /\ i \in 1..size /\ i # 0
  BY SearchedAreSlots DEF CacheInv, Hits, IdleIn
<1>4. ~entries[i].in_use /\ s # NULL /\ text[s] = q
  BY DEF Hits, IdleIn
<1>5. s \in Stmts /\ s \in live
  BY <1>2, <1>3, <1>4 DEF CacheInv, TypeOK, Entries, EntriesAreLive, Cached
<1>6. ~IsLent(s) /\ s \notin dirty
  BY <1>2, <1>3, <1>4, <1>5 DEF LoanInv, UseMatchesLoans
<1>7. /\ \A j \in Slots : entries'[j].stmt = entries[j].stmt
      /\ \A j \in Slots \ {i} : entries'[j].in_use = entries[j].in_use
      /\ entries'[i].in_use = TRUE
  <2>1. entries[i] \in Entries /\ now \in 0..MaxTick
    BY <1>3 DEF CacheInv, TypeOK
  <2> DEFINE e == [entries[i] EXCEPT !.in_use = TRUE, !.last = now]
  <2>2. e.stmt = entries[i].stmt /\ e.in_use = TRUE
    BY <2>1, MarkedEntry
  <2>3. entries' = [entries EXCEPT ![i] = e]
    BY <1>1
  <2> HIDE DEF e
  <2> QED
    BY <1>3, <2>2, <2>3 DEF CacheInv, TypeOK
<1>8. \A u \in Tasks : hit'[u] = (IF u = t THEN i ELSE hit[u])
                       /\ asked'[u] = (IF u = t THEN q ELSE asked[u])
  BY <1>1, <1>2 DEF CacheInv, TypeOK
<1>9. t = owner /\ owner' = owner
  BY DEF GetHit, CanGet
<1>9a. \A u \in Tasks \ {t} :
        /\ hit[u] = 0 /\ held[u] = {} /\ Lent[u] = {}
        /\ hit'[u] = 0 /\ held'[u] = {} /\ Lent'[u] = {}
  BY <1>2, <1>8, <1>9 DEF LoanInv, OwnerAlone, Lent
<1>10. /\ Lent'[t] = Lent[t] \cup {s}
       /\ Lent' = [Lent EXCEPT ![t] = @ \cup {s}]
  <2>1. Lent'[t] = Lent[t] \cup {s}
    BY <1>2, <1>3, <1>7, <1>8 DEF Lent
  <2> QED
    BY <1>9a, <2>1 DEF Lent
<1>11. \A x : IsLent(x)' <=> IsLent(x) \/ x = s
  BY <1>9a, <1>10 DEF IsLent
<1>12. HeldIsRight' /\ OwnerAlone'
  BY <1>2, <1>9, <1>9a DEF LoanInv, HeldIsRight, OwnerAlone
<1>13. HitsAreSound'
  <2>1. \A h \in held[t] : h.stmt # s
    BY <1>6 DEF IsLent, Lent
  <2> QED
    BY <1>2, <1>3, <1>4, <1>7, <1>8, <1>9a, <2>1 DEF HitsAreSound
<1>14. UseMatchesLoans'
  <2>1. \A j \in Slots \ {i} : entries[j].stmt # s
    BY <1>2, <1>3, <1>4 DEF CacheInv, EntriesAreLive, EmptySlots
  <2> QED
    BY <1>1, <1>2, <1>3, <1>7, <1>11, <2>1 DEF LoanInv, UseMatchesLoans
<1>15. LastMayHide'
  BY <1>2, <1>7 DEF LoanInv, LastMayHide
<1>16. Lease!Lend(t, s, {})
  <2>1. dirty' = dirty
    BY <1>1, <1>6
  <2> QED
    BY <1>2, <1>5, <1>6, <1>9, <1>10, <2>1 DEF Lease!Lend, Lease!Free, IsLent
<1> QED
  BY <1>2, <1>5, <1>12, <1>13, <1>14, <1>15, <1>16 DEF LoanInv

\* With no other task in between, the second reading finds what was hit.
LEMMA GetReturnLoans ==
    ASSUME owner # NULL, CacheInv, LoanInv, NEW t \in Tasks, GetReturn(t)
    PROVE  LoanInv' /\ UNCHANGED <<owner, live, Lent, dirty>>
<1> DEFINE s == entries[hit[t]].stmt
           h == [stmt |-> s, sql |-> asked[t]]
<1>1. phase = "ready" /\ hit[t] # 0 /\ hit[t] \in Slots
  BY SearchedAreSlots DEF GetReturn, CacheInv, TypeOK, LoanInv, HitsAreSound
<1>2. /\ s \in Stmts /\ s \in live
      /\ asked[t] \in Sqls /\ text[s] = asked[t]
  BY <1>1 DEF CacheInv, TypeOK, Entries, EntriesAreLive, Cached, LoanInv,
     HitsAreSound
<1>3. h \in [stmt : Stmts, sql : Sqls]
  BY <1>2 DEF CacheInv, TypeOK
<1>4. /\ held' = [held EXCEPT ![t] = @ \cup {h}]
      /\ hit' = [hit EXCEPT ![t] = 0]
      /\ UNCHANGED <<phase, entries, size, text, live, dirty, now>>
  BY <1>3 DEF GetReturn
<1>5. t = owner /\ owner' = owner
  BY <1>1 DEF GetReturn, LoanInv, OwnerAlone
<1>5a. \A u \in Tasks \ {t} :
        /\ hit[u] = 0 /\ held[u] = {} /\ Lent[u] = {}
        /\ hit'[u] = 0 /\ held'[u] = {} /\ Lent'[u] = {}
  BY <1>4, <1>5 DEF LoanInv, OwnerAlone, Lent, CacheInv, TypeOK
<1>6. /\ held'[t] = held[t] \cup {h} /\ hit'[t] = 0
      /\ h.stmt = s /\ h.sql = asked[t]
  BY <1>4 DEF CacheInv, TypeOK
<1> HIDE DEF h, s
<1>7. Lent' = Lent
  <2>1. Lent'[t] = Lent[t]
    BY <1>1, <1>6, <1>4 DEF Lent, s
  <2> QED
    BY <1>5a, <2>1 DEF Lent
<1>8. HeldIsRight' /\ OwnerAlone'
  <2>1. \A g \in held[t] : g.stmt # s
    BY <1>1 DEF LoanInv, HitsAreSound, s
  <2>2. \A g \in held'[t] : g.stmt \in live /\ text[g.stmt] = g.sql
    BY <1>2, <1>6 DEF LoanInv, HeldIsRight
  <2>3. \A g, k \in held'[t] : g.stmt = k.stmt => g = k
    BY <1>6, <2>1 DEF LoanInv, HeldIsRight
  <2> QED
    BY <1>4, <1>5, <1>5a, <2>2, <2>3 DEF HeldIsRight, OwnerAlone
<1>9. HitsAreSound'
  BY <1>5a, <1>6 DEF HitsAreSound
<1>10. UseMatchesLoans' /\ LastMayHide'
  BY <1>1, <1>4, <1>7 DEF LoanInv, UseMatchesLoans, LastMayHide, IsLent
<1> QED
  BY <1>1, <1>4, <1>5, <1>7, <1>8, <1>9, <1>10 DEF LoanInv

\* A statement placed in an entry is lent; what it replaces is not.
LEMMA PlaceLoans ==
    ASSUME owner # NULL, CacheInv, LoanInv,
           NEW t \in Tasks, hit[t] = 0, NEW q \in Sqls,
           NEW s \in Stmts \ live, NEW i \in Slots, NEW gone,
           Place(t, i, s, q, gone),
           gone \subseteq {entries[i].stmt}, \A x \in gone : ~IsLent(x),
           phase = "ready", t = owner, UNCHANGED <<owner, phase, hit, asked>>,
           size' \in Int, i <= size',
           \A j \in Slots : j <= size' => j <= size \/ j = i,
           \A j \in Slots : j = i \/ size < j \/ j <= size' \/ j = MaxEntries
    PROVE  LoanInv' /\ \E closed \in SUBSET live : Lease!Lend(t, s, closed)
<1> DEFINE h == [stmt |-> s, sql |-> q]
<1>1. \A u \in Tasks \ {t} :
        /\ hit[u] = 0 /\ held[u] = {} /\ Lent[u] = {}
        /\ hit'[u] = 0 /\ held'[u] = {} /\ Lent'[u] = {}
  BY DEF Place, LoanInv, OwnerAlone, Lent, CacheInv, TypeOK
<1>2. /\ \A j \in Slots :
           entries'[j].stmt = IF j = i THEN s ELSE entries[j].stmt
      /\ \A j \in Slots \ {i} : entries'[j] = entries[j]
      /\ entries'[i].in_use = TRUE
  BY DEF Place, CacheInv, TypeOK
<1>3. /\ live' = (live \ gone) \cup {s}
      /\ dirty' = dirty \ gone
      /\ text'[s] = q
      /\ \A x \in Stmts \ {s} : x \notin gone => text'[x] = text[x]
      /\ held' = [held EXCEPT ![t] = @ \cup {h}]
  BY DEF Place
<1>4. held'[t] = held[t] \cup {h} /\ h.stmt = s /\ h.sql = q
  BY <1>3 DEF CacheInv, TypeOK
<1> HIDE DEF h
<1>5. \A x \in Lent[t] : x # s /\ x \notin gone /\ x \in Stmts
  BY LentAreLive DEF IsLent
<1>6. \A g \in held[t] : g.stmt \in Lent[t]
  BY DEF Lent
<1>7. Lent'[t] = Lent[t] \cup {s}
  BY <1>4 DEF Lent
<1>8. Lent' = [Lent EXCEPT ![t] = @ \cup {s}]
  BY <1>1, <1>7 DEF Lent
<1>9. \A x : IsLent(x)' <=> IsLent(x) \/ x = s
  BY <1>1, <1>7 DEF IsLent
<1>10. HeldIsRight' /\ OwnerAlone'
  <2>1. \A g \in held'[t] : g.stmt \in live' /\ text'[g.stmt] = g.sql
    BY <1>3, <1>4, <1>5, <1>6 DEF LoanInv, HeldIsRight
  <2>2. \A g, k \in held'[t] : g.stmt = k.stmt => g = k
    BY <1>4, <1>5, <1>6 DEF LoanInv, HeldIsRight
  <2> QED
    BY <1>1, <2>1, <2>2 DEF HeldIsRight, OwnerAlone
<1>11. HitsAreSound'
  BY <1>1 DEF HitsAreSound
<1>12. UseMatchesLoans'
  <2>1. \A j \in Slots \ {i} : entries[j].stmt \in Stmts => entries[j].stmt # s
    BY SetsAssumption DEF CacheInv, EntriesAreLive, Cached
  <2>2. UseMatchesLoans
    BY DEF LoanInv
  <2> SUFFICES ASSUME NEW j \in Slots
               PROVE  /\ entries'[j].in_use /\ j <= size' =>
                           IsLent(entries[j].stmt)'
                      /\ entries'[j].stmt \in Stmts /\ ~entries'[j].in_use =>
                           /\ ~IsLent(entries[j].stmt)'
                           /\ entries'[j].stmt \notin dirty'
    BY DEF UseMatchesLoans
  <2>3. CASE j = i
    BY <1>2, <1>9, <2>3
  <2>4. CASE j # i
    BY <1>2, <1>3, <1>9, <2>1, <2>2, <2>4 DEF UseMatchesLoans
  <2> QED
    BY <2>3, <2>4
<1>13. LastMayHide'
  <2>1. size \in Int /\ \A j \in Slots : j \in Int
    BY DEF CacheInv, TypeOK, Slots
  <2> QED
    BY <1>2, <2>1 DEF LoanInv, LastMayHide
<1>14. Lease!Lend(t, s, gone \cap live)
  <2>1. dirty \subseteq live
    BY DEF CacheInv, TypeOK
  <2>2. Lease!Free((gone \cap live) \cup {s})
    BY <1>1, <1>5 DEF Lease!Free
  <2> QED
    BY <1>3, <1>8, <2>1, <2>2 DEF Lease!Lend
<1> QED
  BY <1>10, <1>11, <1>12, <1>13, <1>14 DEF LoanInv

\* A miss lends the new statement, in whichever entry; the statement evicted for
\* it, if any, is an idle one.
LEMMA GetMissLoans ==
    ASSUME owner # NULL, CacheInv, LoanInv, NEW t \in Tasks, NEW q \in Sqls,
           GetMiss(t, q)
    PROVE  LoanInv' /\ \E s \in Stmts, closed \in SUBSET live :
                         Lease!Lend(t, s, closed)
<1>1. PICK s \in Stmts \ live, i \in Slots :
             \/ /\ IsFirst(i, EmptySlots)
                /\ Place(t, i, s, q, {})
                /\ size' = IF size >= i THEN size ELSE i
             \/ /\ EmptySlots = {} /\ size = MaxEntries
                /\ IsVictim(i)
                /\ Place(t, i, s, q, {entries[i].stmt})
                /\ size' = IF size - 1 >= i THEN size - 1 ELSE i
             \/ /\ EmptySlots = {} /\ size < MaxEntries
                /\ i = size + 1
                /\ Place(t, i, s, q, {})
                /\ size' = i
  BY MissCases
<1>2. /\ phase = "ready" /\ UNCHANGED <<owner, phase, hit, asked>>
      /\ hit[t] = 0 /\ CanGet(t) /\ t = owner
  BY DEF GetMiss, CanGet
<1>3. /\ \A j \in Slots : j \in Nat \ {0} /\ j <= MaxEntries
      /\ \A j \in Nat \ {0} : j <= MaxEntries => j \in Slots
      /\ size \in Nat /\ size <= MaxEntries /\ MaxEntries \in Nat \ {0}
  BY CacheAssumption DEF Slots, CacheInv, TypeOK
<1>4. CASE /\ IsFirst(i, EmptySlots)
           /\ Place(t, i, s, q, {})
           /\ size' = IF size >= i THEN size ELSE i
  <2>1. ~(size + 1 < i)
    <3> SUFFICES ASSUME size + 1 < i PROVE FALSE
      OBVIOUS
    <3>1. size + 1 \in Slots /\ size + 1 < MaxEntries
      BY <1>3
    <3>2. size + 1 \in EmptySlots
      BY <1>2, <1>3, <3>1 DEF LoanInv, LastMayHide, EmptySlots
    <3> QED
      BY <1>3, <1>4, <3>2 DEF IsFirst
  <2>2. /\ size' \in Int /\ i <= size'
        /\ \A j \in Slots : j <= size' => j <= size \/ j = i
        /\ \A j \in Slots : j = i \/ size < j \/ j <= size' \/ j = MaxEntries
    BY <1>3, <1>4, <2>1
  <2> QED
    BY <1>2, <1>4, <2>2, PlaceLoans
<1>5. CASE /\ EmptySlots = {} /\ size = MaxEntries
           /\ IsVictim(i)
           /\ Place(t, i, s, q, {entries[i].stmt})
           /\ size' = IF size - 1 >= i THEN size - 1 ELSE i
  <2>1. IdleIn(Slots) # {}
    BY <1>2, <1>5, SomeIdle
  <2>2. ~entries[i].in_use
    BY <1>5, <2>1 DEF IsVictim, IsFirst, Oldest, IdleIn
  <2>3. entries[i].stmt \in Stmts
    BY <1>5 DEF EmptySlots, CacheInv, TypeOK, Entries
  <2>4. ~IsLent(entries[i].stmt)
    BY <1>2, <2>2, <2>3 DEF LoanInv, UseMatchesLoans
  <2>5. /\ size' \in Int /\ i <= size'
        /\ \A j \in Slots : j <= size' => j <= size \/ j = i
        /\ \A j \in Slots : j = i \/ size < j \/ j <= size' \/ j = MaxEntries
    BY <1>3, <1>5
  <2> QED
    BY <1>2, <1>5, <2>4, <2>5, PlaceLoans
<1>6. CASE /\ EmptySlots = {} /\ size < MaxEntries
           /\ i = size + 1
           /\ Place(t, i, s, q, {})
           /\ size' = i
  <2>1. /\ size' \in Int /\ i <= size'
        /\ \A j \in Slots : j <= size' => j <= size \/ j = i
        /\ \A j \in Slots : j = i \/ size < j \/ j <= size' \/ j = MaxEntries
    BY <1>3, <1>6
  <2> QED
    BY <1>2, <1>6, <2>1, PlaceLoans
<1> QED
  BY <1>1, <1>4, <1>5, <1>6

\* Only what is lent is bound and stepped.
LEMMA StepLoans ==
    ASSUME owner # NULL, CacheInv, LoanInv, NEW t \in Tasks, NEW h \in held[t],
           Step(t, h)
    PROVE  LoanInv' /\ \E s \in Stmts : Lease!Use(t, s)
<1>1. /\ dirty' = dirty \cup {h.stmt}
      /\ UNCHANGED <<owner, phase, entries, size, text, live, now, hit, asked,
                     held>>
  BY DEF Step
<1>2. Lent' = Lent /\ h.stmt \in Lent[t] /\ IsLent(h.stmt)
  BY <1>1 DEF Lent, IsLent
<1>3. HeldIsRight' /\ OwnerAlone' /\ (HitsAreSound => HitsAreSound')
  BY <1>1 DEF LoanInv, HeldIsRight, OwnerAlone, HitsAreSound
<1>4. LastMayHide => LastMayHide'
  BY <1>1 DEF LastMayHide
<1>5. UseMatchesLoans => UseMatchesLoans'
  BY <1>1, <1>2 DEF UseMatchesLoans, IsLent
<1>6. h.stmt \in Stmts
  BY <1>2, LentAreLive
<1>7. Lease!Use(t, h.stmt)
  BY <1>1, <1>2 DEF Lease!Use
<1> QED
  BY <1>1, <1>3, <1>4, <1>5, <1>6, <1>7 DEF LoanInv

\* A released statement is reset if it is found; if not, it stays in use for
\* ever, or is in no entry.
LEMMA ReleaseLoans ==
    ASSUME owner # NULL, CacheInv, LoanInv, NEW t \in Tasks, NEW h \in held[t],
           Release(t, h)
    PROVE  LoanInv' /\ \E s \in Stmts : Lease!Return(t, s)
<1> DEFINE s == h.stmt
           match == {i \in 1..size : entries[i].stmt = s}
<1>1. /\ phase = "ready" /\ hit[t] = 0
      /\ held' = [held EXCEPT ![t] = @ \ {h}]
      /\ UNCHANGED <<owner, phase, size, text, live, now, hit, asked>>
      /\ \/ match = {} /\ UNCHANGED <<entries, dirty>>
         \/ \E i \in match :
              /\ entries' = [entries EXCEPT ![i].in_use = FALSE]
              /\ dirty' = dirty \ {s}
  BY DEF Release, IsFirst, Reset
<1>2. \A u \in Tasks \ {t} :
        /\ hit[u] = 0 /\ held[u] = {} /\ Lent[u] = {}
        /\ hit'[u] = 0 /\ held'[u] = {} /\ Lent'[u] = {}
  BY <1>1 DEF LoanInv, OwnerAlone, Lent, CacheInv, TypeOK
<1>3. held'[t] = held[t] \ {h}
  BY <1>1 DEF CacheInv, TypeOK
<1>4. s \in Lent[t] /\ IsLent(s)
  BY DEF Lent, IsLent
<1>5. s \in Stmts /\ s \in live
  BY <1>4, LentAreLive
<1>6. \A g \in held[t] : g.stmt = s => g = h
  BY DEF LoanInv, HeldIsRight
<1>7. hit'[t] = 0
  BY <1>1
<1>8. Lent'[t] = Lent[t] \ {s}
  BY <1>1, <1>3, <1>6, <1>7 DEF Lent
<1>9. Lent' = [Lent EXCEPT ![t] = @ \ {s}]
  BY <1>2, <1>8 DEF Lent
<1>10. \A x : IsLent(x)' <=> IsLent(x) /\ x # s
  BY <1>2, <1>8 DEF IsLent
<1>11. HeldIsRight' /\ OwnerAlone'
  BY <1>1, <1>2, <1>3 DEF LoanInv, HeldIsRight, OwnerAlone
<1>12. HitsAreSound'
  BY <1>2, <1>7 DEF HitsAreSound
<1>13. UseMatchesLoans' /\ LastMayHide'
  <2>1. UseMatchesLoans /\ LastMayHide
    BY <1>1 DEF LoanInv
  <2>2. CASE match = {} /\ UNCHANGED <<entries, dirty>>
    <3>1. \A j \in Slots : j <= size => entries[j].stmt # s
      BY <2>2 DEF CacheInv, TypeOK, Slots
    <3> QED
      BY <1>1, <1>10, <2>1, <2>2, <3>1 DEF UseMatchesLoans, LastMayHide
  <2>3. ASSUME NEW i \in match,
               entries' = [entries EXCEPT ![i].in_use = FALSE],
               dirty' = dirty \ {s}
        PROVE  UseMatchesLoans' /\ LastMayHide'
    <3>1. i \in Slots /\ entries[i].stmt = s
      BY SearchedAreSlots DEF CacheInv
    <3>2. /\ \A j \in Slots : entries'[j].stmt = entries[j].stmt
          /\ \A j \in Slots \ {i} : entries'[j].in_use = entries[j].in_use
          /\ entries'[i].in_use = FALSE
      <4> DEFINE e == [entries[i] EXCEPT !.in_use = FALSE]
      <4>1. e.stmt = entries[i].stmt /\ e.in_use = FALSE
        <5>1. entries[i] \in Entries /\ 0 \in 0..MaxTick
          BY <3>1, CacheAssumption DEF CacheInv, TypeOK
        <5> QED
          BY <5>1, MarkedEntry
      <4>2. entries' = [entries EXCEPT ![i] = e]
        BY <2>3
      <4> HIDE DEF e
      <4> QED
        BY <3>1, <4>1, <4>2 DEF CacheInv, TypeOK
    <3>3. \A j \in Slots \ {i} : entries[j].stmt # s
      BY <1>1, <1>5, <3>1, SetsAssumption
      DEF CacheInv, EntriesAreLive, EmptySlots
    <3>4. LastMayHide'
      BY <1>1, <2>1, <3>2 DEF LastMayHide
    <3>5. UseMatchesLoans'
      BY <1>1, <1>10, <2>1, <2>3, <3>1, <3>2, <3>3 DEF UseMatchesLoans
    <3> QED
      BY <3>4, <3>5
  <2> QED
    BY <1>1, <2>2, <2>3
<1>14. Lease!Return(t, s)
  BY <1>1, <1>4, <1>9 DEF Lease!Return
<1> QED
  BY <1>1, <1>5, <1>11, <1>12, <1>13, <1>14 DEF LoanInv

\* Wiping idle entries leaves the loans alone.
LEMMA WipeLoans ==
    ASSUME owner # NULL, CacheInv, LoanInv, phase = "ready",
           NEW S \in SUBSET (1..size), \A i \in S : ~entries[i].in_use,
           Wipe(S), Finalize(StmtsIn(S)),
           UNCHANGED <<owner, phase, now, hit, asked, held>>,
           \/ size' = size
           \/ size' = 0 /\ \A i \in 1..size : i \in S
    PROVE  LoanInv' /\ \E closed \in SUBSET live : Lease!Close(closed)
<1>1. S \in SUBSET Slots
  BY SearchedAreSlots DEF CacheInv
<1>2. \A x \in StmtsIn(S) : ~IsLent(x)
  <2> SUFFICES ASSUME NEW i \in S PROVE ~IsLent(entries[i].stmt)
    BY DEF StmtsIn
  <2>1. i \in Slots /\ ~entries[i].in_use
    BY <1>1
  <2> QED
    BY <2>1, LentAreLive DEF LoanInv, UseMatchesLoans
<1>3. \A u \in Tasks : hit[u] # 0 => hit[u] \notin S
  BY DEF LoanInv, HitsAreSound
<1>4. \A u \in Tasks : hit[u] # 0 => entries'[hit[u]] = entries[hit[u]]
  <2>1. \A u \in Tasks : hit[u] # 0 => hit[u] \in Slots
    BY SearchedAreSlots DEF CacheInv, LoanInv, HitsAreSound
  <2> QED
    BY <1>3, <2>1 DEF Wipe
<1>5. Lent' = Lent
  BY <1>4 DEF Lent
<1>6. \A u \in Tasks : \A x \in Lent[u] : x \notin StmtsIn(S) /\ x \in Stmts
  BY <1>2, LentAreLive DEF IsLent
<1>7. \A u \in Tasks : \A h \in held[u] : h.stmt \in Lent[u]
  BY DEF Lent
<1>8. \A x \in Stmts \ StmtsIn(S) : text'[x] = text[x]
  BY DEF Finalize
<1>9. HeldIsRight' /\ OwnerAlone'
  BY <1>6, <1>7, <1>8 DEF LoanInv, HeldIsRight, OwnerAlone, Finalize
<1>10. HitsAreSound'
  <2> SUFFICES ASSUME NEW u \in Tasks, hit[u] # 0
               PROVE  /\ hit[u] \in 1..size'
                      /\ entries'[hit[u]].stmt # NULL
                      /\ entries'[hit[u]].in_use
                      /\ asked[u] \in Sqls
                      /\ text'[entries'[hit[u]].stmt] = asked[u]
                      /\ \A h \in held[u] : h.stmt # entries'[hit[u]].stmt
    BY DEF HitsAreSound
  <2>1. hit[u] \in 1..size /\ size' = size
    BY <1>3 DEF LoanInv, HitsAreSound
  <2>2. entries[hit[u]].stmt \in Lent[u]
    BY DEF Lent
  <2>3. text'[entries[hit[u]].stmt] = text[entries[hit[u]].stmt]
    BY <1>6, <1>8, <2>2
  <2> QED
    BY <1>4, <2>1, <2>3 DEF LoanInv, HitsAreSound
<1>11. /\ \A j \in Slots \ S : entries'[j] = entries[j]
       /\ \A j \in S : entries'[j].stmt = NULL /\ ~entries'[j].in_use
  BY <1>1 DEF Wipe, Blank
<1>12. UseMatchesLoans' /\ LastMayHide'
  <2>1. UseMatchesLoans /\ LastMayHide /\ dirty' \subseteq dirty
    BY DEF LoanInv, Finalize
  <2>2. size \in Nat /\ \A j \in Slots : j \in Nat \ {0}
    BY DEF CacheInv, TypeOK, Slots
  <2>3. \A j \in Slots : j <= size' => j <= size
    BY <2>2
  <2>4. \A j \in Slots : size' < j /\ j \notin S => size < j
    BY <2>2
  <2>5. UseMatchesLoans'
    <3>1. \A x : IsLent(x)' <=> IsLent(x)
      BY <1>5 DEF IsLent
    <3> QED
      BY <1>1, <1>11, <2>1, <2>3, <3>1, SetsAssumption DEF UseMatchesLoans
  <2>6. LastMayHide'
    BY <1>11, <2>1, <2>4 DEF LastMayHide
  <2> QED
    BY <2>5, <2>6
<1>13. Lease!Close(StmtsIn(S) \cap live)
  <2>1. dirty \subseteq live
    BY DEF CacheInv, TypeOK
  <2> QED
    BY <1>5, <1>6, <2>1 DEF Finalize, Lease!Close, Lease!Free
<1> QED
  BY <1>9, <1>10, <1>12, <1>13 DEF LoanInv

\* A cache of which nothing is lent has no entry in use that can be found.
LEMMA NothingLent ==
    ASSUME CacheInv, LoanInv, phase = "ready", InUseByTasks = 0
    PROVE  \A i \in 1..size : ~entries[i].in_use
<1> DEFINE H == {u \in Tasks : hit[u] # 0}
<1>1. IsFiniteSet(H) /\ Cardinality(H) \in Nat
  BY SetsAssumption, FS_Subset, FS_CardinalityType
<1>2. Cardinality(Loans) = 0 /\ Cardinality(H) = 0
  BY <1>1, LoansAreFinite DEF InUseByTasks
<1>3. Loans = {} /\ H = {}
  BY <1>1, <1>2, LoansAreFinite, FS_EmptySet
<1>4. \A u \in Tasks : held[u] = {}
  <2> SUFFICES ASSUME NEW u \in Tasks, NEW h \in held[u] PROVE FALSE
    OBVIOUS
  <2>1. h \in [stmt : Stmts, sql : Sqls]
    BY DEF CacheInv, TypeOK
  <2>2. <<u, h>> \in Loans
    BY <2>1 DEF Loans
  <2> QED
    BY <1>3, <2>2
<1>5. \A x : ~IsLent(x)
  BY <1>3, <1>4 DEF IsLent, Lent
<1>6. \A i \in 1..size : i \in Slots /\ i <= size
  BY SearchedAreSlots DEF CacheInv, TypeOK
<1> QED
  BY <1>5, <1>6 DEF LoanInv, UseMatchesLoans

\* clear and evict_lru close what nobody has; destroy ends every loan.
LEMMA ClosingLoans ==
    ASSUME owner # NULL, CacheInv, LoanInv, Clear \/ EvictLru \/ Destroy
    PROVE  LoanInv' /\ (Lease!End \/ \E closed \in SUBSET live :
                                       Lease!Close(closed))
<1>1. CASE Clear
  <2>1. phase = "ready" /\ InUseByTasks = 0
    BY <1>1 DEF Clear
  <2>2. IdleIn(1..size) = 1..size
    BY <2>1, NothingLent DEF IdleIn
  <2>3. /\ Finalize(StmtsIn(1..size)) /\ Wipe(1..size) /\ size' = 0
        /\ UNCHANGED <<owner, phase, now, hit, asked, held>>
    BY <1>1, <2>2 DEF Clear
  <2>4. \A i \in 1..size : ~entries[i].in_use
    BY <2>1, NothingLent
  <2> QED
    BY <2>1, <2>3, <2>4, WipeLoans
<1>2. CASE EvictLru
  <2>1. PICK i \in IdleIn(1..size) : Finalize(StmtsIn({i})) /\ Wipe({i})
    BY <1>2 DEF EvictLru
  <2>2. {i} \in SUBSET (1..size) /\ ~entries[i].in_use
    BY <2>1 DEF IdleIn
  <2>3. phase = "ready" /\ UNCHANGED <<owner, phase, size, now, hit, asked, held>>
    BY <1>2 DEF EvictLru
  <2> QED
    BY <2>1, <2>2, <2>3, WipeLoans
<1>3. CASE Destroy
  <2>1. /\ \A u \in Tasks : hit'[u] = 0 /\ held'[u] = {}
        /\ phase' = "destroyed"
    BY <1>3 DEF Destroy
  <2>2. LoanInv'
    BY <2>1 DEF LoanInv, HeldIsRight, OwnerAlone
  <2>3. Lent' = [u \in Tasks |-> {}]
    BY <2>1 DEF Lent
  <2> QED
    BY <1>3, <2>2, <2>3 DEF Destroy, Finalize, Lease!End
<1> QED
  BY <1>1, <1>2, <1>3

\* Every step of the cache is one of the leases, or none of theirs.
LEMMA StepRefines ==
    ASSUME owner # NULL, CacheInv, LoanInv, [Next]_vars
    PROVE  LoanInv' /\ [Lease!LeaseNext]_(Lease!leaseVars)
<1>1. ASSUME NEW t \in Tasks, NEW q \in Sqls, GetHit(t, q)
      PROVE  LoanInv' /\ Lease!LeaseNext
  <2>1. PICK s \in Stmts : Lease!Lend(t, s, {})
    BY <1>1, GetHitLoans
  <2> QED
    BY <1>1, <2>1, GetHitLoans DEF Lease!LeaseNext
<1>2. ASSUME NEW t \in Tasks, NEW q \in Sqls, GetMiss(t, q)
      PROVE  LoanInv' /\ Lease!LeaseNext
  BY <1>2, GetMissLoans DEF Lease!LeaseNext
<1>3. ASSUME NEW t \in Tasks, GetReturn(t)
      PROVE  LoanInv' /\ UNCHANGED Lease!leaseVars
  BY <1>3, GetReturnLoans DEF Lease!leaseVars
<1>4. ASSUME NEW t \in Tasks, NEW h \in held[t], Step(t, h)
      PROVE  LoanInv' /\ Lease!LeaseNext
  BY <1>4, StepLoans DEF Lease!LeaseNext
<1>5. ASSUME NEW t \in Tasks, NEW h \in held[t], Release(t, h)
      PROVE  LoanInv' /\ Lease!LeaseNext
  BY <1>5, ReleaseLoans DEF Lease!LeaseNext
<1>6. CASE Clear \/ EvictLru \/ Destroy
  BY <1>6, ClosingLoans DEF Lease!LeaseNext
<1>7. CASE Tick \/ UNCHANGED vars
  <2>1. UNCHANGED <<owner, phase, entries, size, text, live, dirty, hit, asked,
                    held>>
    BY <1>7 DEF Tick, vars
  <2>2. Lent' = Lent
    BY <2>1 DEF Lent
  <2>3. LoanInv'
    BY <2>1, <2>2 DEF LoanInv, HeldIsRight, OwnerAlone, HitsAreSound, UseMatchesLoans,
       LastMayHide, IsLent
  <2> QED
    BY <2>1, <2>2, <2>3 DEF Lease!leaseVars
<1> QED
  BY <1>1, <1>2, <1>3, <1>4, <1>5, <1>6, <1>7 DEF Next

\* What a cache does that no task has for itself concerns no lease.
LEMMA OwnedOrNot ==
    ASSUME CacheInv, owner # NULL => LoanInv, [Next]_vars
    PROVE  /\ owner' # NULL => LoanInv'
           /\ [Lease!LeaseNext]_(Lease!leaseVars)
<1>1. owner' = owner
  BY DEF Next, vars, Tick, GetHit, GetMiss, GetReturn, Step, Release, Clear,
         EvictLru, Destroy
<1>2. CASE owner = NULL
  BY <1>1, <1>2 DEF Lease!leaseVars
<1>3. CASE owner # NULL
  BY <1>1, <1>3, StepRefines
<1> QED
  BY <1>2, <1>3

\* Of a cache with an owner, entries, loans and statements correspond in every
\* state.
THEOREM LoanInvariant == Spec => [](owner # NULL => LoanInv)
<1>1. /\ CacheInv /\ (owner # NULL => LoanInv) /\ [Next]_vars
      => (owner # NULL => LoanInv)'
  BY OwnedOrNot
<1>2. Init => (owner # NULL => LoanInv)
  BY InitLoans
<1> QED
  BY <1>1, <1>2, CacheInvariant, PTL DEF Spec

\* A task that has the cache for itself has the statements it asked for, not
\* finalized, as long as it holds no more of them than there are entries.
THEOREM HeldAreRight == Spec => []OwnerHoldsRight
<1>1. (owner # NULL => LoanInv) => OwnerHoldsRight
  BY DEF LoanInv, OwnerHoldsRight
<1> QED
  BY <1>1, LoanInvariant, PTL

\* Under the same conditions the cache implements the exclusive leases: what
\* get_stmt returns is live and reset, and stays so until its release.
THEOREM CacheImplementsLease == Spec => ImplementsLease
<1>1. Init => Lease!LeaseInit
  BY InitLoans
<1>2. CacheInv /\ (owner # NULL => LoanInv) /\ [Next]_vars
        => [Lease!LeaseNext]_(Lease!leaseVars)
  BY OwnedOrNot
<1> QED
  BY <1>1, <1>2, LoanInvariant, CacheInvariant, PTL
  DEF Spec, ImplementsLease, Lease!LeaseSpec
=============================================================================
