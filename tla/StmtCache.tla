----------------------------- MODULE StmtCache ------------------------------
(***************************************************************************)
(* The prepared-statement cache of src/src/sqlite_cache.c, shared by the   *)
(* tasks that use one connection: sqlite_cache_get_stmt, _release_stmt,    *)
(* _clear, _evict_lru and _destroy.  A slot of cache->entries is a number  *)
(* from 1, a sqlite3_stmt* a member of Stmts: an address, which a later    *)
(* prepare may be given again once the statement is finalized.             *)
(* Every operation runs under cache->mutex and is one step, except that    *)
(* get_stmt, on a hit, reads the entry again after giving the mutex back.  *)
(***************************************************************************)
EXTENDS Naturals, FiniteSets, FiniteSetsExt

CONSTANTS
    Tasks,       \* the tasks that share the cache
    Sqls,        \* the statement texts they ask for
    Stmts,       \* addresses a sqlite3_stmt can have
    NULL,
    MaxEntries,  \* config.max_statements
    MaxTick,     \* bound: how far the tick count advances
    MaxInUse,    \* bound: the statements the tasks hold together, at most
    ClearBusy    \* whether they clear the cache while statements are held

ASSUME SetsAssumption ==
    /\ IsFiniteSet(Tasks) /\ NULL \notin Tasks
    /\ IsFiniteSet(Stmts) /\ NULL \notin Stmts
    /\ IsFiniteSet(Sqls) /\ NULL \notin Sqls

ASSUME CacheAssumption ==
    /\ MaxEntries \in Nat \ {0}
    /\ MaxTick \in Nat \ {0}
    /\ MaxInUse \in Nat
    /\ ClearBusy \in BOOLEAN

VARIABLES
    owner,     \* the task that has the cache for itself, or NULL
    phase,     \* "ready" or "destroyed"
    entries,   \* stmt, in_use and last_access_time of each slot
    size,      \* current_size
    text,      \* the SQL a live statement was prepared from, or NULL
    live,      \* the prepared statements that have not been finalized
    dirty,     \* the live statements stepped or bound since their last reset
    now,       \* xTaskGetTickCount()
    hit,       \* the slot of the hit whose mutex a task has given back, or 0
    asked,     \* the SQL that task asked for, or NULL
    held       \* the statements a task has got, with the SQL it asked for

vars == <<owner, phase, entries, size, text, live, dirty, now, hit, asked, held>>

-----------------------------------------------------------------------------

Slots == 1..MaxEntries
Blank == [stmt |-> NULL, in_use |-> FALSE, last |-> 0]
EmptySlots == {i \in Slots : entries[i].stmt = NULL}
Cached == {entries[i].stmt : i \in Slots} \ {NULL}
IdleIn(S) == {i \in S : ~entries[i].in_use}

IsFirst(i, S) == i \in S /\ \A j \in S : i <= j

\* The slots with the smallest last_access_time of S.
Oldest(S) == {i \in S : \A j \in S : entries[i].last <= entries[j].last}

Loans == {l \in Tasks \X [stmt : Stmts, sql : Sqls] : l[2] \in held[l[1]]}
InUseByTasks ==
    Cardinality(Loans) + Cardinality({t \in Tasks : hit[t] # 0})

-----------------------------------------------------------------------------

\* How the application uses the cache, fixed for a behaviour.  Either one task
\* has it for itself, holds no more statements at a time than there are entries
\* and clears the cache only when it holds none; or all of them use it, and
\* MaxInUse and ClearBusy say how.
Init ==
    /\ owner \in Tasks \cup {NULL}
    /\ phase = "ready"
    /\ entries = [i \in Slots |-> Blank]
    /\ size = 0
    /\ text = [s \in Stmts |-> NULL]
    /\ live = {}
    /\ dirty = {}
    /\ now = 1
    /\ hit = [t \in Tasks |-> 0]
    /\ asked = [t \in Tasks |-> NULL]
    /\ held = [t \in Tasks |-> {}]

Tick ==
    /\ phase = "ready"
    /\ now < MaxTick
    /\ now' = now + 1
    /\ UNCHANGED <<owner, phase, entries, size, text, live, dirty, hit, asked,
                   held>>

-----------------------------------------------------------------------------
(* sqlite_cache_get_stmt *)

CanGet(t) ==
    /\ phase = "ready"
    /\ hit[t] = 0
    /\ owner \in {NULL, t}
    /\ InUseByTasks < IF owner = NULL THEN MaxInUse ELSE MaxEntries

\* The entries a lookup can hit: only the first current_size are searched.
Hits(q) ==
    {i \in IdleIn(1..size) : entries[i].stmt # NULL /\ text[entries[i].stmt] = q}

\* sqlite3_reset and sqlite3_clear_bindings; the first form is without them.
LeaveAsIs(s) == dirty' = dirty
Reset(s) == dirty' = dirty \ {s}

\* A hit is marked in use, reset, and the mutex given back...
GetHit(t, q) ==
    /\ CanGet(t)
    /\ \E i \in Hits(q) :
         /\ IsFirst(i, Hits(q))
         /\ entries' = [entries EXCEPT ![i] =
                          [@ EXCEPT !.in_use = TRUE, !.last = now]]
         /\ Reset(entries[i].stmt)
         /\ hit' = [hit EXCEPT ![t] = i]
    /\ asked' = [asked EXCEPT ![t] = q]
    /\ UNCHANGED <<owner, phase, size, text, live, now, held>>

\* ... and the entry read once more for the result.
GetReturn(t) ==
    /\ hit[t] # 0
    /\ LET s == entries[hit[t]].stmt
       IN  held' = [held EXCEPT ![t] =
                      @ \cup ({[stmt |-> s, sql |-> asked[t]]}
                              \cap [stmt : Stmts, sql : Sqls])]
    /\ hit' = [hit EXCEPT ![t] = 0]
    /\ asked' = [asked EXCEPT ![t] = NULL]
    /\ UNCHANGED <<owner, phase, entries, size, text, live, dirty, now>>

\* A miss finalizes the statements gone and caches the new one, s, in slot i.
Place(t, i, s, q, gone) ==
    /\ entries' = [entries EXCEPT ![i] =
                     [stmt |-> s, in_use |-> TRUE, last |-> now]]
    /\ live' = (live \ gone) \cup {s}
    /\ text' = [x \in Stmts |-> IF x = s THEN q
                               ELSE IF x \in gone THEN NULL ELSE text[x]]
    /\ dirty' = dirty \ gone
    /\ held' = [held EXCEPT ![t] = @ \cup {[stmt |-> s, sql |-> q]}]

\* The form that evicts the oldest statement, held or not.
IsOldest(i) == IsFirst(i, Oldest(Slots))

\* The slot to evict when all are full: the least recently used of the idle
\* ones, or the first slot if none is idle.
IsVictim(i) ==
    IF IdleIn(Slots) = {} THEN i = 1 ELSE IsFirst(i, Oldest(IdleIn(Slots)))

\* current_size after the victim in slot i is replaced; the first form counts
\* the new statement and not the evicted one.
SizeCountingNew(i) == size + 1
SizeAfterEviction(i) == Max({size - 1, i})

\* A statement is prepared (if it cannot be, the call changes nothing) and
\* put in the first empty slot, or in that of the victim, with current_size
\* one less; or, when current_size is short of full slots, in the slot it
\* points at, whose statement is not finalized.
GetMiss(t, q) ==
    /\ CanGet(t)
    /\ Hits(q) = {}
    /\ \E s \in Stmts \ live :
         \/ \E i \in EmptySlots :
              /\ IsFirst(i, EmptySlots)
              /\ Place(t, i, s, q, {})
              /\ size' = Max({size, i})
         \/ \E i \in Slots :
              /\ EmptySlots = {} /\ size >= MaxEntries
              /\ IsVictim(i)
              /\ Place(t, i, s, q, {entries[i].stmt})
              /\ size' = SizeAfterEviction(i)
         \/ /\ EmptySlots = {} /\ size < MaxEntries
            /\ Place(t, size + 1, s, q, {})
            /\ size' = size + 1
    /\ UNCHANGED <<owner, phase, now, hit, asked>>

-----------------------------------------------------------------------------
(* A task binds and steps a statement it holds, outside the cache *)

Step(t, h) ==
    /\ phase = "ready"
    /\ hit[t] = 0
    /\ h \in held[t]
    /\ h.stmt \in live
    /\ dirty' = dirty \cup {h.stmt}
    /\ UNCHANGED <<owner, phase, entries, size, text, live, now, hit, asked, held>>

-----------------------------------------------------------------------------
(* sqlite_cache_release_stmt: only the first current_size entries are       *)
(* searched; a statement found nowhere makes it fail                        *)

Release(t, h) ==
    /\ phase = "ready"
    /\ hit[t] = 0
    /\ h \in held[t]
    /\ LET match == {i \in 1..size : entries[i].stmt = h.stmt}
       IN  IF match # {}
           THEN /\ \E i \in match :
                     /\ IsFirst(i, match)
                     /\ entries' = [entries EXCEPT ![i].in_use = FALSE]
                /\ Reset(h.stmt)
           ELSE UNCHANGED <<entries, dirty>>
    /\ held' = [held EXCEPT ![t] = @ \ {h}]
    /\ UNCHANGED <<owner, phase, size, text, live, now, hit, asked>>

-----------------------------------------------------------------------------
(* sqlite_cache_clear, sqlite_cache_evict_lru, sqlite_cache_destroy *)

\* The statements in the slots S are finalized and the slots wiped; the first
\* form of wiping leaves the entries as they are.
KeepEntries(S) == entries' = entries
Wipe(S) ==
    entries' = [i \in Slots |-> IF i \in S THEN Blank ELSE entries[i]]

Finalize(gone) ==
    /\ live' = live \ gone
    /\ dirty' = dirty \ gone
    /\ text' = [x \in Stmts |-> IF x \in gone THEN NULL ELSE text[x]]

StmtsIn(S) == {entries[i].stmt : i \in S}

\* Entries in use stay where they are, and the size becomes 0 all the same.
Clear ==
    /\ phase = "ready"
    /\ InUseByTasks = 0 \/ (owner = NULL /\ ClearBusy)
    /\ Finalize(StmtsIn(IdleIn(1..size)))
    /\ Wipe(IdleIn(1..size))
    /\ size' = 0
    /\ UNCHANGED <<owner, phase, now, hit, asked, held>>

\* A hole left by an eviction is idle, with last_access_time 0.
EvictLru ==
    /\ phase = "ready"
    /\ \E i \in IdleIn(1..size) :
         /\ IsFirst(i, Oldest(IdleIn(1..size)))
         /\ Finalize(StmtsIn({i}))
         /\ Wipe({i})
    /\ UNCHANGED <<owner, phase, size, now, hit, asked, held>>

Destroy ==
    /\ phase = "ready"
    /\ phase' = "destroyed"
    /\ Finalize(Cached)
    /\ hit' = [t \in Tasks |-> 0]
    /\ held' = [t \in Tasks |-> {}]
    /\ UNCHANGED <<owner, entries, size, now, asked>>

-----------------------------------------------------------------------------

Next ==
    \/ Tick
    \/ \E t \in Tasks :
         \/ \E q \in Sqls : GetHit(t, q)
         \/ \E q \in Sqls : GetMiss(t, q)
         \/ GetReturn(t)
         \/ \E h \in held[t] : Step(t, h)
         \/ \E h \in held[t] : Release(t, h)
    \/ Clear
    \/ EvictLru
    \/ Destroy

Spec == Init /\ [][Next]_vars

-----------------------------------------------------------------------------
(* Properties *)

Entries == [stmt : Stmts \cup {NULL}, in_use : BOOLEAN, last : 0..MaxTick]

\* Types; current_size never exceeds the array.
TypeOK ==
    /\ owner \in Tasks \cup {NULL}
    /\ phase \in {"ready", "destroyed"}
    /\ entries \in [Slots -> Entries]
    /\ size \in 0..MaxEntries
    /\ text \in [Stmts -> Sqls \cup {NULL}]
    /\ live \subseteq Stmts
    /\ dirty \subseteq live
    /\ now \in 1..MaxTick
    /\ hit \in [Tasks -> 0..MaxEntries]
    /\ asked \in [Tasks -> Sqls \cup {NULL}]
    /\ held \in [Tasks -> SUBSET [stmt : Stmts, sql : Sqls]]

\* The cache never has a finalized statement in an entry, nor the same one in
\* two, so that whatever the callers do no operation finalizes, resets or
\* searches a statement that is gone.
EntriesAreLive ==
    phase = "ready" =>
        /\ Cached \subseteq live
        /\ \A i, j \in Slots \ EmptySlots :
             entries[i].stmt = entries[j].stmt => i = j

\* A statement got for an SQL text is one prepared from that text, is not
\* finalized while it is held, and is held by one task only.
HeldIsRight ==
    \A t \in Tasks : \A h \in held[t] :
        /\ h.stmt \in live
        /\ text[h.stmt] = h.sql
        /\ \A u \in Tasks : \A g \in held[u] :
             g.stmt = h.stmt => u = t /\ g = h

\* A task that has the cache for itself has what it asked for, whatever
\* current_size hides from the lookups meanwhile.
OwnerHoldsRight == owner # NULL => HeldIsRight

\* A statement is lent from the hit or the miss to its release.
Lent ==
    [t \in Tasks |-> {h.stmt : h \in held[t]}
                     \cup (IF hit[t] # 0 THEN {entries[hit[t]].stmt} ELSE {})]

Lease == INSTANCE ExclusiveLease
           WITH Objects <- Stmts,
                open <- IF owner = NULL THEN {} ELSE live,
                lent <- IF owner = NULL THEN [t \in Tasks |-> {}] ELSE Lent,
                dirty <- IF owner = NULL THEN {} ELSE dirty

\* Every behaviour of a cache that one task has for itself is a behaviour of
\* the leases: what it gets is live and reset, and not closed while it has it.
ImplementsLease == Lease!LeaseSpec

\* The comment in sqlite_cache_destroy: "Finalize all statements".  The cache
\* is gone, and with it every statement it ever prepared.
DestroyFinalizesAll == phase = "destroyed" => live = {}
=============================================================================
