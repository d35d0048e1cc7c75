--------------------------- MODULE ConnectionPool ---------------------------
(***************************************************************************)
(* The connection pool of src/src/sqlite_pool.c: sqlite_pool_create,       *)
(* _acquire, _release, _shrink and _destroy, run by several FreeRTOS tasks.*)
(* A slot of pool->connections is a number, a sqlite3* is a member of      *)
(* Handles (an address: once freed it may be handed out again by a later   *)
(* open).  The counting semaphore available_sem is a number of tokens.     *)
(* What pool->mutex protects is one atomic step; the semaphore is taken    *)
(* before the mutex and given after it, so those are steps of their own.   *)
(***************************************************************************)
EXTENDS Naturals, FiniteSets

CONSTANTS
    Tasks,       \* the tasks that call the pool
    Patient,     \* tasks whose timeout_ms outlasts every wait
    Handles,     \* addresses a sqlite3 object can have
    NULL,
    MinConn,     \* config.min_connections
    MaxConn,     \* config.max_connections
    HoldLimit,   \* connections one task holds at a time
    OpenFaults   \* the ways an open may fail, a subset of FaultKinds

(***************************************************************************)
(* How sqlite3_open and sqlite_micro_open fail: the storage does not mount *)
(* or the object is not allocated and *ppDb stays NULL; sqlite_micro_open  *)
(* closes the object and leaves *ppDb pointing at it; plain sqlite3_open   *)
(* leaves an error object that is still to be closed.                      *)
(***************************************************************************)
FaultKinds == {"no_handle", "closed_handle", "open_handle"}

ASSUME SizesAssumption ==
    /\ MinConn \in Nat
    /\ MaxConn \in Nat \ {0}
    /\ MinConn <= MaxConn
    /\ HoldLimit \in Nat

ASSUME SetsAssumption ==
    /\ IsFiniteSet(Tasks)
    /\ Patient \subseteq Tasks
    /\ NULL \notin Handles
    /\ OpenFaults \subseteq FaultKinds

VARIABLES
    phase,    \* "create", "ready" or "destroyed"
    cursor,   \* slots the loop of sqlite_pool_create has tried
    db,       \* connections[i].db
    in_use,   \* the slots whose in_use flag is set
    num,      \* num_connections
    sem,      \* tokens of available_sem
    stats,    \* the gauges of sqlite_pool_stats_t
    live,     \* the allocated sqlite3 objects
    dirty,    \* the connections with an open transaction
    pc,       \* where each task is in a call of the pool
    held      \* the handles acquire returned that a task has not released

vars == <<phase, cursor, db, in_use, num, sem, stats, live, dirty, pc, held>>

-----------------------------------------------------------------------------

Slots == 1..MaxConn
OpenSlots == {i \in Slots : db[i] # NULL}
EmptySlots == Slots \ OpenSlots
IdleSlots == OpenSlots \ in_use
\* The connections sqlite_pool_destroy closes: every slot, holes skipped.  The
\* first form stops at num_connections and forgets that there can be holes.
CountedHandles == {db[i] : i \in 1..num} \ {NULL}
PooledHandles == {db[i] : i \in Slots} \ {NULL}

At(label) == {t \in Tasks : pc[t] = label}

\* The slot at which a scan of the array from index 0 stops.
IsFirst(i, S) == i \in S /\ \A j \in S : i <= j

Goto(t, label) == pc' = [pc EXCEPT ![t] = label]
\* acquire returns h to t; NULL is nothing to hold.
Hand(t, h) == held' = [held EXCEPT ![t] = @ \cup ({h} \ {NULL})]
Drop(t, h) == held' = [held EXCEPT ![t] = @ \ {h}]

-----------------------------------------------------------------------------
(* Opening a connection *)

OpenSucceeds(h) ==
    /\ h \in Handles \ live
    /\ live' = live \cup {h}

\* *ppDb is h after the failure.
OpenFails(h) ==
    \/ /\ "no_handle" \in OpenFaults \/ live = Handles
       /\ h = NULL
       /\ live' = live
    \/ /\ "closed_handle" \in OpenFaults
       /\ h \in Handles \ live
       /\ live' = live
    \/ /\ "open_handle" \in OpenFaults
       /\ h \in Handles \ live
       /\ live' = live \cup {h}

-----------------------------------------------------------------------------
(* sqlite_pool_create *)

\* The initial count of available_sem; the other form is its maximum count.
MaximumTokens == MaxConn
InitialTokens == MinConn

Init ==
    /\ phase = "create"
    /\ cursor = 0
    /\ db = [i \in Slots |-> NULL]
    /\ in_use = {}
    /\ num = 0
    /\ sem = InitialTokens
    /\ stats = [total |-> 0, active |-> 0, idle |-> 0, peak |-> 0]
    /\ live = {}
    /\ dirty = {}
    /\ pc = [t \in Tasks |-> "out"]
    /\ held = [t \in Tasks |-> {}]

\* One turn of the loop over min_connections: a failed open is skipped with
\* `continue` and leaves a hole, and the token for it stays in the semaphore.
CreateSlot ==
    /\ phase = "create"
    /\ cursor < MinConn
    /\ cursor' = cursor + 1
    /\ \/ \E h \in Handles :
            /\ OpenSucceeds(h)
            /\ db' = [db EXCEPT ![cursor + 1] = h]
            /\ num' = num + 1
       \/ /\ \E h \in Handles \cup {NULL} : OpenFails(h)
          /\ UNCHANGED <<db, num>>
    /\ UNCHANGED <<phase, in_use, sem, stats, dirty, pc, held>>

\* The pool is returned to the application.
CreateReturn ==
    /\ phase = "create"
    /\ cursor = MinConn
    /\ phase' = "ready"
    /\ stats' = [stats EXCEPT !.total = num, !.idle = num]
    /\ UNCHANGED <<cursor, db, in_use, num, sem, live, dirty, pc, held>>

-----------------------------------------------------------------------------
(* sqlite_pool_acquire *)

AcquireCall(t) ==
    /\ phase = "ready"
    /\ pc[t] = "out"
    /\ Cardinality(held[t]) < HoldLimit
    /\ Goto(t, "waiting")
    /\ UNCHANGED <<phase, cursor, db, in_use, num, sem, stats, live, dirty,
                   held>>

TakeToken(t) ==
    /\ pc[t] = "waiting"
    /\ sem > 0
    /\ sem' = sem - 1
    /\ Goto(t, "granted")
    /\ UNCHANGED <<phase, cursor, db, in_use, num, stats, live, dirty, held>>

\* The timeout runs out and there is still no token: acquire returns NULL.
TimeOut(t) ==
    /\ pc[t] = "waiting"
    /\ t \notin Patient
    /\ sem = 0
    /\ Goto(t, "out")
    /\ UNCHANGED <<phase, cursor, db, in_use, num, sem, stats, live, dirty,
                   held>>

AcquireIdle(t) ==
    /\ pc[t] = "granted"
    /\ \E i \in IdleSlots :
         /\ IsFirst(i, IdleSlots)
         /\ in_use' = in_use \cup {i}
         /\ Hand(t, db[i])
    /\ stats' = [stats EXCEPT !.active = @ + 1,
                              !.idle = @ - 1,
                              !.peak = IF stats.active + 1 > @
                                       THEN stats.active + 1 ELSE @]
    /\ Goto(t, "out")
    /\ UNCHANGED <<phase, cursor, db, num, sem, live, dirty>>

\* No idle connection: open one in the first empty slot.  The peak is left
\* alone, and whatever a failed open left in the variable db is returned.
AcquireMiss(t) ==
    /\ pc[t] = "granted"
    /\ IdleSlots = {}
    /\ Goto(t, "out")
    /\ IF num < MaxConn /\ EmptySlots # {}
       THEN \/ \E i \in EmptySlots, h \in Handles :
                 /\ IsFirst(i, EmptySlots)
                 /\ OpenSucceeds(h)
                 /\ db' = [db EXCEPT ![i] = h]
                 /\ in_use' = in_use \cup {i}
                 /\ num' = num + 1
                 /\ stats' = [stats EXCEPT !.total = @ + 1, !.active = @ + 1]
                 /\ Hand(t, h)
            \/ /\ \E h \in Handles \cup {NULL} : OpenFails(h) /\ Hand(t, h)
               /\ UNCHANGED <<db, in_use, num, stats>>
       ELSE UNCHANGED <<db, in_use, num, stats, live, held>>
    /\ UNCHANGED <<phase, cursor, sem, dirty>>

-----------------------------------------------------------------------------
(* A task begins a transaction on a connection it holds, outside the pool *)

Begin(t, h) ==
    /\ phase = "ready"
    /\ pc[t] = "out"
    /\ h \in held[t] \cap live
    /\ dirty' = dirty \cup {h}
    /\ UNCHANGED <<phase, cursor, db, in_use, num, sem, stats, live, pc, held>>

-----------------------------------------------------------------------------
(* sqlite_pool_release *)

\* The slots release looks for; the first form forgets to test in_use.
SlotsHolding(h) == {i \in Slots : db[i] = h}
Matching(h) == {i \in in_use : db[i] = h}

\* Reset connection state: the connection's transaction is rolled back.
KeepTransaction(h) == dirty' = dirty
Rollback(h) == dirty' = dirty \ {h}

\* The first matching slot is freed; an address in no slot is an error.
Release(t, h) ==
    /\ phase = "ready"
    /\ pc[t] = "out"
    /\ h \in held[t]
    /\ IF Matching(h) # {}
       THEN /\ \E i \in Matching(h) : /\ IsFirst(i, Matching(h))
                                      /\ in_use' = in_use \ {i}
            /\ stats' = [stats EXCEPT !.active = @ - 1, !.idle = @ + 1]
            /\ Rollback(h)
            /\ Goto(t, "returning")
       ELSE UNCHANGED <<in_use, stats, dirty, pc>>
    /\ Drop(t, h)
    /\ UNCHANGED <<phase, cursor, db, num, sem, live>>

\* Release that returns without giving the token back.
KeepToken(t) ==
    /\ pc[t] = "returning"
    /\ Goto(t, "out")
    /\ UNCHANGED <<phase, cursor, db, in_use, num, sem, stats, live, dirty,
                   held>>

\* xSemaphoreGive after the mutex is given back; it fails at the maximum count.
GiveToken(t) ==
    /\ pc[t] = "returning"
    /\ sem' = IF sem < MaxConn THEN sem + 1 ELSE sem
    /\ Goto(t, "out")
    /\ UNCHANGED <<phase, cursor, db, in_use, num, stats, live, dirty, held>>

-----------------------------------------------------------------------------
(* sqlite_pool_shrink and sqlite_pool_destroy *)

\* Of the slots idle for too long, those the scan reaches while more than
\* min_connections connections are left; in the first form, as many.
DoomedAtMinimum(old) ==
    {i \in old : num - Cardinality({j \in old : j < i}) >= MinConn}
Doomed(old) ==
    {i \in old : num - Cardinality({j \in old : j < i}) > MinConn}

Shrink ==
    /\ phase = "ready"
    /\ \E old \in SUBSET IdleSlots :
         /\ db' = [i \in Slots |-> IF i \in Doomed(old) THEN NULL ELSE db[i]]
         /\ num' = num - Cardinality(Doomed(old))
         /\ stats' = [stats EXCEPT !.idle = @ - Cardinality(Doomed(old))]
         /\ live' = live \ {db[i] : i \in Doomed(old)}
         /\ dirty' = dirty \ {db[i] : i \in Doomed(old)}
    /\ UNCHANGED <<phase, cursor, in_use, sem, pc, held>>

\* The documented shutdown deletes the tasks, wherever they are, before it
\* calls sqlite_pool_destroy, which takes no lock and closes every slot.
Destroy ==
    /\ phase = "ready"
    /\ phase' = "destroyed"
    /\ live' = live \ PooledHandles
    /\ dirty' = dirty \ PooledHandles
    /\ pc' = [t \in Tasks |-> "deleted"]
    /\ held' = [t \in Tasks |-> {}]
    /\ UNCHANGED <<cursor, db, in_use, num, sem, stats>>

-----------------------------------------------------------------------------

Next ==
    \/ CreateSlot
    \/ CreateReturn
    \/ \E t \in Tasks :
         \/ AcquireCall(t)
         \/ TakeToken(t)
         \/ TimeOut(t)
         \/ AcquireIdle(t)
         \/ AcquireMiss(t)
         \/ \E h \in held[t] : Begin(t, h)
         \/ \E h \in held[t] : Release(t, h)
         \/ GiveToken(t)
    \/ Shrink
    \/ Destroy

Spec == Init /\ [][Next]_vars

\* Every task that is scheduled goes on with its call, and returns what it
\* acquired (FREERTOS.md: "Sempre release"); the semaphore wakes a waiter when
\* there is a token, though another task may take the token before it runs.
Fairness ==
    /\ WF_vars(CreateSlot)
    /\ WF_vars(CreateReturn)
    /\ \A t \in Tasks :
         /\ WF_vars(TakeToken(t))
         /\ WF_vars(AcquireIdle(t) \/ AcquireMiss(t))
         /\ WF_vars(\E h \in held[t] : Release(t, h))
         /\ WF_vars(GiveToken(t))

FairSpec == Spec /\ Fairness

-----------------------------------------------------------------------------
(* Properties *)

\* Types: every gauge is a natural number, so none has wrapped below zero.
TypeOK ==
    /\ phase \in {"create", "ready", "destroyed"}
    /\ cursor \in 0..MinConn
    /\ db \in [Slots -> Handles \cup {NULL}]
    /\ in_use \subseteq Slots
    /\ num \in 0..MaxConn
    /\ sem \in 0..MaxConn
    /\ stats \in [total : Nat, active : Nat, idle : Nat, peak : Nat]
    /\ live \subseteq Handles
    /\ dirty \subseteq Handles
    /\ pc \in [Tasks -> {"out", "waiting", "granted", "returning", "deleted"}]
    /\ held \in [Tasks -> SUBSET Handles]

\* What each phase of the pool's life means for the calls: none before create
\* returns, none after the tasks are deleted.
PhaseMatchesCalls ==
    /\ phase = "create" => /\ pc = [t \in Tasks |-> "out"]
                           /\ in_use = {}
                           /\ sem = MinConn
                           /\ OpenSlots \subseteq 1..cursor
    /\ phase = "ready" => At("deleted") = {}
    /\ phase = "destroyed" => pc = [t \in Tasks |-> "deleted"]

\* Connections promised: tokens in the semaphore, tokens on their way through
\* acquire and release, and connections lent.
Promised ==
    sem + Cardinality(At("granted")) + Cardinality(in_use)
        + Cardinality(At("returning"))

\* However the semaphore, the in_use flags and the calls in progress
\* interleave, and whatever opens fail, there are never more promises than
\* min_connections and never fewer than connections: no connection is left
\* that no token can reach.
TokensMatchConnections ==
    phase # "destroyed" => /\ num <= Promised
                           /\ Promised <= MinConn

\* So acquire's open path only refills the holes create left: the pool never
\* has more than min_connections connections, whatever max_connections is.
NeverAboveMinimum == num <= MinConn

\* A task that times out while no other call is in progress finds every open
\* connection lent, even after opens have failed and tokens have been lost.
TimeOutMeansBusy ==
    [][\A t \in Tasks :
         /\ TimeOut(t)
         /\ At("granted") \cup At("returning") = {}
         => OpenSlots \subseteq in_use]_vars

\* The gauges sqlite_pool_get_stats copies agree with the slots: connections
\* opened and in use; the idle ones are the rest.
StatsMatchSlots ==
    phase = "ready" =>
        /\ stats.total = num
        /\ stats.active = Cardinality(in_use)
        /\ stats.idle + stats.active = num
        /\ num = Cardinality(OpenSlots)

\* The inductive invariant behind these: the array, its counter, the flags and
\* the semaphore agree between any two critical sections, whatever opens fail.
SlotsMatchCounters ==
    /\ in_use \subseteq OpenSlots
    /\ num = Cardinality(OpenSlots)
    /\ phase = "create" => stats.active = 0 /\ stats.idle = 0

PoolInv ==
    /\ TypeOK
    /\ PhaseMatchesCalls
    /\ SlotsMatchCounters
    /\ TokensMatchConnections
    /\ NeverAboveMinimum
    /\ StatsMatchSlots

\* What a task holds is an open connection of the pool, in a slot in use, and
\* no two tasks hold the same one.
HeldIsPooled ==
    \A t \in Tasks : \A h \in held[t] :
        /\ h \in live
        /\ \E i \in in_use : db[i] = h
        /\ \A u \in Tasks \ {t} : h \notin held[u]

\* A connection waiting in the pool carries no transaction of its last holder.
CleanHandover == \A i \in IdleSlots : db[i] \notin dirty

\* Tasks that each hold connections and wait for one more block each other only
\* when together they can hold all that are open: in a pool with more than that
\* there is always a token, one on its way, or a task that holds a connection
\* and does not wait, whatever opens failed.
NeverAllWait ==
    phase = "ready" /\ num > 0 /\ num > Cardinality(Tasks) * (HoldLimit - 1) =>
        \/ sem > 0
        \/ At("granted") \cup At("returning") # {}
        \/ \E t \in Tasks : pc[t] = "out" /\ held[t] # {}

\* sqlite_pool_destroy leaves no connection open, holes in the array or not.
DestroyClosesAll == phase = "destroyed" => live = {}

\* As long as the pool has a connection, waiting tasks are served: some task gets
\* a token, again and again, whatever opens failed.  (Which task is up to the
\* scheduler; that each holds one connection at a time excludes a deadlock.)
KeepsServing ==
    \A t \in Patient :
        pc[t] = "waiting" /\ num > 0
            ~> (At("granted") # {} \/ phase = "destroyed")

\* The pool implements the leases it promises: its objects are the open
\* connections, and a lease is what acquire has returned.
Lease == INSTANCE ExclusiveLease
           WITH Objects <- Handles, open <- live, lent <- held

\* What acquire returns is lent to nobody else, is open and clean, and stays
\* open until it is released or the pool destroyed.
ImplementsLease == Lease!LeaseSpec
=============================================================================
