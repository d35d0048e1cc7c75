-------------------------- MODULE PoolAsyncProofs ---------------------------
(***************************************************************************)
(* Pool and executor together, for any number of tasks, loans, connections *)
(* and places in the queue: requests outlive their loans but not their     *)
(* connections, whatever the scripts; and when these are made of single    *)
(* inserts and of batches, loans without a failed statement do not mix in  *)
(* a transaction, and such batches are saved whole or not at all, however  *)
(* many statements of other loans fail (MaxFaulty is of no account).       *)
(***************************************************************************)
EXTENDS PoolAsync, FiniteSetTheorems, TLAPS

\* The pool under the executor, and what is proved about it.  Transactions are
\* begun by the worker, at any time, and so are left out of it.
P == INSTANCE PoolLeaseProofs WITH dirty <- {}

\* A task works on one connection at a time, as in the examples; a failed open
\* leaves no handle.
OneLoanEach == P!NoHandleLeft /\ HoldLimit = 1

\* A script is a batch, from BEGIN to COMMIT, or has neither.
ScriptsAreBatches ==
    \A s \in Scripts : \A i \in 1..Len(s) :
        /\ s[i] = "BEGIN" => i = 1 /\ s[Len(s)] = "COMMIT"
        /\ s[i] = "COMMIT" => i = Len(s) /\ s[1] = "BEGIN"

Requests == [loan : 1..MaxLoans, at : Nat, db : Handles]

\* The requests as the worker will execute them.
Line == busy \o queue
Places == 1..Len(Line)

\* The task has not submitted all statements of loan n, and it has h.
StillAt(t, n) == Lent(t) /\ loan[t] = n /\ step[t] < Len(script[n])

AsyncTypes ==
    /\ exec \in {"up", "draining", "down"}
    /\ loans \in 0..MaxLoans
    /\ loan \in [Tasks -> 0..loans]
    /\ script \in [0..MaxLoans -> Seq(Statements)]
    /\ \A n \in 1..loans : script[n] \in Scripts
    /\ step \in [Tasks -> Nat]
    /\ queue \in Seq(Requests)
    /\ busy \in Seq(Requests) /\ Len(busy) <= 1
    /\ dirty \subseteq live
    /\ txn \in [Handles -> SUBSET ((1..loans) \X Nat)]
    /\ saved \subseteq (1..loans) \X Nat
    /\ failed \subseteq 1..loans
    /\ cut \subseteq 1..loans

\* What a task has of a loan.
TasksOK ==
    /\ \A t \in Tasks : pc[t] \in {"waiting", "granted"} => ~Lent(t)
    /\ \A t \in Tasks : \A g, h \in held[t] : g = h
    /\ \A t \in Tasks : Lent(t) => /\ loan[t] # 0
                                   /\ step[t] <= Len(script[loan[t]])
    /\ \A t, u \in Tasks : Lent(t) /\ Lent(u) /\ loan[t] = loan[u] => t = u

\* Requests are of known loans on open connections, until the shutdown.
RequestsOK ==
    /\ \A i \in Places : /\ Line[i].loan <= loans
                         /\ Line[i].at \in 1..Len(script[Line[i].loan])
                         /\ Line[i].db \in live
    /\ exec = "down" => Line = <<>>
    /\ phase = "destroyed" => exec = "down"

\* The requests on one connection are those of one loan after the other, in
\* the order of their scripts.
OrderOK ==
    /\ \A i, j \in Places : i < j /\ Line[i].db = Line[j].db =>
         \/ Line[i].loan < Line[j].loan
         \/ Line[i].loan = Line[j].loan /\ Line[i].at < Line[j].at
    /\ \A i, j \in Places : Line[i].loan = Line[j].loan => Line[i].db = Line[j].db
    /\ \A t \in Tasks, i \in Places :
         Line[i].db \in held[t] => Line[i].loan <= loan[t]
    /\ \A t \in Tasks, i \in Places : Lent(t) /\ Line[i].loan = loan[t] =>
         Line[i].at <= step[t] /\ Line[i].db \in held[t]

\* A transaction has statements, and no transaction has none.
TxnsOK ==
    /\ \A h \in Handles : h \in dirty <=> txn[h] # {}

\* The last statement of loan n is queued on h, or still to be submitted.
LastAhead(n, h) ==
    \/ \E k \in Places : /\ Line[k].loan = n /\ Line[k].db = h
                         /\ Line[k].at = Len(script[n])
    \/ \E t \in Tasks : StillAt(t, n) /\ h \in held[t]

\* When nothing was refused or dropped, a request's loan will be completed, ...
ScriptsComplete ==
    exec # "down" =>
        \A i \in Places : LastAhead(Line[i].loan, Line[i].db)

\* A batch that nothing befell.
IsBatch(n) == script[n] # <<>> /\ script[n][1] = "BEGIN"
Sound(n) == IsBatch(n) /\ n \notin cut \cup failed

\* ... and an open transaction was begun by a loan which, if none of its
\* statements failed, is alone in it and has its COMMIT ahead, before any request
\* of a later loan.  After a failure the COMMIT may be gone, and the statements of
\* later loans follow; but no batch that nothing befell is among them.
OneLoan(h, n) == \A r \in txn[h] : r[1] = n
TxnOf(h, n) ==
    /\ OneLoan(h, n)
    /\ exec # "down" =>
         /\ script[n] # <<>> /\ script[n][Len(script[n])] = "COMMIT"
         /\ LastAhead(n, h)
         /\ \A i \in Places : Line[i].db = h => Line[i].loan >= n
BegunBy(h, n) == <<n, 1>> \in txn[h] /\ (n \notin failed => TxnOf(h, n))
TxnsFollow ==
    \A h \in dirty : /\ \E n \in 1..loans : BegunBy(h, n)
                     /\ \A r \in txn[h] : Sound(r[1]) => OneLoan(h, r[1])

\* Statement i of loan n was executed.
Ahead(n, i) ==
    \/ \E k \in Places : Line[k].loan = n /\ Line[k].at = i
    \/ \E t \in Tasks : Lent(t) /\ loan[t] = n /\ step[t] < i
Done(n, i) == i \in 1..Len(script[n]) /\ ~Ahead(n, i)

\* A sound batch: what is done of it is in one transaction, until all is saved.
BatchOK(n) ==
    /\ \A i \in 1..Len(script[n]), j \in 1..Len(script[n]) :
         i < j /\ Done(n, j) => Done(n, i)
    /\ \A h \in Handles : \A i \in Nat : <<n, i>> \in txn[h] => Done(n, i)
    /\ \A i \in Nat : <<n, i>> \in saved => Done(n, i)
    /\ Sound(n) =>
         IF Done(n, Len(script[n]))
         THEN Inserts(n) \subseteq saved
         ELSE /\ \A i \in Nat : <<n, i>> \notin saved
              /\ Done(n, 1) =>
                   \E h \in dirty : \A i \in Nat : Done(n, i) => <<n, i>> \in txn[h]
BatchesFollow == exec # "down" => \A n \in 1..loans : BatchOK(n)

AsyncInv ==
    /\ AsyncTypes
    /\ TasksOK
    /\ RequestsOK
    /\ OrderOK
    /\ TxnsOK
    /\ DirtyOnlyIfLate
    /\ ScriptsAreBatches /\ ~rejected /\ ~exhausted =>
         /\ ScriptsComplete
         /\ TxnsFollow
         /\ BatchesFollow
         /\ BatchesAreWhole

-----------------------------------------------------------------------------
(* The pool *)

\* What P says of the pool is said of the same pool.
LEMMA PoolAssumptions == P!SizesAssumption /\ P!SetsAssumption
BY SizesAssumption, SetsAssumption
DEF P!SizesAssumption, P!SetsAssumption, P!IsFiniteSet, IsFiniteSet,
    P!FaultKinds, FaultKinds

LEMMA SameCount == \A S : P!Cardinality(S) = Cardinality(S)
BY DEF P!Cardinality, Cardinality

LEMMA SameSlots ==
    /\ P!Slots = Slots
    /\ P!OpenSlots = OpenSlots
    /\ P!EmptySlots = EmptySlots
    /\ P!IdleSlots = IdleSlots
    /\ P!PooledHandles = PooledHandles
    /\ \A h : P!Matching(h) = Matching(h)
    /\ \A i, S : P!IsFirst(i, S) <=> IsFirst(i, S)
    /\ \A old : P!Doomed(old) = Doomed(old)
BY SameCount
DEF P!Slots, Slots, P!OpenSlots, OpenSlots, P!EmptySlots, EmptySlots,
    P!IdleSlots, IdleSlots, P!PooledHandles, PooledHandles, P!Matching,
    Matching, P!IsFirst, IsFirst, P!Doomed, Doomed

LEMMA SameInit == Init => P!Init
BY DEF Init, P!Init, P!Slots, Slots, InitialTokens, P!InitialTokens

\* So do its steps, but for the transactions.
LEMMA SameCreate ==
    /\ CreateSlot => P!CreateSlot
    /\ CreateReturn => P!CreateReturn
BY DEF CreateSlot, P!CreateSlot, OpenSucceeds, P!OpenSucceeds, OpenFails,
   P!OpenFails, CreateReturn, P!CreateReturn

LEMMA SameCalls ==
    ASSUME NEW t \in Tasks
    PROVE  /\ AcquireCall(t) => P!AcquireCall(t)
           /\ TakeToken(t) => P!TakeToken(t)
           /\ TimeOut(t) => P!TimeOut(t)
           /\ GiveToken(t) => P!GiveToken(t)
BY SameCount
DEF AcquireCall, P!AcquireCall, TakeToken, P!TakeToken, TimeOut, P!TimeOut,
    GiveToken, P!GiveToken, Goto, P!Goto

LEMMA SameAcquire ==
    ASSUME NEW t \in Tasks
    PROVE  /\ AcquireIdle(t) => P!AcquireIdle(t)
           /\ AcquireMiss(t) => P!AcquireMiss(t)
<1>1. AcquireIdle(t) => P!AcquireIdle(t)
  BY SameSlots DEF AcquireIdle, P!AcquireIdle, Goto, P!Goto, Hand, P!Hand
<1>2. AcquireMiss(t) => P!AcquireMiss(t)
  BY SameSlots
  DEF AcquireMiss, P!AcquireMiss, Goto, P!Goto, Hand, P!Hand, OpenSucceeds,
      P!OpenSucceeds, OpenFails, P!OpenFails
<1> QED
  BY <1>1, <1>2

LEMMA SameRelease ==
    ASSUME NEW t \in Tasks, NEW h \in held[t], Release(t, h)
    PROVE  P!Release(t, h)
BY SameSlots
DEF Release, P!Release, Goto, P!Goto, Drop, P!Drop, Rollback, P!Rollback

LEMMA SameShrink == Shrink => P!Shrink
<1> SUFFICES ASSUME Shrink PROVE P!Shrink
  OBVIOUS
<1>1. PICK old \in SUBSET IdleSlots :
        /\ db' = [i \in Slots |-> IF i \in Doomed(old) THEN NULL ELSE db[i]]
        /\ num' = num - Cardinality(Doomed(old))
        /\ stats' = [stats EXCEPT !.idle = @ - Cardinality(Doomed(old))]
        /\ live' = live \ {db[i] : i \in Doomed(old)}
  BY DEF Shrink
<1>2. P!Doomed(old) = Doomed(old) /\ old \in SUBSET P!IdleSlots
  BY SameSlots
<1>3. /\ db' = [i \in P!Slots |-> IF i \in P!Doomed(old) THEN NULL ELSE db[i]]
      /\ num' = num - P!Cardinality(P!Doomed(old))
      /\ stats' = [stats EXCEPT !.idle = @ - P!Cardinality(P!Doomed(old))]
      /\ live' = live \ {db[i] : i \in P!Doomed(old)}
  BY <1>1, <1>2, SameSlots, SameCount
<1>4. /\ phase = "ready"
      /\ UNCHANGED <<phase, cursor, in_use, sem, pc, held>>
  BY DEF Shrink
<1> QED
  BY <1>2, <1>3, <1>4 DEF P!Shrink

LEMMA SameDestroy == Destroy => P!Destroy
BY SameSlots DEF Destroy, P!Destroy

\* Every step of the composition is a step of the pool or none of its.
LEMMA PoolStep ==
    ASSUME [PoolAsyncNext]_allVars
    PROVE  [P!Next]_(P!vars)
<1>1. CASE CreateSlot \/ CreateReturn
  BY <1>1, SameCreate DEF P!Next
<1>2. CASE Shrink
  BY <1>2, SameShrink DEF P!Next
<1>3. ASSUME NEW t \in Tasks, PoolCall(t) \/ Borrow(t)
      PROVE  P!Next
  BY <1>3, SameCalls, SameAcquire DEF PoolCall, Borrow, P!Next
<1>4. ASSUME NEW t \in Tasks, Return(t) PROVE P!Next
  <2>1. PICK h \in held[t] : Release(t, h)
    BY <1>4 DEF Return
  <2> QED
    BY <2>1, SameRelease DEF P!Next
<1>5. CASE PoolDestroy
  BY <1>5, SameDestroy DEF PoolDestroy, P!Next
<1>6. ASSUME \/ \E t \in Tasks : Submit(t)
             \/ Take \/ Exhaust \/ DropRequest \/ DeleteTasks \/ AsyncShutdown
             \/ UNCHANGED allVars
      PROVE  UNCHANGED P!vars
  BY <1>6 DEF Submit, Take, Exhaust, DropRequest, DeleteTasks, AsyncShutdown,
     allVars, vars, P!vars
<1>7. CASE Execute
  BY <1>7 DEF Execute, P!vars
<1> QED
  BY <1>1, <1>2, <1>3, <1>4, <1>5, <1>6, <1>7 DEF PoolAsyncNext

\* Under the executor the pool is the one of ConnectionPool, whatever requests
\* are still queued on its connections.
THEOREM PoolUnderneath == PoolAsyncSpec => P!Spec
<1>1. PoolAsyncInit => P!Init
  BY SameInit DEF PoolAsyncInit
<1> QED
  BY <1>1, PoolStep, PTL DEF PoolAsyncSpec, P!Spec

\* What is proved of it.
PoolOK == P!PoolInv /\ P!LeaseInv

LEMMA PoolIsOK == ASSUME OneLoanEach PROVE PoolAsyncSpec => []PoolOK
<1>1. P!NoHandleLeft
  BY DEF OneLoanEach
<1>2. P!Spec => []P!PoolInv
  BY PoolAssumptions, P!PoolInvariant
<1>3. P!Spec => []P!LeaseInv
  BY <1>1, PoolAssumptions, P!LeaseInvariant
<1> QED
  BY <1>2, <1>3, PoolUnderneath, PTL DEF PoolOK

\* Its parts, in the names of this module.
LEMMA PoolFacts ==
    ASSUME PoolOK
    PROVE  /\ phase \in {"create", "ready", "destroyed"}
           /\ cursor \in 0..MinConn
           /\ db \in [Slots -> Handles \cup {NULL}]
           /\ in_use \subseteq OpenSlots
           /\ live \subseteq Handles
           /\ pc \in [Tasks -> {"out", "waiting", "granted", "returning", "deleted"}]
           /\ held \in [Tasks -> SUBSET Handles]
           /\ HeldIsPooled
           /\ phase # "destroyed" =>
                /\ PooledHandles = live
                /\ \A i, j \in OpenSlots : db[i] = db[j] => i = j
           /\ phase = "create" => in_use = {} /\ OpenSlots \subseteq 1..cursor
           /\ phase = "destroyed" => \A t \in Tasks : pc[t] = "deleted"
           /\ phase = "destroyed" => live = {}
<1>1. P!TypeOK /\ P!PhaseMatchesCalls /\ P!SlotsMatchCounters
  BY DEF PoolOK, P!PoolInv
<1>2. P!HeldIsPooled /\ P!SlotsAreLive /\ P!DestroyClosesAll
  BY DEF PoolOK, P!LeaseInv
<1>3. HeldIsPooled
  BY <1>2 DEF P!HeldIsPooled, HeldIsPooled
<1> QED
  BY <1>1, <1>2, <1>3, SameSlots
  DEF P!TypeOK, P!PhaseMatchesCalls, P!SlotsMatchCounters, P!SlotsAreLive,
      P!DestroyClosesAll

\* The connection of an idle slot is open and nobody's.
LEMMA IdleIsFree ==
    ASSUME PoolOK, phase # "destroyed", NEW i \in IdleSlots
    PROVE  /\ i \in Slots /\ i \in OpenSlots /\ db[i] \in live
           /\ \A t \in Tasks : db[i] \notin held[t]
<1>1. i \in OpenSlots /\ i \notin in_use /\ i \in Slots /\ db[i] # NULL
  BY DEF IdleSlots, OpenSlots
<1>2. db[i] \in live
  BY <1>1, PoolFacts DEF PooledHandles
<1>3. \A j \in in_use : db[j] # db[i]
  BY <1>1, PoolFacts
<1> QED
  BY <1>1, <1>2, <1>3, PoolFacts DEF HeldIsPooled

\* What acquire does to the loans: nothing, or it lends a connection that
\* nobody has.
LEMMA BorrowEffect ==
    ASSUME OneLoanEach, PoolOK, NEW t \in Tasks, Borrow(t)
    PROVE  /\ phase = "ready" /\ phase' = "ready" /\ dirty' = dirty
           /\ pc[t] = "granted" /\ pc' = [pc EXCEPT ![t] = "out"]
           /\ \/ UNCHANGED <<live, held>>
              \/ \E h \in Handles :
                   /\ \A u \in Tasks : h \notin held[u]
                   /\ held' = [held EXCEPT ![t] = @ \cup {h}]
                   /\ live' = live \cup {h}
           /\ \A i \in IdleSlots' : i \in IdleSlots /\ db'[i] = db[i]
<1> USE DEF PoolOK
<1>1. /\ pc[t] = "granted" /\ pc' = [pc EXCEPT ![t] = "out"]
      /\ dirty' = dirty /\ phase' = phase
  BY DEF Borrow, AcquireIdle, AcquireMiss, Goto
<1>2. phase = "ready"
  BY <1>1, PoolFacts DEF P!PoolInv, P!PhaseMatchesCalls
<1>3. CASE AcquireIdle(t)
  <2>1. P!AcquireIdle(t)
    BY <1>3, SameAcquire
  <2>2. /\ UNCHANGED live
        /\ \E h \in live \ {} :
                /\ \A u \in Tasks : h \notin held[u]
                /\ held' = [held EXCEPT ![t] = @ \cup {h}]
    BY <2>1, PoolAssumptions, P!AcquireIdleLease
  <2>3. \E h \in Handles :
                   /\ \A u \in Tasks : h \notin held[u]
                   /\ held' = [held EXCEPT ![t] = @ \cup {h}]
                   /\ live' = live \cup {h}
    <3>1. PICK h \in live : /\ \A u \in Tasks : h \notin held[u]
                            /\ held' = [held EXCEPT ![t] = @ \cup {h}]
      BY <2>2
    <3>2. h \in Handles /\ live' = live \cup {h}
      BY <2>2, PoolFacts
    <3> QED
      BY <3>1, <3>2
  <2>4. /\ db' = db /\ in_use \subseteq in_use'
    BY <1>3 DEF AcquireIdle
  <2>5. \A i \in IdleSlots' : i \in IdleSlots /\ db'[i] = db[i]
    BY <2>4 DEF IdleSlots, OpenSlots, Slots
  <2> QED
    BY <1>1, <1>2, <2>3, <2>5
<1>4. CASE AcquireMiss(t)
  <2>1. P!AcquireMiss(t)
    BY <1>4, SameAcquire
  <2>2. \/ UNCHANGED <<live, held>>
        \/ \E h \in Handles \ live :
             /\ live' = live \cup {h}
             /\ held' = [held EXCEPT ![t] = @ \cup {h}]
    BY <2>1, PoolAssumptions, P!AcquireMissLease DEF OneLoanEach
  <2>3. \A h \in Handles \ live : \A u \in Tasks : h \notin held[u]
    BY PoolFacts DEF HeldIsPooled
  <2>4. IdleSlots = {}
    BY <1>4 DEF AcquireMiss
  <2>5. \/ UNCHANGED <<db, in_use>>
        \/ \E i \in EmptySlots, h \in Handles :
             db' = [db EXCEPT ![i] = h] /\ in_use' = in_use \cup {i}
    BY <1>4 DEF AcquireMiss
  <2>6. IdleSlots' = {}
    BY <2>4, <2>5, PoolFacts DEF IdleSlots, OpenSlots, EmptySlots, Slots
  <2> QED
    BY <1>1, <1>2, <2>2, <2>3, <2>6
<1> QED
  BY <1>3, <1>4 DEF Borrow

-----------------------------------------------------------------------------
(* The line of requests *)

\* One sequence after another.
LEMMA Joined ==
    ASSUME NEW S, NEW p \in Seq(S), NEW q \in Seq(S)
    PROVE  /\ Len(p \o q) = Len(p) + Len(q)
           /\ \A i \in 1..(Len(p) + Len(q)) :
                (p \o q)[i] = IF i <= Len(p) THEN p[i] ELSE q[i - Len(p)]
OBVIOUS

\* The line is a sequence of requests.
LEMMA LineIs ==
    ASSUME AsyncTypes
    PROVE  /\ Line \in Seq(Requests) /\ Len(Line) \in Nat
           /\ \A i \in Places : Line[i] \in Requests
           /\ Line = <<>> <=> Places = {}
<1>1. Line \in Seq(Requests)
  BY DEF AsyncTypes, Line
<1> QED
  BY <1>1 DEF Places

\* A request put at the back.
LEMMA LineAppended ==
    ASSUME AsyncTypes, NEW r \in Requests, busy' = busy, queue' = Append(queue, r)
    PROVE  /\ Len(Line') = Len(Line) + 1
           /\ \A i \in Places : Line'[i] = Line[i]
           /\ Line'[Len(Line) + 1] = r
           /\ Places' = Places \cup {Len(Line) + 1}
           /\ Len(Line) + 1 \notin Places
<1>1. /\ busy \in Seq(Requests) /\ queue \in Seq(Requests)
      /\ Len(busy) \in Nat /\ Len(queue) \in Nat
  BY DEF AsyncTypes
<1>2. /\ queue' \in Seq(Requests) /\ Len(queue') = Len(queue) + 1
      /\ \A i \in 1..Len(queue) : queue'[i] = queue[i]
      /\ queue'[Len(queue) + 1] = r
  BY <1>1
<1>3. /\ Len(Line) = Len(busy) + Len(queue)
      /\ \A i \in 1..Len(Line) :
           Line[i] = IF i <= Len(busy) THEN busy[i] ELSE queue[i - Len(busy)]
  BY <1>1, Joined DEF Line
<1>4. Line' = busy \o queue'
  BY DEF Line
<1>5. /\ Len(Line') = Len(busy) + Len(queue')
      /\ \A i \in 1..Len(Line') :
           Line'[i] = IF i <= Len(busy) THEN busy[i] ELSE queue'[i - Len(busy)]
  <2> DEFINE q == queue'
             l == Line'
  <2>1. q \in Seq(Requests) /\ l = busy \o q
    BY <1>2, <1>4
  <2>2. Len(q) \in Nat
    BY <1>1, <1>2
  <2> HIDE DEF q, l
  <2>3. /\ Len(l) = Len(busy) + Len(q)
        /\ \A i \in 1..Len(l) :
             l[i] = IF i <= Len(busy) THEN busy[i] ELSE q[i - Len(busy)]
    BY <1>1, <2>1, <2>2, Joined
  <2> QED
    BY <2>3 DEF q, l
<1>6. ASSUME NEW i \in Places PROVE Line'[i] = Line[i]
  <2>1. i \in 1..Len(Line) /\ i \in 1..Len(Line')
    BY <1>1, <1>2, <1>3, <1>5 DEF Places
  <2>2. i <= Len(busy) \/ i - Len(busy) \in 1..Len(queue)
    BY <1>1, <1>3, <2>1
  <2> QED
    BY <1>2, <1>3, <1>5, <2>1, <2>2
<1>7. Line'[Len(Line) + 1] = r
  <2>1. /\ Len(Line) + 1 \in 1..Len(Line') /\ ~(Len(Line) + 1 <= Len(busy))
        /\ (Len(Line) + 1) - Len(busy) = Len(queue) + 1
    BY <1>1, <1>2, <1>3, <1>5
  <2> QED
    BY <1>2, <1>5, <2>1
<1> QED
  BY <1>1, <1>2, <1>3, <1>5, <1>6, <1>7 DEF Places

\* The worker takes the first of the queue.
LEMMA LineTaken ==
    ASSUME AsyncTypes, Take
    PROVE  /\ Line' = Line
           /\ queue' \in Seq(Requests)
           /\ busy' \in Seq(Requests) /\ Len(busy') <= 1
<1>1. /\ busy = <<>> /\ queue \in Seq(Requests) /\ queue # <<>>
      /\ busy' = <<Head(queue)>> /\ queue' = Tail(queue)
  BY DEF Take, AsyncTypes
<1>2. /\ Tail(queue) \in Seq(Requests) /\ Len(Tail(queue)) = Len(queue) - 1
      /\ Len(queue) \in Nat \ {0} /\ Head(queue) = queue[1]
      /\ Head(queue) \in Requests
      /\ \A i \in 1..(Len(queue) - 1) : Tail(queue)[i] = queue[i + 1]
  <2>1. Len(queue) \in Nat \ {0}
    BY <1>1
  <2> QED
    BY <1>1, <2>1
<1>3. Line = queue
  BY <1>1 DEF Line
<1> DEFINE q == <<Head(queue)>> \o Tail(queue)
<1>4. /\ q \in Seq(Requests) /\ Len(q) = Len(queue)
      /\ \A i \in 1..Len(queue) :
           q[i] = IF i = 1 THEN Head(queue) ELSE Tail(queue)[i - 1]
  BY <1>2
<1>5. \A i \in 1..Len(queue) :
        i = 1 \/ (i - 1 \in 1..(Len(queue) - 1) /\ (i - 1) + 1 = i)
  BY <1>2
<1>6. \A i \in 1..Len(queue) : q[i] = queue[i]
  BY <1>2, <1>4, <1>5
<1>7. q = queue
  <2> HIDE DEF q
  <2> QED
    BY <1>1, <1>4, <1>6
<1>8. Line' = Line
  BY <1>1, <1>3, <1>7 DEF Line
<1>9. <<Head(queue)>> \in Seq(Requests) /\ Len(<<Head(queue)>>) <= 1
  BY <1>2
<1> QED
  BY <1>1, <1>2, <1>8, <1>9

\* The first of the line is gone.
LEMMA LineServed ==
    ASSUME AsyncTypes, busy # <<>>, busy' = <<>>, queue' = queue
    PROVE  /\ 1 \in Places /\ Line[1] = Head(busy)
           /\ Places' = 1..(Len(Line) - 1)
           /\ \A i \in Places' : i + 1 \in Places /\ Line'[i] = Line[i + 1]
           /\ \A i \in Places : i # 1 => i - 1 \in Places'
                                         /\ Line'[i - 1] = Line[i] /\ i > 1
<1>1. /\ busy \in Seq(Requests) /\ queue \in Seq(Requests)
      /\ Len(busy) = 1 /\ Len(queue) \in Nat
  <2>1. Len(busy) <= 1 /\ busy \in Seq(Requests) /\ Len(busy) \in Nat
    BY DEF AsyncTypes
  <2>2. Len(busy) # 0
    BY <2>1
  <2>3. queue \in Seq(Requests) /\ Len(queue) \in Nat
    BY DEF AsyncTypes
  <2>4. Len(busy) = 1
    <3> DEFINE n == Len(busy)
    <3>1. n \in Nat /\ n <= 1 /\ n # 0
      BY <2>1, <2>2
    <3> HIDE DEF n
    <3>2. n = 1
      BY <3>1
    <3> QED
      BY <3>2 DEF n
  <2> QED
    BY <2>1, <2>3, <2>4
<1>2. /\ Len(Line) = Len(queue) + 1
      /\ \A i \in 1..Len(Line) : Line[i] = IF i = 1 THEN busy[1] ELSE queue[i - 1]
  <2>1. /\ Len(Line) = Len(busy) + Len(queue)
        /\ \A i \in 1..(Len(busy) + Len(queue)) :
             Line[i] = IF i <= Len(busy) THEN busy[i] ELSE queue[i - Len(busy)]
    BY <1>1, Joined DEF Line
  <2>2. \A i \in 1..(1 + Len(queue)) : i <= 1 => i = 1
    BY <1>1
  <2> QED
    BY <1>1, <2>1, <2>2
<1>3. Line' = queue
  BY <1>1 DEF Line
<1>4. Head(busy) = busy[1]
  BY <1>1
<1>5. \A i \in 1..Len(queue) : i + 1 \in 1..Len(Line) /\ i + 1 # 1 /\ (i + 1) - 1 = i
  BY <1>1, <1>2
<1>6. \A i \in 1..Len(Line) : i # 1 => i - 1 \in 1..Len(queue) /\ i > 1
  BY <1>1, <1>2
<1> QED
  BY <1>1, <1>2, <1>3, <1>4, <1>5, <1>6 DEF Places

-----------------------------------------------------------------------------
(* The steps that leave loans, requests and data alone *)

\* Nothing depends on where in the pool a free connection is.
LEMMA QuietKeeps ==
    ASSUME AsyncInv, AsyncTypes', Line' = Line,
           UNCHANGED <<held, loans, loan, script, step, dirty, txn, saved, failed,
                       cut, rejected>>,
           exhausted => exhausted',
           live \subseteq live',
           exec = "down" <=> exec' = "down",
           phase' = "destroyed" => phase = "destroyed",
           \A t \in Tasks : pc'[t] \in {"waiting", "granted"} => ~Lent(t),
           DirtyOnlyIfLate'
    PROVE  AsyncInv'
<1>1. Places' = Places
  BY DEF Places
<1>2. \A t \in Tasks : Lent(t)' <=> Lent(t)
  BY DEF Lent
<1>3. TasksOK'
  BY <1>2 DEF AsyncInv, TasksOK
<1>4. RequestsOK'
  BY <1>1 DEF AsyncInv, RequestsOK
<1>5. OrderOK'
  BY <1>1, <1>2 DEF AsyncInv, OrderOK
<1>6. TxnsOK'
  BY DEF AsyncInv, TxnsOK
<1>7. ASSUME ScriptsAreBatches, ~rejected', ~exhausted'
      PROVE  ScriptsComplete' /\ TxnsFollow' /\ BatchesFollow' /\ BatchesAreWhole'
  <2>1. ScriptsComplete /\ TxnsFollow /\ BatchesFollow /\ BatchesAreWhole
    BY <1>7 DEF AsyncInv
  <2>2. \A n, h : LastAhead(n, h)' <=> LastAhead(n, h)
    BY <1>1, <1>2 DEF LastAhead, StillAt
  <2>3. \A n, i : Done(n, i)' <=> Done(n, i)
    BY <1>1, <1>2 DEF Done, Ahead
  <2>4. ScriptsComplete'
    BY <1>1, <2>1, <2>2 DEF ScriptsComplete
  <2>5. TxnsFollow'
    <3>1. \A g, n : TxnOf(g, n) => TxnOf(g, n)'
      BY <1>1, <2>2 DEF TxnOf, OneLoan
    <3> QED
      BY <2>1, <3>1 DEF TxnsFollow, BegunBy, Sound, IsBatch, OneLoan
  <2>6. \A n : Inserts(n)' = Inserts(n)
    BY DEF Inserts
  <2>7. BatchesFollow'
    BY <2>1, <2>3, <2>6 DEF BatchesFollow, BatchOK, Sound, IsBatch
  <2>8. BatchesAreWhole'
    BY <1>7, <2>1, <2>6 DEF BatchesAreWhole, InsertsIn
  <2> QED
    BY <2>4, <2>5, <2>7, <2>8
<1> QED
  BY <1>3, <1>4, <1>5, <1>6, <1>7 DEF AsyncInv

\* Those of the pool, and what the other tasks and the shutdown begin with.
LEMMA PoolKeeps ==
    ASSUME PoolOK, AsyncInv, UNCHANGED asyncVars,
           UNCHANGED <<held, dirty, in_use, db, live>>, phase' # "destroyed",
           \A t \in Tasks : pc'[t] \in {"waiting", "granted"} => ~Lent(t)
    PROVE  AsyncInv'
<1>1. Line' = Line /\ AsyncTypes'
  BY DEF asyncVars, Line, AsyncInv, AsyncTypes
<1>2. DirtyOnlyIfLate'
  BY DEF asyncVars, AsyncInv, DirtyOnlyIfLate, IdleSlots, OpenSlots, Slots
<1> QED
  BY <1>1, <1>2, QuietKeeps DEF asyncVars

\* create fills slots before there are loans.
LEMMA CreateKeeps ==
    ASSUME OneLoanEach, PoolOK, AsyncInv, UNCHANGED asyncVars,
           CreateSlot \/ CreateReturn
    PROVE  AsyncInv'
<1>1. \A t \in Tasks : pc[t] \in {"waiting", "granted"} => ~Lent(t)
  BY DEF AsyncInv, TasksOK
<1>2. CASE CreateReturn
  BY <1>1, <1>2, PoolKeeps DEF CreateReturn
<1>3. CASE CreateSlot
  <2>1. /\ UNCHANGED <<held, dirty, in_use, pc, phase>> /\ phase = "create"
        /\ cursor < MinConn
    BY <1>3 DEF CreateSlot
  <2>2. \/ UNCHANGED <<db, live>>
        \/ \E h \in Handles \ live : /\ live' = live \cup {h}
                                     /\ db' = [db EXCEPT ![cursor + 1] = h]
    BY <1>3 DEF CreateSlot, OpenSucceeds, OpenFails, OneLoanEach, P!NoHandleLeft
  <2>3. CASE UNCHANGED <<db, live>>
    BY <1>1, <2>1, <2>3, PoolKeeps
  <2>4. ASSUME NEW h \in Handles \ live, live' = live \cup {h},
               db' = [db EXCEPT ![cursor + 1] = h]
        PROVE  AsyncInv'
    <3>1. Line' = Line /\ AsyncTypes'
      BY <2>1, <2>4 DEF asyncVars, Line, AsyncInv, AsyncTypes
    <3>2. h \notin dirty
      BY <2>4 DEF AsyncInv, AsyncTypes
    <3>3. \A i \in Slots : db'[i] = IF i = cursor + 1 THEN h ELSE db[i]
      BY <2>4, PoolFacts
    <3>4. DirtyOnlyIfLate'
      <4> SUFFICES ASSUME NEW i \in IdleSlots', db'[i] \in dirty'
                   PROVE  db'[i] \in late'
        BY DEF DirtyOnlyIfLate
      <4>1. i \in Slots /\ i \notin in_use /\ db'[i] # NULL
        BY <2>1 DEF IdleSlots, OpenSlots, Slots
      <4>2. i # cursor + 1
        BY <2>1, <3>2, <3>3, <4>1
      <4>3. db'[i] = db[i] /\ i \in IdleSlots
        BY <3>3, <4>1, <4>2 DEF IdleSlots, OpenSlots
      <4> QED
        BY <2>1, <4>3 DEF AsyncInv, DirtyOnlyIfLate, asyncVars
    <3> QED
      BY <1>1, <2>1, <2>4, <3>1, <3>4, QuietKeeps DEF asyncVars
  <2> QED
    BY <2>2, <2>3, <2>4
<1> QED
  BY <1>2, <1>3

\* A call of the pool that lends and returns nothing.
LEMMA PoolCallKeeps ==
    ASSUME OneLoanEach, PoolOK, AsyncInv, NEW t \in Tasks, PoolCall(t)
    PROVE  AsyncInv'
<1>1. /\ UNCHANGED asyncVars
      /\ UNCHANGED <<held, dirty, in_use, db, live, phase>>
  BY DEF PoolCall, AcquireCall, TakeToken, TimeOut, GiveToken
<1>2. phase # "destroyed"
  BY PoolFacts DEF PoolCall, AcquireCall, TakeToken, TimeOut, GiveToken
<1>3. \A u \in Tasks : pc'[u] \in {"waiting", "granted"} => ~Lent(u)
  <2>1. \A u \in Tasks : pc[u] \in {"waiting", "granted"} => ~Lent(u)
    BY DEF AsyncInv, TasksOK
  <2>2. pc \in [Tasks -> {"out", "waiting", "granted", "returning", "deleted"}]
    BY PoolFacts
  <2>3. CASE AcquireCall(t)
    <3>1. /\ pc' = [pc EXCEPT ![t] = "waiting"]
          /\ Cardinality(held[t]) < 1
      BY <2>3 DEF AcquireCall, Goto, OneLoanEach
    <3>2. ~Lent(t)
      <4> SUFFICES ASSUME NEW h \in held[t] PROVE FALSE
        BY DEF Lent
      <4>1. held[t] = {h}
        BY DEF AsyncInv, TasksOK
      <4>2. Cardinality({h}) = 1
        BY FS_Singleton
      <4> QED
        BY <3>1, <4>1, <4>2
    <3> QED
      BY <2>1, <2>2, <3>1, <3>2
  <2>4. CASE TakeToken(t)
    BY <2>1, <2>2, <2>4 DEF TakeToken, Goto
  <2>5. CASE TimeOut(t) \/ GiveToken(t)
    BY <2>1, <2>2, <2>5 DEF TimeOut, GiveToken, Goto
  <2> QED
    BY <2>3, <2>4, <2>5 DEF PoolCall
<1> QED
  BY <1>1, <1>2, <1>3, PoolKeeps

\* shrink closes nothing.
LEMMA ShrinkKeeps ==
    ASSUME PoolOK, AsyncInv, Shrink, UNCHANGED asyncVars
    PROVE  AsyncInv'
<1>1. P!PoolInv /\ P!TypeOK /\ P!NeverAboveMinimum
  BY DEF PoolOK, P!PoolInv
<1>2. UNCHANGED P!vars
  BY <1>1, SameShrink, PoolAssumptions, P!ShrinkStutters
<1>3. dirty' = dirty
  <2>1. PICK old \in SUBSET IdleSlots : dirty' = dirty \ {db[i] : i \in Doomed(old)}
    BY DEF Shrink
  <2>2. Doomed(old) = {}
    BY <1>1, <2>1, SameSlots, PoolAssumptions, P!ShrinkClosesNothing
  <2> QED
    BY <2>1, <2>2
<1>4. UNCHANGED <<held, in_use, db, live, pc>> /\ phase' # "destroyed"
  BY <1>2 DEF P!vars, Shrink
<1>5. \A t \in Tasks : pc'[t] \in {"waiting", "granted"} => ~Lent(t)
  BY <1>4 DEF AsyncInv, TasksOK
<1> QED
  BY <1>3, <1>4, <1>5, PoolKeeps

\* The worker takes a request, or finds no result slot; the tasks are deleted.
LEMMA WorkerQuietKeeps ==
    ASSUME PoolOK, AsyncInv, Take \/ Exhaust \/ DeleteTasks
    PROVE  AsyncInv'
<1>1. /\ UNCHANGED vars
      /\ UNCHANGED <<loans, loan, script, step, txn, saved, failed, cut, late,
                     rejected>>
      /\ exhausted => exhausted'
      /\ exec = "down" <=> exec' = "down"
      /\ exec' \in {"up", "draining", "down"}
  BY DEF Take, Exhaust, DeleteTasks, AsyncInv, AsyncTypes
<1>2. /\ Line' = Line
      /\ queue' \in Seq(Requests)
      /\ busy' \in Seq(Requests) /\ Len(busy') <= 1
  <2>1. AsyncTypes
    BY DEF AsyncInv
  <2>2. CASE Take
    BY <2>1, <2>2, LineTaken
  <2>3. CASE Exhaust \/ DeleteTasks
    BY <2>1, <2>3 DEF Exhaust, DeleteTasks, Line, AsyncTypes
  <2> QED
    BY <2>2, <2>3
<1>3. AsyncTypes'
  BY <1>1, <1>2 DEF AsyncInv, AsyncTypes, vars
<1>4. DirtyOnlyIfLate'
  BY <1>1 DEF vars, AsyncInv, DirtyOnlyIfLate, IdleSlots, OpenSlots, Slots
<1>5. \A t \in Tasks : pc'[t] \in {"waiting", "granted"} => ~Lent(t)
  BY <1>1 DEF AsyncInv, TasksOK, vars
<1> QED
  BY <1>1, <1>2, <1>3, <1>4, <1>5, QuietKeeps DEF vars

-----------------------------------------------------------------------------
(* The steps that take requests away *)

\* With its first request gone the line is as good as before.
LEMMA ServedKeeps ==
    ASSUME AsyncInv, busy # <<>>, busy' = <<>>, queue' = queue,
           UNCHANGED <<exec, phase, live, held, loans, loan, script, step>>
    PROVE  RequestsOK' /\ OrderOK'
<1>1. /\ Places' = 1..(Len(Line) - 1) /\ Len(Line) \in Nat
      /\ \A i \in Places' : i + 1 \in Places /\ Line'[i] = Line[i + 1]
  BY LineServed, LineIs DEF AsyncInv
<1>2. Line = <<>> => Line' = <<>>
  <2>1. AsyncTypes
    BY DEF AsyncInv
  <2>2. Line # <<>>
    BY <2>1, LineServed, LineIs
  <2> QED
    BY <2>2
<1>3. RequestsOK'
  BY <1>1, <1>2 DEF AsyncInv, RequestsOK
<1>4. \A t \in Tasks : Lent(t)' <=> Lent(t)
  BY DEF Lent
<1>5. \A i, j \in Places' : i < j => i + 1 < j + 1
  BY <1>1
<1>6. OrderOK'
  <2>1. OrderOK
    BY DEF AsyncInv
  <2>2. \A i, j \in Places' : i < j /\ Line'[i].db = Line'[j].db =>
         \/ Line'[i].loan < Line'[j].loan
         \/ Line'[i].loan = Line'[j].loan /\ Line'[i].at < Line'[j].at
    BY <1>1, <1>5, <2>1 DEF OrderOK
  <2>3. \A i, j \in Places' :
          Line'[i].loan = Line'[j].loan => Line'[i].db = Line'[j].db
    BY <1>1, <2>1 DEF OrderOK
  <2>4. \A t \in Tasks, i \in Places' :
          Line'[i].db \in held'[t] => Line'[i].loan <= loan'[t]
    BY <1>1, <2>1 DEF OrderOK
  <2>5. \A t \in Tasks, i \in Places' : Lent(t)' /\ Line'[i].loan = loan'[t] =>
          Line'[i].at <= step'[t] /\ Line'[i].db \in held'[t]
    BY <1>1, <1>4, <2>1 DEF OrderOK
  <2> QED
    BY <2>2, <2>3, <2>4, <2>5 DEF OrderOK
<1> QED
  BY <1>3, <1>6

\* Without a result slot a request is freed unexecuted.
LEMMA DropKeeps ==
    ASSUME PoolOK, AsyncInv, DropRequest PROVE AsyncInv'
<1>1. /\ busy # <<>> /\ busy' = <<>> /\ queue' = queue /\ exhausted'
      /\ UNCHANGED vars
      /\ UNCHANGED <<exec, loans, loan, script, step, txn, saved, failed, cut,
                     late>>
  BY DEF DropRequest
<1>2. RequestsOK' /\ OrderOK'
  BY <1>1, ServedKeeps DEF vars
<1>3. <<>> \in Seq(Requests) /\ Len(<<>>) <= 1
  OBVIOUS
<1>4. AsyncTypes' /\ TxnsOK'
  BY <1>1, <1>3 DEF AsyncInv, AsyncTypes, TxnsOK, vars
<1>5. TasksOK'
  BY <1>1 DEF AsyncInv, TasksOK, Lent, vars
<1>6. DirtyOnlyIfLate'
  BY <1>1 DEF vars, AsyncInv, DirtyOnlyIfLate, IdleSlots, OpenSlots, Slots
<1> QED
  BY <1>1, <1>2, <1>4, <1>5, <1>6 DEF AsyncInv

\* sqlite_async_shutdown frees the requests that are left.
LEMMA ShutdownKeeps ==
    ASSUME PoolOK, AsyncInv, AsyncShutdown PROVE AsyncInv'
<1>1. /\ exec' = "down" /\ busy' = <<>> /\ queue' = <<>>
      /\ UNCHANGED vars
      /\ UNCHANGED <<loans, loan, script, step, exhausted, txn, saved, failed,
                     cut, late, rejected>>
  BY DEF AsyncShutdown
<1>2. Line' = <<>> /\ Places' = {}
  BY <1>1 DEF Line, Places
<1>3. <<>> \in Seq(Requests) /\ Len(<<>>) <= 1
  OBVIOUS
<1>4. AsyncTypes' /\ TxnsOK'
  BY <1>1, <1>3 DEF AsyncInv, AsyncTypes, TxnsOK, vars
<1>5. TasksOK'
  BY <1>1 DEF AsyncInv, TasksOK, Lent, vars
<1>6. DirtyOnlyIfLate'
  BY <1>1 DEF vars, AsyncInv, DirtyOnlyIfLate, IdleSlots, OpenSlots, Slots
<1>7. RequestsOK' /\ OrderOK'
  BY <1>1, <1>2 DEF RequestsOK, OrderOK
<1>8. ASSUME ScriptsAreBatches, ~rejected', ~exhausted'
      PROVE  ScriptsComplete' /\ TxnsFollow' /\ BatchesFollow' /\ BatchesAreWhole'
  <2>1. TxnsFollow /\ BatchesAreWhole
    BY <1>1, <1>8 DEF AsyncInv
  <2>2. TxnsFollow'
    <3>1. UNCHANGED <<dirty, txn, loans, script, failed, cut>> /\ exec' = "down"
      BY <1>1 DEF vars
    <3>2. \A g, n : /\ OneLoan(g, n) => OneLoan(g, n)' /\ TxnOf(g, n)'
                    /\ Sound(n)' => Sound(n)
      BY <3>1 DEF OneLoan, TxnOf, Sound, IsBatch
    <3>3. \A g, n : BegunBy(g, n) => BegunBy(g, n)'
      BY <3>1, <3>2 DEF BegunBy, TxnOf
    <3> QED
      BY <2>1, <3>1, <3>2, <3>3 DEF TxnsFollow
  <2>3. BatchesAreWhole'
    BY <1>1, <1>8, <2>1 DEF BatchesAreWhole, Inserts, InsertsIn
  <2> QED
    BY <1>1, <2>2, <2>3 DEF ScriptsComplete, BatchesFollow
<1> QED
  BY <1>4, <1>5, <1>6, <1>7, <1>8 DEF AsyncInv

\* sqlite_pool_destroy closes all connections and ends their transactions.
LEMMA DestroyKeeps ==
    ASSUME PoolOK, AsyncInv, PoolDestroy PROVE AsyncInv'
<1>1. /\ exec = "down" /\ phase = "ready" /\ live' = live \ PooledHandles
      /\ dirty' = dirty \ PooledHandles
      /\ pc' = [t \in Tasks |-> "deleted"] /\ held' = [t \in Tasks |-> {}]
      /\ txn' = [h \in Handles |-> {}]
      /\ UNCHANGED <<exec, loans, loan, script, step, queue, busy, exhausted,
                     saved, failed, cut, rejected>>
  BY DEF PoolDestroy, Destroy
<1>2. PooledHandles = live
  BY <1>1, PoolFacts
<1>3. dirty' = {} /\ live' = {}
  BY <1>1, <1>2 DEF AsyncInv, AsyncTypes
<1>4. Line' = <<>> /\ Places' = {}
  BY <1>1 DEF Line, Places, AsyncInv, RequestsOK
<1>5. \A t \in Tasks : ~Lent(t)' /\ held'[t] = {} /\ pc'[t] = "deleted"
  BY <1>1 DEF Lent
<1>6. AsyncTypes' /\ TxnsOK'
  BY <1>1, <1>3 DEF AsyncInv, AsyncTypes, TxnsOK
<1>7. TasksOK' /\ DirtyOnlyIfLate'
  BY <1>3, <1>5 DEF TasksOK, DirtyOnlyIfLate
<1>8. RequestsOK' /\ OrderOK'
  BY <1>1, <1>4 DEF RequestsOK, OrderOK
<1>9. ASSUME ScriptsAreBatches, ~rejected', ~exhausted'
      PROVE  ScriptsComplete' /\ TxnsFollow' /\ BatchesFollow' /\ BatchesAreWhole'
  <2>1. BatchesAreWhole
    BY <1>1, <1>9 DEF AsyncInv
  <2>2. BatchesAreWhole'
    BY <1>1, <1>9, <2>1 DEF BatchesAreWhole, Inserts, InsertsIn
  <2> QED
    BY <1>1, <1>3, <2>2 DEF ScriptsComplete, TxnsFollow, BatchesFollow
<1> QED
  BY <1>6, <1>7, <1>8, <1>9 DEF AsyncInv

-----------------------------------------------------------------------------
(* Release *)

\* The task has nothing then, the connection has no transaction, and what it
\* had of one is cut.
LEMMA ReturnEffect ==
    ASSUME OneLoanEach, PoolOK, AsyncInv, NEW t \in Tasks, Return(t)
    PROVE  /\ phase' = "ready" /\ Submitted(t) /\ live' = live
           /\ UNCHANGED <<exec, loans, loan, script, step, queue, busy,
                          exhausted, saved, failed, rejected>>
           /\ pc' \in [Tasks -> {"out", "waiting", "granted", "returning", "deleted"}]
           /\ \A u \in Tasks : pc'[u] \in {"waiting", "granted"} => pc'[u] = pc[u]
           /\ \E h \in live :
                /\ h \in held[t] /\ held' = [held EXCEPT ![t] = {}]
                /\ dirty' = dirty \ {h}
                /\ txn' = [txn EXCEPT ![h] = {}]
                /\ cut' = cut \cup {r[1] : r \in txn[h]}
                /\ late' \cap dirty' = late \cap dirty'
                /\ \A i \in IdleSlots' : i \in IdleSlots \/ db'[i] = h
                /\ db' = db
<1>1. PICK h \in held[t] :
        /\ Release(t, h)
        /\ LET ended == h \in dirty /\ h \notin dirty'
           IN  /\ cut' = IF ended THEN cut \cup {r[1] : r \in txn[h]} ELSE cut
               /\ txn' = IF ended THEN [txn EXCEPT ![h] = {}] ELSE txn
               /\ late' = IF ended THEN late \ {h} ELSE late
  BY DEF Return
<1>2. /\ phase' = "ready" /\ Submitted(t) /\ live' = live /\ db' = db
      /\ UNCHANGED <<exec, loans, loan, script, step, queue, busy,
                     exhausted, saved, failed, rejected>>
  BY <1>1 DEF Return, Release
<1>3. h \in live /\ \E i \in in_use : db[i] = h
  BY PoolFacts DEF HeldIsPooled
<1>4. Matching(h) # {}
  BY <1>3, PoolFacts DEF Matching, OpenSlots
<1>5. /\ dirty' = dirty \ {h}
      /\ pc' = [pc EXCEPT ![t] = "returning"]
      /\ held' = [held EXCEPT ![t] = @ \ {h}]
      /\ \E i \in Matching(h) : in_use' = in_use \ {i}
  BY <1>1, <1>4 DEF Release, Rollback, Goto, Drop
<1>6. held' = [held EXCEPT ![t] = {}]
  <2>1. held[t] \ {h} = {}
    BY DEF AsyncInv, TasksOK
  <2> QED
    BY <1>5, <2>1
<1>7. /\ pc' \in [Tasks -> {"out", "waiting", "granted", "returning", "deleted"}]
      /\ \A u \in Tasks : pc'[u] \in {"waiting", "granted"} => pc'[u] = pc[u]
  BY <1>5, PoolFacts
<1>8. txn' = [txn EXCEPT ![h] = {}] /\ cut' = cut \cup {r[1] : r \in txn[h]}
  <2>1. CASE h \in dirty
    BY <1>1, <1>5, <2>1
  <2>2. CASE h \notin dirty
    <3>1. txn[h] = {}
      BY <1>3, <2>2, PoolFacts DEF AsyncInv, TxnsOK
    <3>2. txn' = txn /\ cut' = cut
      BY <1>1, <2>2
    <3>3. txn = [txn EXCEPT ![h] = {}]
      BY <3>1 DEF AsyncInv, AsyncTypes
    <3>4. {r[1] : r \in txn[h]} = {}
      BY <3>1
    <3> QED
      BY <3>2, <3>3, <3>4
  <2> QED
    BY <2>1, <2>2
<1>9. late' \cap dirty' = late \cap dirty'
  BY <1>1, <1>5
<1>10. \A i \in IdleSlots' : i \in IdleSlots \/ db'[i] = h
  BY <1>2, <1>5 DEF IdleSlots, OpenSlots, Slots, Matching
<1> QED
  BY <1>1, <1>2, <1>3, <1>5, <1>6, <1>7, <1>8, <1>9, <1>10

\* The loan ends with its requests in the line, for which it promised nothing.
LEMMA ReturnKeeps ==
    ASSUME OneLoanEach, PoolOK, AsyncInv, NEW t \in Tasks, Return(t)
    PROVE  AsyncInv'
<1>1. /\ phase' = "ready" /\ Submitted(t) /\ live' = live
      /\ UNCHANGED <<exec, loans, loan, script, step, queue, busy, exhausted,
                     saved, failed, rejected>>
      /\ \A u \in Tasks : pc'[u] \in {"waiting", "granted"} => pc'[u] = pc[u]
  BY ReturnEffect
<1>2. PICK h \in live :
        /\ h \in held[t] /\ held' = [held EXCEPT ![t] = {}]
        /\ dirty' = dirty \ {h}
        /\ txn' = [txn EXCEPT ![h] = {}]
        /\ cut' = cut \cup {r[1] : r \in txn[h]}
        /\ late' \cap dirty' = late \cap dirty'
        /\ \A i \in IdleSlots' : i \in IdleSlots \/ db'[i] = h
        /\ db' = db
  BY ReturnEffect
<1>3. Line' = Line /\ Places' = Places
  BY <1>1 DEF Line, Places
<1>4. \A u \in Tasks : held'[u] = IF u = t THEN {} ELSE held[u]
  BY <1>2, PoolFacts
<1>5. \A u \in Tasks : Lent(u)' <=> Lent(u) /\ u # t
  BY <1>4 DEF Lent
<1>6. \A g \in Handles : txn'[g] = IF g = h THEN {} ELSE txn[g]
  BY <1>2 DEF AsyncInv, AsyncTypes
<1>7. AsyncTypes'
  <2>1. AsyncTypes
    BY DEF AsyncInv
  <2>2. txn[h] \subseteq (1..loans) \X Nat
    BY <1>2, PoolFacts DEF AsyncInv, AsyncTypes
  <2>3. cut' \subseteq 1..loans
    <3>1. \A r \in txn[h] : r[1] \in 1..loans
      BY <2>2
    <3>2. cut \subseteq 1..loans
      BY <2>1 DEF AsyncTypes
    <3> QED
      BY <1>2, <3>1, <3>2
  <2>4. dirty' \subseteq live'
    BY <1>1, <1>2, <2>1 DEF AsyncTypes
  <2>5. txn' \in [Handles -> SUBSET ((1..loans') \X Nat)]
    BY <1>1, <1>2, <2>1 DEF AsyncTypes
  <2> QED
    BY <1>1, <2>1, <2>3, <2>4, <2>5 DEF AsyncTypes
<1>8. TasksOK'
  BY <1>1, <1>4, <1>5 DEF AsyncInv, TasksOK
<1>9. RequestsOK'
  BY <1>1, <1>3 DEF AsyncInv, RequestsOK
<1>10. OrderOK'
  <2>1. OrderOK
    BY DEF AsyncInv
  <2> QED
    BY <1>1, <1>3, <1>4, <1>5, <2>1 DEF OrderOK
<1>11. TxnsOK'
  BY <1>2, <1>6 DEF AsyncInv, TxnsOK
<1>12. DirtyOnlyIfLate'
  <2> SUFFICES ASSUME NEW i \in IdleSlots', db'[i] \in dirty'
               PROVE  db'[i] \in late'
    BY DEF DirtyOnlyIfLate
  <2>1. i \in IdleSlots /\ db[i] \in dirty
    BY <1>2
  <2>2. db[i] \in late
    BY <2>1 DEF AsyncInv, DirtyOnlyIfLate
  <2> QED
    BY <1>2, <2>2
<1>13. ASSUME ScriptsAreBatches, ~rejected', ~exhausted'
       PROVE  ScriptsComplete' /\ TxnsFollow' /\ BatchesFollow' /\ BatchesAreWhole'
  <2>1. ScriptsComplete /\ TxnsFollow /\ BatchesFollow /\ BatchesAreWhole
    BY <1>1, <1>13 DEF AsyncInv
  <2>2. step[t] = Len(script[loan[t]])
    BY <1>1 DEF Submitted
  <2>3. ASSUME NEW n, NEW g, LastAhead(n, g) PROVE LastAhead(n, g)'
    <3>1. \A u \in Tasks : StillAt(u, n) => u # t /\ StillAt(u, n)'
      BY <1>1, <1>5, <2>2 DEF StillAt, AsyncInv, AsyncTypes
    <3>2. CASE \E k \in Places : /\ Line[k].loan = n /\ Line[k].db = g
                                 /\ Line[k].at = Len(script[n])
      BY <1>1, <1>3, <3>2 DEF LastAhead
    <3>3. ASSUME NEW u \in Tasks, StillAt(u, n), g \in held[u]
          PROVE  LastAhead(n, g)'
      BY <1>4, <3>1, <3>3 DEF LastAhead
    <3> QED
      BY <2>3, <3>2, <3>3 DEF LastAhead
  <2>4. ASSUME NEW n \in 1..loans, NEW i PROVE Done(n, i)' <=> Done(n, i)
    <3>1. i \in 1..Len(script[n]) /\ Lent(t) /\ loan[t] = n => ~(step[t] < i)
      <4>1. Len(script[n]) \in Nat
        BY DEF AsyncInv, AsyncTypes
      <4> QED
        BY <2>2, <4>1
    <3> QED
      BY <1>1, <1>3, <1>5, <3>1 DEF Done, Ahead
  <2>5. ScriptsComplete'
    BY <1>1, <1>3, <2>1, <2>3 DEF ScriptsComplete
  <2>6. TxnsFollow'
    <3> SUFFICES ASSUME NEW g \in dirty'
                 PROVE  /\ \E n \in 1..loans : BegunBy(g, n)'
                        /\ \A r \in txn'[g] : Sound(r[1])' => OneLoan(g, r[1])'
      BY <1>1 DEF TxnsFollow
    <3>1. g \in dirty /\ g # h /\ g \in Handles /\ txn'[g] = txn[g]
      BY <1>2, <1>6, PoolFacts DEF AsyncInv, AsyncTypes
    <3>2. PICK n \in 1..loans : BegunBy(g, n)
      BY <2>1, <3>1 DEF TxnsFollow
    <3>3. \A m : /\ OneLoan(g, m) => OneLoan(g, m)'
                 /\ Sound(m)' => Sound(m)
      BY <1>1, <1>2, <3>1 DEF OneLoan, Sound, IsBatch
    <3>4. TxnOf(g, n) => TxnOf(g, n)'
      BY <1>1, <1>3, <2>3, <3>3 DEF TxnOf
    <3>5. BegunBy(g, n)'
      BY <1>1, <3>1, <3>2, <3>4 DEF BegunBy
    <3>6. \A r \in txn'[g] : Sound(r[1])' => OneLoan(g, r[1])'
      BY <2>1, <3>1, <3>3 DEF TxnsFollow
    <3> QED
      BY <3>5, <3>6
  <2>7. BatchesFollow'
    <3> SUFFICES ASSUME exec # "down", NEW n \in 1..loans PROVE BatchOK(n)'
      BY <1>1 DEF BatchesFollow
    <3>1. BatchOK(n)
      BY <2>1 DEF BatchesFollow
    <3>2. \A i, j \in 1..Len(script[n]) :
            i < j /\ Done(n, j)' => Done(n, i)'
      BY <2>4, <3>1 DEF BatchOK
    <3>3. \A g \in Handles : \A i \in Nat : <<n, i>> \in txn'[g] => Done(n, i)'
      BY <1>6, <2>4, <3>1 DEF BatchOK
    <3>4. \A i \in Nat : <<n, i>> \in saved' => Done(n, i)'
      BY <1>1, <2>4, <3>1 DEF BatchOK
    <3>5. ASSUME IsBatch(n), n \notin cut' \cup failed
          PROVE  IF Done(n, Len(script[n]))
                 THEN Inserts(n) \subseteq saved
                 ELSE /\ \A i \in Nat : <<n, i>> \notin saved
                      /\ Done(n, 1) =>
                           \E g \in dirty' : \A i \in Nat :
                             Done(n, i) => <<n, i>> \in txn'[g]
      <4>1. IF Done(n, Len(script[n]))
            THEN Inserts(n) \subseteq saved
            ELSE /\ \A i \in Nat : <<n, i>> \notin saved
                 /\ Done(n, 1) =>
                      \E g \in dirty : \A i \in Nat :
                        Done(n, i) => <<n, i>> \in txn[g]
        BY <1>2, <3>1, <3>5 DEF BatchOK, Sound
      <4>2. ASSUME NEW g \in dirty, Done(n, 1),
                   \A i \in Nat : Done(n, i) => <<n, i>> \in txn[g]
            PROVE  g \in dirty' /\ txn'[g] = txn[g]
        <5>1. <<n, 1>> \in txn[g]
          BY <4>2
        <5>2. g # h
          <6>1. <<n, 1>>[1] \in {r[1] : r \in txn[g]}
            BY <5>1
          <6> QED
            BY <1>2, <3>5, <6>1
        <5> QED
          BY <1>2, <1>6, <5>2, PoolFacts DEF AsyncInv, AsyncTypes
      <4> QED
        BY <4>1, <4>2
    <3>6. /\ Inserts(n)' = Inserts(n)
          /\ Sound(n)' <=> IsBatch(n) /\ n \notin cut' \cup failed
          /\ script' = script /\ saved' = saved
      BY <1>1 DEF Inserts, Sound, IsBatch
    <3>7. /\ Done(n, Len(script[n]))' <=> Done(n, Len(script[n]))
          /\ Done(n, 1)' <=> Done(n, 1)
          /\ \A i \in Nat : Done(n, i)' <=> Done(n, i)
      BY <2>4, <3>6
    <3>8. Sound(n)' =>
            IF Done(n, Len(script[n]))'
            THEN Inserts(n)' \subseteq saved'
            ELSE /\ \A i \in Nat : <<n, i>> \notin saved'
                 /\ Done(n, 1)' =>
                      \E g \in dirty' : \A i \in Nat :
                        Done(n, i)' => <<n, i>> \in txn'[g]
      BY <3>5, <3>6, <3>7
    <3> QED
      BY <3>2, <3>3, <3>4, <3>6, <3>8 DEF BatchOK
  <2>8. BatchesAreWhole'
    <3>1. cut \subseteq cut'
      BY <1>2
    <3> QED
      BY <1>1, <1>13, <2>1, <3>1 DEF BatchesAreWhole, Inserts, InsertsIn
  <2> QED
    BY <2>5, <2>6, <2>7, <2>8
<1> QED
  BY <1>7, <1>8, <1>9, <1>10, <1>11, <1>12, <1>13 DEF AsyncInv

-----------------------------------------------------------------------------
(* Submitting *)

\* A task's loan, its connection, and what it has submitted.
LEMMA LoanFacts ==
    ASSUME PoolOK, AsyncInv, NEW t \in Tasks, NEW h \in held[t]
    PROVE  /\ Lent(t) /\ held[t] = {h} /\ h \in live /\ h \in Handles
           /\ loan[t] \in 1..loans /\ loan[t] \in 1..MaxLoans
           /\ script[loan[t]] \in Scripts /\ Len(script[loan[t]]) \in Nat
           /\ step[t] \in Nat /\ step[t] <= Len(script[loan[t]])
           /\ \A u \in Tasks : h \in held[u] => u = t
           /\ \A u \in Tasks : Lent(u) /\ loan[u] = loan[t] => u = t
<1>1. AsyncTypes /\ TasksOK
  BY DEF AsyncInv
<1>2. Lent(t) /\ held[t] = {h}
  BY <1>1 DEF Lent, TasksOK
<1>3. h \in live /\ h \in Handles /\ \A u \in Tasks : h \in held[u] => u = t
  BY PoolFacts DEF HeldIsPooled
<1>4. loan[t] \in 0..loans /\ loan[t] # 0 /\ loans \in 0..MaxLoans
  BY <1>1, <1>2 DEF AsyncTypes, TasksOK
<1>5. loan[t] \in 1..loans /\ loan[t] \in 1..MaxLoans /\ loan[t] \in 0..MaxLoans
  BY <1>4, ScriptsAssumption
<1>6. script[loan[t]] \in Scripts /\ script[loan[t]] \in Seq(Statements)
  BY <1>1, <1>5 DEF AsyncTypes
<1>7. Len(script[loan[t]]) \in Nat
  BY <1>6
<1>8. step[t] \in Nat /\ step[t] <= Len(script[loan[t]])
  BY <1>1, <1>2 DEF AsyncTypes, TasksOK
<1>9. \A u \in Tasks : Lent(u) /\ loan[u] = loan[t] => u = t
  BY <1>1, <1>2 DEF TasksOK
<1> QED
  BY <1>2, <1>3, <1>5, <1>6, <1>7, <1>8, <1>9

\* What is done of the loans is all that the batches depend on.
LEMMA SameDoneKeeps ==
    ASSUME BatchesFollow, BatchesAreWhole,
           UNCHANGED <<exec, loans, script, txn, saved, failed, cut, dirty,
                       rejected, exhausted>>,
           \A n \in 1..loans : \A i \in Nat : Done(n, i)' <=> Done(n, i)
    PROVE  BatchesFollow' /\ BatchesAreWhole'
<1>1. \A n : Inserts(n)' = Inserts(n) /\ (Sound(n)' <=> Sound(n))
  BY DEF Inserts, Sound, IsBatch
<1>2. BatchesAreWhole'
  BY <1>1 DEF BatchesAreWhole, InsertsIn
<1>3. ASSUME NEW n \in 1..loans, exec # "down" PROVE BatchOK(n)'
  <2>1. BatchOK(n)
    BY <1>3 DEF BatchesFollow
  <2>2. \A i : Done(n, i) \/ Done(n, i)' => i \in Nat
    BY DEF Done
  <2>3. \A i : Done(n, i)' <=> Done(n, i)
    BY <1>3, <2>2
  <2> QED
    BY <1>1, <2>1, <2>3 DEF BatchOK
<1> QED
  BY <1>2, <1>3 DEF BatchesFollow

\* The task counts a statement as submitted, also when the queue is full.
LEMMA SubmitCounts ==
    ASSUME PoolOK, AsyncInv, NEW t \in Tasks, Submit(t)
    PROVE  TasksOK' /\ (Line' = Line /\ rejected' => AsyncInv')
<1>1. /\ Lent(t) /\ ~Submitted(t)
      /\ step' = [step EXCEPT ![t] = @ + 1]
      /\ UNCHANGED vars
      /\ UNCHANGED <<exec, loans, loan, script, busy, exhausted, txn, saved,
                     failed, cut, late>>
      /\ \/ queue' = queue
         \/ \E h \in held[t] : queue' = Append(queue, [loan |-> loan[t],
                                          at |-> step[t] + 1, db |-> h])
  BY DEF Submit
<1>2. PICK h \in held[t] : TRUE
  BY <1>1 DEF Lent
<1>3. /\ step[t] \in Nat /\ Len(script[loan[t]]) \in Nat
      /\ step[t] + 1 <= Len(script[loan[t]]) /\ step[t] + 1 \in Nat
  BY <1>1, <1>2, LoanFacts DEF Submitted
<1>4. /\ step \in [Tasks -> Nat]
      /\ \A u \in Tasks : step'[u] = IF u = t THEN step[t] + 1 ELSE step[u]
      /\ \A u \in Tasks : step[u] \in Nat /\ step[u] <= step'[u]
  BY <1>1, <1>3 DEF AsyncInv, AsyncTypes
<1>5. TasksOK'
  <2>1. TasksOK
    BY DEF AsyncInv
  <2>2. \A u \in Tasks : Lent(u)' <=> Lent(u)
    BY <1>1 DEF Lent, vars
  <2>3. \A u \in Tasks : Lent(u) => step'[u] <= Len(script[loan[u]])
    BY <1>3, <1>4, <2>1 DEF TasksOK
  <2> QED
    BY <1>1, <2>1, <2>2, <2>3 DEF TasksOK, vars
<1>6. ASSUME Line' = Line, rejected' PROVE AsyncInv'
  <2>1. Places' = Places
    BY <1>6 DEF Places
  <2>2. queue' \in Seq(Requests)
    <3>1. queue \in Seq(Requests)
      BY DEF AsyncInv, AsyncTypes
    <3>2. ASSUME NEW g \in held[t]
          PROVE  [loan |-> loan[t], at |-> step[t] + 1, db |-> g] \in Requests
      BY <1>3, LoanFacts DEF Requests
    <3>3. ASSUME NEW g \in held[t], queue' = Append(queue, [loan |-> loan[t],
                                          at |-> step[t] + 1, db |-> g])
          PROVE queue' \in Seq(Requests)
      BY <3>1, <3>2, <3>3
    <3> QED
      BY <1>1, <3>1, <3>3
  <2>3. AsyncTypes'
    BY <1>1, <1>3, <2>2 DEF AsyncInv, AsyncTypes, vars
  <2>4. RequestsOK'
    BY <1>1, <1>6, <2>1 DEF AsyncInv, RequestsOK, vars
  <2>5. OrderOK'
    <3>1. OrderOK
      BY DEF AsyncInv
    <3>2. \A i \in Places : Line[i].at \in Nat
      BY LineIs DEF AsyncInv, Requests
    <3>3. ASSUME NEW u \in Tasks, NEW i \in Places, Lent(u), Line[i].loan = loan[u]
          PROVE  Line[i].at <= step'[u] /\ Line[i].db \in held[u]
      BY <1>4, <3>1, <3>2, <3>3 DEF OrderOK
    <3> QED
      BY <1>1, <1>6, <2>1, <3>1, <3>3 DEF OrderOK, vars, Lent
  <2>6. TxnsOK' /\ DirtyOnlyIfLate'
    BY <1>1 DEF vars, AsyncInv, TxnsOK, DirtyOnlyIfLate, IdleSlots, OpenSlots,
       Slots
  <2> QED
    BY <1>5, <1>6, <2>3, <2>4, <2>5, <2>6 DEF AsyncInv
<1> QED
  BY <1>5, <1>6

\* The new request comes after all others of its connection.
LEMMA SubmitKeeps ==
    ASSUME PoolOK, AsyncInv, NEW t \in Tasks, Submit(t)
    PROVE  AsyncInv'
<1>1. /\ Lent(t) /\ ~Submitted(t) /\ exec = "up"
      /\ step' = [step EXCEPT ![t] = @ + 1]
      /\ UNCHANGED vars
      /\ UNCHANGED <<exec, loans, loan, script, busy, exhausted, txn, saved,
                     failed, cut, late>>
  BY DEF Submit
<1>2. PICK h \in held[t] :
         IF Len(queue) < QueueSize
         THEN /\ queue' = Append(queue, [loan |-> loan[t], at |-> step[t] + 1,
                                         db |-> h])
              /\ rejected' = rejected
         ELSE UNCHANGED queue /\ rejected' = TRUE
  BY DEF Submit
<1>3. /\ held[t] = {h} /\ h \in live /\ h \in Handles
      /\ loan[t] \in 1..loans /\ loan[t] \in 1..MaxLoans
      /\ step[t] \in Nat /\ Len(script[loan[t]]) \in Nat
      /\ \A u \in Tasks : h \in held[u] => u = t
      /\ \A u \in Tasks : Lent(u) /\ loan[u] = loan[t] => u = t
  BY <1>2, LoanFacts
<1>4. step[t] + 1 \in 1..Len(script[loan[t]]) /\ step[t] < Len(script[loan[t]])
  BY <1>1, <1>2, <1>3, LoanFacts DEF Submitted
<1>5. /\ \A u \in Tasks : step'[u] = IF u = t THEN step[t] + 1 ELSE step[u]
      /\ step' \in [Tasks -> Nat]
  BY <1>1, <1>3 DEF AsyncInv, AsyncTypes
<1>6. TasksOK'
  BY SubmitCounts
<1>7. CASE UNCHANGED queue /\ rejected' = TRUE
  BY <1>1, <1>7, SubmitCounts DEF Line
<1> DEFINE r == [loan |-> loan[t], at |-> step[t] + 1, db |-> h]
           new == Len(Line) + 1
<1>8. ASSUME queue' = Append(queue, r), rejected' = rejected
      PROVE  AsyncInv'
  <2>1. /\ r \in Requests /\ r.loan = loan[t] /\ r.at = step[t] + 1 /\ r.db = h
    BY <1>3 DEF Requests
  <2> HIDE DEF r
  <2>2. /\ \A i \in Places : Line'[i] = Line[i]
        /\ Line'[new] = r
        /\ Places' = Places \cup {new}
        /\ new \notin Places
    BY <1>1, <1>8, <2>1, LineAppended DEF AsyncInv
  <2>3. /\ \A i \in Places : i \in Nat /\ Line[i] \in Requests
        /\ new \in Nat /\ \A i \in Places : i < new
    <3>1. AsyncTypes
      BY DEF AsyncInv
    <3> QED
      BY <3>1, LineIs DEF Places
  <2> HIDE DEF new
  <2>4. AsyncTypes'
    <3>1. queue \in Seq(Requests)
      BY DEF AsyncInv, AsyncTypes
    <3>2. queue' \in Seq(Requests)
      BY <1>8, <2>1, <3>1
    <3> QED
      BY <1>1, <1>5, <3>2 DEF AsyncInv, AsyncTypes, vars
  <2>5. RequestsOK'
    <3>1. RequestsOK
      BY DEF AsyncInv
    <3>2. ASSUME NEW i \in Places'
          PROVE  /\ Line'[i].loan <= loans
                 /\ Line'[i].at \in 1..Len(script[Line'[i].loan])
                 /\ Line'[i].db \in live
      <4>1. CASE i = new
        <5>1. loan[t] <= loans
          BY <1>3
        <5> QED
          BY <1>3, <1>4, <2>1, <2>2, <4>1, <5>1
      <4>2. CASE i \in Places
        BY <2>2, <3>1, <4>2 DEF RequestsOK
      <4> QED
        BY <2>2, <4>1, <4>2
    <3>3. exec' # "down" /\ phase' # "destroyed"
      BY <1>1, <3>1 DEF RequestsOK, vars
    <3> QED
      BY <1>1, <3>2, <3>3 DEF RequestsOK, vars
  <2>6. \A i \in Places :
          /\ Line[i].db = h => \/ Line[i].loan < loan[t]
                               \/ Line[i].loan = loan[t] /\ Line[i].at < step[t] + 1
          /\ Line[i].loan = loan[t] => Line[i].db = h
    <3>1. OrderOK
      BY DEF AsyncInv
    <3> SUFFICES ASSUME NEW i \in Places
        PROVE  /\ Line[i].db = h => \/ Line[i].loan < loan[t]
                                    \/ /\ Line[i].loan = loan[t]
                                       /\ Line[i].at < step[t] + 1
               /\ Line[i].loan = loan[t] => Line[i].db = h
      OBVIOUS
    <3>2. Line[i].loan \in Nat /\ Line[i].at \in Nat /\ loan[t] \in Nat
      BY <1>3, <2>3 DEF Requests
    <3>3. Line[i].loan = loan[t] => Line[i].at <= step[t] /\ Line[i].db = h
      BY <1>1, <1>3, <3>1 DEF OrderOK
    <3>4. Line[i].db = h => Line[i].loan <= loan[t]
      BY <1>3, <3>1 DEF OrderOK
    <3> QED
      BY <1>3, <3>2, <3>3, <3>4
  <2>7. OrderOK'
    <3>1. OrderOK
      BY DEF AsyncInv
    <3>2. \A i, j \in Places' : i < j /\ Line'[i].db = Line'[j].db =>
            \/ Line'[i].loan < Line'[j].loan
            \/ Line'[i].loan = Line'[j].loan /\ Line'[i].at < Line'[j].at
      <4> SUFFICES ASSUME NEW i \in Places', NEW j \in Places', i < j,
                          Line'[i].db = Line'[j].db
                   PROVE  \/ Line'[i].loan < Line'[j].loan
                          \/ Line'[i].loan = Line'[j].loan /\ Line'[i].at < Line'[j].at
        OBVIOUS
      <4>1. i \in Places
        BY <2>2, <2>3
      <4>2. CASE j \in Places
        BY <2>2, <3>1, <4>1, <4>2 DEF OrderOK
      <4>3. CASE j = new
        BY <2>1, <2>2, <2>6, <4>1, <4>3
      <4> QED
        BY <2>2, <4>2, <4>3
    <3>3. \A i, j \in Places' :
            Line'[i].loan = Line'[j].loan => Line'[i].db = Line'[j].db
      BY <2>1, <2>2, <2>6, <3>1 DEF OrderOK
    <3>4. \A u \in Tasks, i \in Places' :
            Line'[i].db \in held[u] => Line'[i].loan <= loan[u]
      <4>1. loan[t] <= loan[t]
        BY <1>3
      <4> QED
        BY <1>3, <2>1, <2>2, <3>1, <4>1 DEF OrderOK
    <3>5. \A u \in Tasks, i \in Places' : Lent(u) /\ Line'[i].loan = loan[u] =>
            Line'[i].at <= step'[u] /\ Line'[i].db \in held[u]
      <4> SUFFICES ASSUME NEW u \in Tasks, NEW i \in Places', Lent(u),
                          Line'[i].loan = loan[u]
                   PROVE  Line'[i].at <= step'[u] /\ Line'[i].db \in held[u]
        OBVIOUS
      <4>1. CASE i = new
        <5>1. u = t
          BY <1>3, <2>1, <2>2, <4>1
        <5>2. step[t] + 1 <= step[t] + 1
          BY <1>3
        <5> QED
          BY <1>3, <1>5, <2>1, <2>2, <4>1, <5>1, <5>2
      <4>2. CASE i \in Places
        <5>1. Line[i].at <= step[u] /\ Line[i].db \in held[u]
          BY <2>2, <3>1, <4>2 DEF OrderOK
        <5>2. Line[i].at \in Nat /\ step[u] \in Nat /\ step[u] <= step'[u]
          <6>1. Line[i].at \in Nat
            BY <2>3, <4>2 DEF Requests
          <6>2. step[u] \in Nat
            BY DEF AsyncInv, AsyncTypes
          <6>3. step[u] <= step[u] /\ step[u] <= step[u] + 1
            BY <6>2
          <6>4. step'[u] = step[u] \/ step'[u] = step[u] + 1
            BY <1>5
          <6> QED
            BY <6>1, <6>2, <6>3, <6>4
        <5>3. step'[u] \in Nat
          BY <1>5
        <5> QED
          BY <2>2, <4>2, <5>1, <5>2, <5>3
      <4> QED
        BY <2>2, <4>1, <4>2
    <3> QED
      BY <1>1, <3>2, <3>3, <3>4, <3>5 DEF OrderOK, vars, Lent
  <2>8. TxnsOK' /\ DirtyOnlyIfLate'
    BY <1>1 DEF vars, AsyncInv, TxnsOK, DirtyOnlyIfLate, IdleSlots, OpenSlots,
       Slots
  <2>9. ASSUME ScriptsAreBatches, ~rejected', ~exhausted'
        PROVE  ScriptsComplete' /\ TxnsFollow' /\ BatchesFollow' /\ BatchesAreWhole'
    <3>1. ScriptsComplete /\ TxnsFollow /\ BatchesFollow /\ BatchesAreWhole
      BY <1>1, <1>8, <2>9 DEF AsyncInv
    <3>2. \A u \in Tasks : Lent(u)' <=> Lent(u)
      BY <1>1 DEF Lent, vars
    <3>3. ASSUME NEW n, NEW g, LastAhead(n, g) PROVE LastAhead(n, g)'
      <4>1. CASE \E k \in Places : /\ Line[k].loan = n /\ Line[k].db = g
                                   /\ Line[k].at = Len(script[n])
        BY <1>1, <2>2, <4>1 DEF LastAhead
      <4>2. ASSUME NEW u \in Tasks, StillAt(u, n), g \in held[u], u # t
            PROVE  LastAhead(n, g)'
        <5>1. StillAt(u, n)'
          BY <1>1, <1>5, <3>2, <4>2 DEF StillAt
        <5> QED
          BY <1>1, <4>2, <5>1 DEF LastAhead, vars
      <4>3. ASSUME StillAt(t, n), g \in held[t] PROVE LastAhead(n, g)'
        <5>1. n = loan[t] /\ g = h
          BY <1>3, <4>3 DEF StillAt
        <5>2. CASE step[t] + 1 = Len(script[n])
          BY <1>1, <2>1, <2>2, <5>1, <5>2 DEF LastAhead
        <5>3. CASE step[t] + 1 < Len(script[n])
          <6>1. StillAt(t, n)'
            BY <1>1, <1>5, <3>2, <5>1, <5>3 DEF StillAt
          <6> QED
            BY <1>1, <4>3, <6>1 DEF LastAhead, vars
        <5> QED
          BY <1>3, <1>4, <5>1, <5>2, <5>3
      <4> QED
        BY <3>3, <4>1, <4>2, <4>3 DEF LastAhead
    <3>4. LastAhead(loan[t], h)
      BY <1>1, <1>4, <1>3 DEF LastAhead, StillAt
    <3>5. ScriptsComplete'
      BY <1>1, <2>1, <2>2, <3>1, <3>3, <3>4 DEF ScriptsComplete
    <3>6. ASSUME NEW n \in 1..loans, LastAhead(n, h) PROVE loan[t] >= n
      <4>1. CASE \E k \in Places : Line[k].loan = n /\ Line[k].db = h
        <5>1. n <= loan[t]
          BY <1>3, <4>1 DEF AsyncInv, OrderOK
        <5> QED
          BY <1>3, <5>1
      <4>2. ASSUME NEW u \in Tasks, StillAt(u, n), h \in held[u]
            PROVE loan[t] >= n
        BY <1>3, <4>2 DEF StillAt
      <4> QED
        BY <3>6, <4>1, <4>2 DEF LastAhead
    <3>7. TxnsFollow'
      <4>0. /\ UNCHANGED <<dirty, txn, loans, script, failed, cut>>
            /\ \A g, m : /\ OneLoan(g, m)' <=> OneLoan(g, m)
                         /\ Sound(m)' <=> Sound(m)
        BY <1>1 DEF vars, OneLoan, Sound, IsBatch
      <4> SUFFICES ASSUME NEW g \in dirty, NEW n \in 1..loans, TxnOf(g, n)
                   PROVE  TxnOf(g, n)'
        BY <3>1, <4>0 DEF TxnsFollow, BegunBy
      <4>2. OneLoan(g, n)'
        BY <4>0 DEF TxnOf
      <4>3. /\ script[n] # <<>> /\ script[n][Len(script[n])] = "COMMIT"
            /\ LastAhead(n, g)
            /\ \A i \in Places : Line[i].db = g => Line[i].loan >= n
        BY <1>1 DEF TxnOf
      <4>4. \A i \in Places' : Line'[i].db = g => Line'[i].loan >= n
        BY <2>1, <2>2, <3>6, <4>3
      <4>5. LastAhead(n, g)'
        BY <3>3, <4>3
      <4> QED
        BY <1>1, <4>2, <4>3, <4>4, <4>5 DEF TxnOf
    <3>8. ASSUME NEW n \in 1..loans, NEW i \in Nat
          PROVE  Done(n, i)' <=> Done(n, i)
      <4>1. step[t] < i <=> i = step[t] + 1 \/ step[t] + 1 < i
        BY <1>3
      <4>2. ASSUME NEW u \in Tasks, u # t
            PROVE  /\ Lent(u)' <=> Lent(u)
                   /\ loan'[u] = loan[u] /\ step'[u] = step[u]
        BY <1>1, <1>5, <3>2, <4>2
      <4>3. Lent(t) /\ Lent(t)' /\ loan'[t] = loan[t] /\ step'[t] = step[t] + 1
        BY <1>1, <1>5, <3>2
      <4>4. (\E k \in Places' : Line'[k].loan = n /\ Line'[k].at = i)
              <=> \/ \E k \in Places : Line[k].loan = n /\ Line[k].at = i
                  \/ loan[t] = n /\ i = step[t] + 1
        BY <2>1, <2>2
      <4>5. (\E u \in Tasks : Lent(u) /\ loan[u] = n /\ step[u] < i)
              <=> \/ \E u \in Tasks : Lent(u)' /\ loan'[u] = n /\ step'[u] < i
                  \/ loan[t] = n /\ i = step[t] + 1
        BY <4>1, <4>2, <4>3
      <4>6. Ahead(n, i)' <=> Ahead(n, i)
        BY <4>4, <4>5 DEF Ahead
      <4> QED
        BY <1>1, <4>6 DEF Done
    <3>9. BatchesFollow' /\ BatchesAreWhole'
      BY <1>1, <1>8, <3>1, <3>8, SameDoneKeeps DEF vars
    <3> QED
      BY <3>5, <3>7, <3>9
  <2> QED
    BY <1>6, <2>4, <2>5, <2>7, <2>8, <2>9 DEF AsyncInv
<1> QED
  BY <1>2, <1>7, <1>8

-----------------------------------------------------------------------------
(* Acquire *)

\* acquire returns nothing to the task.
LEMMA NothingBorrowedKeeps ==
    ASSUME OneLoanEach, PoolOK, AsyncInv, NEW t \in Tasks, Borrow(t),
           UNCHANGED <<live, held>>
    PROVE  AsyncInv'
<1>1. /\ phase' = "ready" /\ dirty' = dirty
      /\ pc' = [pc EXCEPT ![t] = "out"]
      /\ \A i \in IdleSlots' : i \in IdleSlots /\ db'[i] = db[i]
  BY BorrowEffect
<1>2. UNCHANGED asyncVars
  BY DEF Borrow, asyncVars
<1>3. Line' = Line /\ AsyncTypes'
  BY <1>1, <1>2 DEF asyncVars, Line, AsyncInv, AsyncTypes
<1>4. DirtyOnlyIfLate'
  BY <1>1, <1>2 DEF asyncVars, AsyncInv, DirtyOnlyIfLate
<1>5. \A u \in Tasks : pc'[u] \in {"waiting", "granted"} => ~Lent(u)
  BY <1>1, PoolFacts DEF AsyncInv, TasksOK
<1> QED
  BY <1>1, <1>2, <1>3, <1>4, <1>5, QuietKeeps DEF asyncVars

\* acquire lends it a connection: a new loan, of which nothing is submitted.
LEMMA LoanEffect ==
    ASSUME OneLoanEach, PoolOK, AsyncInv, NEW t \in Tasks, Borrow(t),
           ~UNCHANGED <<live, held>>
    PROVE  /\ phase' = "ready" /\ dirty' = dirty /\ ~Lent(t)
           /\ loans + 1 \in 1..MaxLoans /\ loans' = loans + 1 /\ loans \in Nat
           /\ \A u \in Tasks : loan'[u] = IF u = t THEN loans + 1 ELSE loan[u]
           /\ loan' \in [Tasks -> 0..loans']
           /\ \A u \in Tasks : step'[u] = IF u = t THEN 0 ELSE step[u]
           /\ step' \in [Tasks -> Nat]
           /\ script' \in [0..MaxLoans -> Seq(Statements)]
           /\ script'[loans + 1] \in Scripts
           /\ \A n \in 0..loans : script'[n] = script[n]
           /\ \E h \in Handles :
                /\ \A u \in Tasks : h \notin held[u]
                /\ \A u \in Tasks : held'[u] = IF u = t THEN {h} ELSE held[u]
                /\ live' = live \cup {h}
           /\ pc'[t] = "out" /\ \A u \in Tasks \ {t} : pc'[u] = pc[u]
           /\ UNCHANGED <<exec, queue, busy, exhausted, txn, saved, failed, cut,
                          late, rejected>>
           /\ \A i \in IdleSlots' : i \in IdleSlots /\ db'[i] = db[i]
<1>1. AsyncTypes /\ TasksOK
  BY DEF AsyncInv
<1>2. /\ phase' = "ready" /\ dirty' = dirty /\ pc[t] = "granted"
      /\ pc' = [pc EXCEPT ![t] = "out"]
      /\ \A i \in IdleSlots' : i \in IdleSlots /\ db'[i] = db[i]
  BY BorrowEffect
<1>3. PICK h \in Handles :
                   /\ \A u \in Tasks : h \notin held[u]
                   /\ held' = [held EXCEPT ![t] = @ \cup {h}]
                   /\ live' = live \cup {h}
  BY BorrowEffect
<1>4. ~Lent(t)
  BY <1>1, <1>2 DEF TasksOK
<1>5. \A u \in Tasks : held'[u] = IF u = t THEN {h} ELSE held[u]
  BY <1>3, <1>4, PoolFacts DEF Lent
<1>6. held' # held
  BY <1>3, <1>5
<1>7. PICK s \in Scripts :
        /\ loans' = loans + 1
        /\ loan' = [loan EXCEPT ![t] = loans + 1]
        /\ script' = [script EXCEPT ![loans + 1] = s]
        /\ step' = [step EXCEPT ![t] = 0]
        /\ loans < MaxLoans
        /\ UNCHANGED <<exec, queue, busy, exhausted, txn, saved, failed, cut,
                       late, rejected>>
  BY <1>6 DEF Borrow
<1>8. /\ loans + 1 \in 1..MaxLoans /\ loans \in Nat /\ loans + 1 \in 0..MaxLoans
      /\ loans + 1 \in 0..(loans + 1) /\ \A n \in 0..loans : n # loans + 1
      /\ \A n \in 0..loans : n \in 0..(loans + 1) /\ n \in 0..MaxLoans
  BY <1>1, <1>7, ScriptsAssumption DEF AsyncTypes
<1>9. s \in Seq(Statements)
  BY ScriptsAssumption
<1>10. /\ \A u \in Tasks : loan'[u] = IF u = t THEN loans + 1 ELSE loan[u]
       /\ loan' \in [Tasks -> 0..loans']
  BY <1>1, <1>7, <1>8 DEF AsyncTypes
<1>11. /\ \A u \in Tasks : step'[u] = IF u = t THEN 0 ELSE step[u]
       /\ step' \in [Tasks -> Nat]
  BY <1>1, <1>7 DEF AsyncTypes
<1>12. /\ script' \in [0..MaxLoans -> Seq(Statements)]
       /\ script'[loans + 1] \in Scripts
       /\ \A n \in 0..loans : script'[n] = script[n]
  BY <1>1, <1>7, <1>8, <1>9 DEF AsyncTypes
<1>13. pc'[t] = "out" /\ \A u \in Tasks \ {t} : pc'[u] = pc[u]
  BY <1>2, PoolFacts
<1> QED
  BY <1>2, <1>3, <1>4, <1>5, <1>7, <1>8, <1>10, <1>11, <1>12, <1>13

\* The new loan is later than all requests, whatever connection it is on.
LEMMA LoanKeeps ==
    ASSUME OneLoanEach, PoolOK, AsyncInv, NEW t \in Tasks, Borrow(t),
           ~UNCHANGED <<live, held>>
    PROVE  AsyncInv'
<1>0. PICK N : N = loans + 1
  OBVIOUS
<1>1. /\ phase' = "ready" /\ dirty' = dirty /\ ~Lent(t)
      /\ N \in 1..MaxLoans /\ loans' = N /\ loans \in Nat
      /\ \A u \in Tasks : loan'[u] = IF u = t THEN N ELSE loan[u]
      /\ loan' \in [Tasks -> 0..loans']
      /\ \A u \in Tasks : step'[u] = IF u = t THEN 0 ELSE step[u]
      /\ step' \in [Tasks -> Nat]
      /\ script' \in [0..MaxLoans -> Seq(Statements)]
      /\ script'[N] \in Scripts
      /\ \A n \in 0..loans : script'[n] = script[n]
      /\ pc'[t] = "out" /\ \A u \in Tasks \ {t} : pc'[u] = pc[u]
      /\ UNCHANGED <<exec, queue, busy, exhausted, txn, saved, failed, cut,
                     late, rejected>>
      /\ \A i \in IdleSlots' : i \in IdleSlots /\ db'[i] = db[i]
  BY <1>0, LoanEffect
<1>2. PICK h \in Handles :
        /\ \A u \in Tasks : h \notin held[u]
        /\ \A u \in Tasks : held'[u] = IF u = t THEN {h} ELSE held[u]
        /\ live' = live \cup {h}
  BY LoanEffect
<1>3. AsyncTypes /\ TasksOK /\ RequestsOK /\ OrderOK
  BY DEF AsyncInv
<1>4. /\ \A n \in 1..loans : n \in 1..N /\ n \in 0..loans /\ n # N
      /\ \A n \in 0..loans : n # N /\ n <= N
      /\ \A n \in 1..N : n \in 1..loans \/ n = N
      /\ N \in 0..MaxLoans /\ N \in 1..N
      /\ \A n \in 1..MaxLoans : n <= loans => n \in 0..loans
  <2>1. loans \in Nat /\ MaxLoans \in Nat /\ N = loans + 1 /\ N \in 1..MaxLoans
    BY <1>0, <1>1, ScriptsAssumption
  <2> QED
    BY <2>1
<1>5. \A u \in Tasks : loan[u] \in 0..loans
  BY <1>3 DEF AsyncTypes
<1>6. \A u \in Tasks : Lent(u)' <=> Lent(u) \/ u = t
  BY <1>2 DEF Lent
<1>7. Line' = Line /\ Places' = Places
  BY <1>1 DEF Line, Places
<1>8. \A i \in Places : Line[i].loan \in 0..loans
  BY <1>3, <1>4, LineIs DEF RequestsOK, Requests
<1>9. AsyncTypes'
  <2>1. \A n \in 1..N : script'[n] \in Scripts
    BY <1>1, <1>3, <1>4 DEF AsyncTypes
  <2>2. dirty' \subseteq live'
    BY <1>1, <1>2, <1>3 DEF AsyncTypes
  <2>3. (1..loans) \subseteq (1..N)
    BY <1>4
  <2>4. /\ txn' \in [Handles -> SUBSET ((1..N) \X Nat)]
        /\ saved' \subseteq (1..N) \X Nat
        /\ failed' \subseteq 1..N /\ cut' \subseteq 1..N
    <3>1. ((1..loans) \X Nat) \subseteq ((1..N) \X Nat)
      BY <2>3
    <3>2. \A g \in Handles : txn[g] \subseteq (1..N) \X Nat
      BY <1>3, <3>1 DEF AsyncTypes
    <3>3. /\ saved \subseteq (1..N) \X Nat
          /\ failed \subseteq 1..N /\ cut \subseteq 1..N
      BY <1>3, <2>3, <3>1 DEF AsyncTypes
    <3>4. txn \in [Handles -> SUBSET ((1..N) \X Nat)]
      BY <1>3, <3>2 DEF AsyncTypes
    <3> QED
      BY <1>1, <3>3, <3>4
  <2> QED
    BY <1>1, <1>3, <1>4, <2>1, <2>2, <2>4 DEF AsyncTypes
<1>10. TasksOK'
  <2>1. \A u \in Tasks : pc'[u] \in {"waiting", "granted"} => ~Lent(u)'
    BY <1>1, <1>3, <1>6 DEF TasksOK
  <2>2. \A u \in Tasks : \A f, g \in held'[u] : f = g
    BY <1>2, <1>3 DEF TasksOK
  <2>3. \A u \in Tasks : Lent(u)' => /\ loan'[u] # 0
                                     /\ step'[u] <= Len(script'[loan'[u]])
    <3>1. N # 0 /\ 0 <= Len(script'[N])
      BY <1>1, <1>4
    <3>2. \A u \in Tasks : script'[loan[u]] = script[loan[u]]
      BY <1>1, <1>5
    <3> QED
      BY <1>1, <1>3, <1>6, <3>1, <3>2 DEF TasksOK
  <2>4. \A u, v \in Tasks : Lent(u)' /\ Lent(v)' /\ loan'[u] = loan'[v] => u = v
    <3>1. \A u, v \in Tasks : Lent(u) /\ Lent(v) /\ loan[u] = loan[v] => u = v
      BY <1>3 DEF TasksOK
    <3>2. \A u \in Tasks : loan[u] # N
      BY <1>4, <1>5
    <3> QED
      BY <1>1, <1>6, <3>1, <3>2
  <2> QED
    BY <2>1, <2>2, <2>3, <2>4 DEF TasksOK
<1>11. RequestsOK'
  <2>1. \A i \in Places : Line[i].loan <= N
    BY <1>4, <1>8
  <2> QED
    BY <1>1, <1>2, <1>3, <1>7, <1>8, <2>1 DEF RequestsOK
<1>12. OrderOK'
  <2>1. \A u \in Tasks, i \in Places :
          Line[i].db \in held'[u] => Line[i].loan <= loan'[u]
    BY <1>1, <1>2, <1>3, <1>4, <1>8 DEF OrderOK
  <2>2. \A u \in Tasks, i \in Places : Lent(u)' /\ Line[i].loan = loan'[u] =>
          Line[i].at <= step'[u] /\ Line[i].db \in held'[u]
    BY <1>1, <1>2, <1>3, <1>4, <1>6, <1>8 DEF OrderOK
  <2> QED
    BY <1>3, <1>7, <2>1, <2>2 DEF OrderOK
<1>13. TxnsOK' /\ DirtyOnlyIfLate'
  BY <1>1 DEF AsyncInv, TxnsOK, DirtyOnlyIfLate
<1>14. ASSUME ScriptsAreBatches, ~rejected', ~exhausted'
       PROVE  ScriptsComplete' /\ TxnsFollow' /\ BatchesFollow' /\ BatchesAreWhole'
  <2>1. ScriptsComplete /\ TxnsFollow /\ BatchesFollow /\ BatchesAreWhole
    BY <1>1, <1>14 DEF AsyncInv
  <2>2. ASSUME NEW n \in 0..loans, NEW g, LastAhead(n, g) PROVE LastAhead(n, g)'
    <3>1. ASSUME NEW u \in Tasks, StillAt(u, n)
          PROVE  u # t /\ StillAt(u, n)' /\ held'[u] = held[u]
      BY <1>1, <1>2, <1>6, <3>1 DEF StillAt
    <3> QED
      BY <1>1, <1>7, <2>2, <3>1 DEF LastAhead
  <2>3. ScriptsComplete'
    BY <1>1, <1>7, <1>8, <2>1, <2>2 DEF ScriptsComplete
  <2>4. TxnsFollow'
    <3> SUFFICES ASSUME NEW g \in dirty
                 PROVE  /\ \E n \in 1..N : BegunBy(g, n)'
                        /\ \A r \in txn[g] : Sound(r[1])' => OneLoan(g, r[1])'
      BY <1>1 DEF TxnsFollow
    <3>1. PICK n \in 1..loans : BegunBy(g, n)
      BY <2>1 DEF TxnsFollow
    <3>2. n \in 1..N /\ n \in 0..loans /\ script'[n] = script[n]
      BY <1>1, <1>4
    <3>3. \A m : OneLoan(g, m)' <=> OneLoan(g, m)
      BY <1>1 DEF OneLoan
    <3>4. TxnOf(g, n) => TxnOf(g, n)'
      BY <1>1, <1>7, <2>2, <3>2, <3>3 DEF TxnOf
    <3>5. BegunBy(g, n)'
      BY <1>1, <3>1, <3>4 DEF BegunBy
    <3>6. ASSUME NEW r \in txn[g], Sound(r[1])' PROVE OneLoan(g, r[1])'
      <4>1. r[1] \in 1..loans
        BY <1>3, PoolFacts DEF AsyncTypes
      <4>2. script'[r[1]] = script[r[1]]
        BY <1>1, <1>4, <4>1
      <4>3. Sound(r[1])
        BY <1>1, <3>6, <4>2 DEF Sound, IsBatch
      <4> QED
        BY <2>1, <3>3, <4>3 DEF TxnsFollow
    <3> QED
      BY <3>2, <3>5, <3>6
  <2>5. \A n, i : (<<n, i>> \in saved \/ \E g \in Handles : <<n, i>> \in txn[g])
                     => n \in 1..loans
    BY <1>3 DEF AsyncTypes
  <2>6. ASSUME NEW n \in 1..loans, NEW i PROVE Done(n, i)' <=> Done(n, i)
    BY <1>1, <1>4, <1>6, <1>7 DEF Done, Ahead
  <2>7. ASSUME NEW i PROVE ~Done(N, i)'
    <3>1. i \in 1..Len(script'[N]) => 0 < i
      BY <1>1
    <3>2. loan'[t] = N /\ step'[t] = 0 /\ Lent(t)'
      BY <1>1, <1>6
    <3> QED
      BY <3>1, <3>2 DEF Done, Ahead
  <2>8. BatchesFollow'
    <3> SUFFICES ASSUME exec # "down", NEW n \in 1..N PROVE BatchOK(n)'
      BY <1>1 DEF BatchesFollow
    <3>1. CASE n \in 1..loans
      <4>1. BatchOK(n) /\ script'[n] = script[n]
        BY <1>1, <1>4, <2>1, <3>1 DEF BatchesFollow
      <4>2. Inserts(n)' = Inserts(n) /\ (Sound(n)' <=> Sound(n))
        BY <1>1, <4>1 DEF Inserts, Sound, IsBatch
      <4>3. /\ \A i : Done(n, i)' <=> Done(n, i)
            /\ Done(n, Len(script[n]))' <=> Done(n, Len(script[n]))
        BY <2>6, <3>1, <4>1
      <4> QED
        BY <1>1, <4>1, <4>2, <4>3 DEF BatchOK
    <3>2. CASE n = N
      <4>1. \A i : <<n, i>> \notin saved /\ \A g \in Handles : <<n, i>> \notin txn[g]
        BY <1>4, <2>5, <3>2
      <4>2. ~Done(n, 1)' /\ ~Done(n, Len(script[n]))' /\ \A i : ~Done(n, i)'
        BY <2>7, <3>2
      <4> QED
        BY <1>1, <4>1, <4>2 DEF BatchOK
    <3> QED
      BY <1>4, <3>1, <3>2
  <2>9. BatchesAreWhole'
    <3>1. InsertsIn(saved)' = InsertsIn(saved)
      <4>1. \A r \in saved : r[1] \in 0..loans
        BY <1>3, <1>4 DEF AsyncTypes
      <4> QED
        BY <1>1, <4>1 DEF InsertsIn
    <3>2. \A n \in 1..loans : script'[n] = script[n] /\ Inserts(n)' = Inserts(n)
      BY <1>1, <1>4 DEF Inserts
    <3>3. InsertsIn(saved) \cap Inserts(N)' = {}
      BY <1>4, <2>5 DEF InsertsIn, Inserts
    <3>4. \A n \in (1..loans) \ (cut \cup failed) :
            script[n] # <<>> /\ script[n][1] = "BEGIN" =>
                InsertsIn(saved) \cap Inserts(n) \in {{}, Inserts(n)}
      BY <1>1, <1>14, <2>1 DEF BatchesAreWhole
    <3>5. ASSUME NEW n \in (1..loans') \ (cut' \cup failed'),
                 script'[n] # <<>> /\ script'[n][1] = "BEGIN"
          PROVE  InsertsIn(saved)' \cap Inserts(n)' \in {{}, Inserts(n)'}
      <4>1. CASE n \in 1..loans
        <5>1. n \in (1..loans) \ (cut \cup failed) /\ script'[n] = script[n]
          BY <1>1, <3>2, <3>5, <4>1
        <5>2. InsertsIn(saved) \cap Inserts(n) \in {{}, Inserts(n)}
          BY <3>4, <3>5, <5>1
        <5> QED
          BY <3>1, <3>2, <4>1, <5>2
      <4>2. CASE n = N
        BY <3>1, <3>3, <4>2
      <4> QED
        BY <1>1, <1>4, <4>1, <4>2
    <3> QED
      BY <3>5 DEF BatchesAreWhole
  <2> QED
    BY <2>3, <2>4, <2>8, <2>9
<1> QED
  BY <1>9, <1>10, <1>11, <1>12, <1>13, <1>14 DEF AsyncInv

-----------------------------------------------------------------------------
(* Executing *)

\* The first request of the line is statement a of loan n, on connection h.
First(n, a, h) ==
    /\ 1 \in Places /\ Line[1].loan = n /\ Line[1].at = a /\ Line[1].db = h
    /\ n \in 1..loans /\ a \in 1..Len(script[n]) /\ h \in live
    /\ exec # "down" /\ phase # "destroyed"

\* The worker's request is the first of the line.
LEMMA Serving ==
    ASSUME AsyncInv, busy # <<>>
    PROVE  \E n, a, h : /\ First(n, a, h) /\ Head(busy).loan = n
                        /\ Head(busy).at = a /\ Head(busy).db = h
<1>1. AsyncTypes /\ RequestsOK
  BY DEF AsyncInv
<1>2. Len(busy) # 0 /\ busy \in Seq(Requests)
  BY <1>1 DEF AsyncTypes
<1> DEFINE all == busy \o queue
<1>3. 1 \in 1..Len(all) /\ all[1] = Head(busy)
  <2>1. queue \in Seq(Requests) /\ Len(busy) \in Nat \ {0} /\ Len(queue) \in Nat
    BY <1>1, <1>2 DEF AsyncTypes
  <2>2. Len(all) = Len(busy) + Len(queue) /\ Head(busy) = busy[1]
    BY <1>2, <2>1
  <2>3. all[1] = busy[1]
    BY <1>2, <2>1
  <2> QED
    BY <2>1, <2>2, <2>3
<1>4. 1 \in Places /\ Line[1] = Head(busy)
  BY <1>3 DEF Places, Line
<1>5. Line[1].loan \in 1..MaxLoans /\ Line[1].loan <= loans
      /\ Line[1].at \in 1..Len(script[Line[1].loan]) /\ Line[1].db \in live
  BY <1>1, <1>4, LineIs DEF RequestsOK, Requests
<1>6. Line[1].loan \in 1..loans
  BY <1>1, <1>5, ScriptsAssumption DEF AsyncTypes
<1>7. Line # <<>>
  BY <1>1, <1>4, LineIs
<1>8. exec # "down" /\ phase # "destroyed"
  BY <1>1, <1>7 DEF RequestsOK
<1> QED
  BY <1>4, <1>5, <1>6, <1>8 DEF First

\* In a loan's script BEGIN is the first statement and COMMIT the last.
LEMMA ScriptIs ==
    ASSUME ScriptsAreBatches, AsyncTypes, NEW n \in 1..loans,
           NEW a \in 1..Len(script[n])
    PROVE  /\ Len(script[n]) \in Nat /\ Len(script[n]) \in 1..Len(script[n])
           /\ 1 \in 1..Len(script[n])
           /\ script[n] # <<>>
           /\ script[n][a] \in Statements
           /\ script[n][a] = "BEGIN" => /\ a = 1 /\ a < Len(script[n])
                                        /\ script[n][Len(script[n])] = "COMMIT"
           /\ script[n][a] = "COMMIT" => /\ a = Len(script[n]) /\ 1 < a
                                         /\ script[n][1] = "BEGIN"
<1>1. script[n] \in Scripts
  BY DEF AsyncTypes
<1>2. script[n] \in Seq(Statements)
  BY <1>1, ScriptsAssumption
<1> DEFINE s == script[n]
<1>3. s \in Seq(Statements) /\ s \in Scripts /\ a \in 1..Len(s)
  BY <1>1, <1>2
<1> HIDE DEF s
<1>4. Len(s) \in Nat /\ Len(s) \in 1..Len(s) /\ 1 \in 1..Len(s) /\ a \in Nat
      /\ s # <<>> /\ s[a] \in Statements
  BY <1>3
<1>5. /\ s[a] = "BEGIN" => a = 1 /\ s[Len(s)] = "COMMIT"
      /\ s[a] = "COMMIT" => a = Len(s) /\ s[1] = "BEGIN"
  BY <1>3 DEF ScriptsAreBatches
<1>6. s[a] = "BEGIN" => a # Len(s)
  BY <1>5
<1>7. s[a] = "COMMIT" => a # 1
  BY <1>5
<1> QED
  BY <1>3, <1>4, <1>5, <1>6, <1>7 DEF s

\* The statements of its loan before it are done.
LEMMA DoneBefore ==
    ASSUME AsyncInv, NEW n, NEW a, NEW h, First(n, a, h)
    PROVE  /\ ~Done(n, a)
           /\ \A j \in 1..Len(script[n]) : j < a => Done(n, j)
           /\ \A k \in Places : Line[k].loan = n => Line[k].at >= a
           /\ \A k \in Places : k # 1 /\ Line[k].loan = n => Line[k].at > a
           /\ \A u \in Tasks : Lent(u) /\ loan[u] = n => a <= step[u]
           /\ a \in Nat /\ n \in Nat
<1>1. ~Done(n, a)
  BY DEF First, Done, Ahead
<1>2. OrderOK /\ AsyncTypes
  BY DEF AsyncInv
<1>3. a \in Nat /\ n \in Nat
  BY DEF First
<1>4. ASSUME NEW k \in Places, k # 1, Line[k].loan = n
      PROVE  Line[k].at > a /\ Line[k].at >= a
  <2>1. 1 < k
    BY <1>4 DEF Places
  <2>2. Line[1].db = Line[k].db
    BY <1>2, <1>4 DEF First, OrderOK
  <2>3. Line[k].at \in Nat
    BY <1>2, LineIs DEF Requests
  <2>4. Line[1].at < Line[k].at
    BY <1>2, <1>3, <1>4, <2>1, <2>2 DEF First, OrderOK
  <2> QED
    BY <1>3, <2>3, <2>4 DEF First
<1>5. \A k \in Places : Line[k].loan = n => Line[k].at >= a
  BY <1>3, <1>4 DEF First
<1>6. \A u \in Tasks : Lent(u) /\ loan[u] = n => a <= step[u]
  BY <1>2 DEF First, OrderOK
<1>7. ASSUME NEW j \in 1..Len(script[n]), j < a PROVE Done(n, j)
  <2>1. ~(\E k \in Places : Line[k].loan = n /\ Line[k].at = j)
    BY <1>3, <1>5, <1>7
  <2>2. ~(\E u \in Tasks : Lent(u) /\ loan[u] = n /\ step[u] < j)
    <3> SUFFICES ASSUME NEW u \in Tasks, Lent(u), loan[u] = n, step[u] < j
                 PROVE  FALSE
      OBVIOUS
    <3>1. step[u] \in Nat /\ a <= step[u]
      BY <1>2, <1>6 DEF AsyncTypes
    <3> QED
      BY <1>3, <1>7, <3>1
  <2> QED
    BY <2>1, <2>2 DEF Done, Ahead
<1> QED
  BY <1>1, <1>3, <1>4, <1>5, <1>6, <1>7

\* A loan that may still commit its transaction is the one served, if the
\* transaction is on the connection served, and has no other.
LEMMA OnlyTransaction ==
    ASSUME PoolOK, AsyncInv, NEW n, NEW a, NEW h, First(n, a, h)
    PROVE  /\ \A m \in 1..loans : TxnOf(h, m) => m = n
           /\ \A g \in dirty : TxnOf(g, n) => g = h
<1>1. OrderOK /\ AsyncTypes /\ TasksOK
  BY DEF AsyncInv
<1>2. exec # "down" /\ 1 \in Places /\ Line[1].loan = n /\ Line[1].db = h /\ n \in Nat
  BY DEF First
<1>3. ASSUME NEW m \in 1..loans, TxnOf(h, m) PROVE m = n
  <2>1. LastAhead(m, h) /\ n >= m
    BY <1>2, <1>3 DEF TxnOf
  <2>2. CASE \E k \in Places : Line[k].loan = m /\ Line[k].db = h
    <3>1. PICK k \in Places : Line[k].loan = m /\ Line[k].db = h
      BY <2>2
    <3>2. k = 1 \/ 1 < k
      BY DEF Places
    <3>3. n <= m
      BY <1>1, <1>2, <3>1, <3>2 DEF OrderOK
    <3> QED
      BY <1>2, <2>1, <3>3
  <2>3. ASSUME NEW u \in Tasks, StillAt(u, m), h \in held[u] PROVE m = n
    <3>1. n <= m
      BY <1>1, <1>2, <2>3 DEF OrderOK, StillAt
    <3> QED
      BY <1>2, <2>1, <3>1
  <2> QED
    BY <2>1, <2>2, <2>3 DEF LastAhead
<1>4. ASSUME NEW g \in dirty, TxnOf(g, n) PROVE g = h
  <2>1. LastAhead(n, g)
    BY <1>2, <1>4 DEF TxnOf
  <2>2. CASE \E k \in Places : Line[k].loan = n /\ Line[k].db = g
    BY <1>1, <1>2, <2>2 DEF OrderOK
  <2>3. ASSUME NEW u \in Tasks, StillAt(u, n), g \in held[u] PROVE g = h
    <3>1. h \in held[u]
      BY <1>1, <1>2, <2>3 DEF OrderOK, StillAt
    <3> QED
      BY <1>1, <2>3, <3>1 DEF TasksOK
  <2> QED
    BY <2>1, <2>2, <2>3 DEF LastAhead
<1> QED
  BY <1>3, <1>4

\* A sound batch is alone in its transaction, which it began and may commit.
LEMMA SoundTransaction ==
    ASSUME TxnsFollow, NEW g \in dirty, NEW m, Sound(m),
           NEW i, <<m, i>> \in txn[g]
    PROVE  OneLoan(g, m) /\ TxnOf(g, m) /\ m \in 1..loans
<1>1. OneLoan(g, m)
  <2>1. PICK r \in txn[g] : r = <<m, i>>
    OBVIOUS
  <2>2. r[1] = m
    BY <2>1
  <2> QED
    BY <2>2 DEF TxnsFollow
<1>2. PICK n \in 1..loans : BegunBy(g, n)
  BY DEF TxnsFollow
<1>3. n = m
  <2>1. PICK r \in txn[g] : r = <<n, 1>>
    BY <1>2 DEF BegunBy
  <2>2. r[1] = n
    BY <2>1
  <2> QED
    BY <1>1, <2>2 DEF OneLoan
<1>4. TxnOf(g, m)
  BY <1>2, <1>3 DEF BegunBy, Sound
<1> QED
  BY <1>1, <1>2, <1>3, <1>4

\* The transaction is as the statement expects it.
LEMMA StatementFits ==
    ASSUME ScriptsAreBatches, PoolOK, AsyncInv, TxnsFollow, BatchesFollow,
           NEW n, NEW a, NEW h, First(n, a, h)
    PROVE  /\ \A m : Sound(m) /\ m # n => \A i : <<m, i>> \notin txn[h]
           /\ h \in dirty => \E m \in 1..loans :
                <<m, 1>> \in txn[h] /\ (m \notin failed => m = n /\ TxnOf(h, n))
           /\ Sound(n) /\ 1 < a =>
                /\ h \in dirty /\ OneLoan(h, n)
                /\ \A i \in Nat : Done(n, i) => <<n, i>> \in txn[h]
           /\ Sound(n) => \A i \in Nat : <<n, i>> \notin saved
<1>1. AsyncTypes /\ TxnsOK
  BY DEF AsyncInv
<1>2. BatchOK(n) /\ n \in 1..loans
  BY DEF First, BatchesFollow
<1>3. /\ ~Done(n, a) /\ \A j \in 1..Len(script[n]) : j < a => Done(n, j)
      /\ a \in 1..Len(script[n]) /\ a \in Nat
  BY DoneBefore DEF First
<1>4. Len(script[n]) \in Nat /\ Len(script[n]) \in 1..Len(script[n])
      /\ 1 \in 1..Len(script[n]) /\ a <= Len(script[n])
  BY <1>1, <1>2, <1>3, ScriptIs
<1>5. ASSUME NEW m, Sound(m), m # n, NEW i, <<m, i>> \in txn[h] PROVE FALSE
  <2>1. h \in dirty
    BY <1>1, <1>5, PoolFacts DEF First, TxnsOK
  <2>2. TxnOf(h, m) /\ m \in 1..loans
    BY <1>5, <2>1, SoundTransaction
  <2> QED
    BY <1>5, <2>2, OnlyTransaction
<1>6. ASSUME h \in dirty
      PROVE  \E m \in 1..loans :
                <<m, 1>> \in txn[h] /\ (m \notin failed => m = n /\ TxnOf(h, n))
  <2>1. PICK m \in 1..loans : BegunBy(h, m)
    BY <1>6 DEF TxnsFollow
  <2>2. m \notin failed => m = n
    BY <2>1, OnlyTransaction DEF BegunBy
  <2> QED
    BY <2>1, <2>2 DEF BegunBy
<1>7. ~Done(n, Len(script[n]))
  <2>1. a = Len(script[n]) \/ a < Len(script[n])
    BY <1>3, <1>4
  <2> QED
    BY <1>2, <1>3, <1>4, <2>1 DEF BatchOK
<1>8. ASSUME Sound(n)
      PROVE  /\ \A i \in Nat : <<n, i>> \notin saved
             /\ 1 < a => /\ h \in dirty /\ OneLoan(h, n)
                         /\ \A i \in Nat : Done(n, i) => <<n, i>> \in txn[h]
  <2>1. /\ \A i \in Nat : <<n, i>> \notin saved
        /\ Done(n, 1) => \E g \in dirty : \A i \in Nat :
                           Done(n, i) => <<n, i>> \in txn[g]
    BY <1>2, <1>7, <1>8 DEF BatchOK
  <2>2. ASSUME 1 < a
        PROVE  /\ h \in dirty /\ OneLoan(h, n)
               /\ \A i \in Nat : Done(n, i) => <<n, i>> \in txn[h]
    <3>1. Done(n, 1)
      BY <1>3, <1>4, <2>2
    <3>2. PICK g \in dirty : \A i \in Nat : Done(n, i) => <<n, i>> \in txn[g]
      BY <2>1, <3>1
    <3>3. <<n, 1>> \in txn[g]
      BY <3>1, <3>2
    <3>4. TxnOf(g, n) /\ OneLoan(g, n)
      BY <1>8, <3>3, SoundTransaction
    <3>5. g = h
      BY <3>4, OnlyTransaction
    <3> QED
      BY <3>2, <3>4, <3>5
  <2> QED
    BY <2>1, <2>2
<1> QED
  BY <1>5, <1>6, <1>8

\* What the batches tell is what the database shows.
LEMMA WholeIfFollowed ==
    ASSUME exec' # "down", BatchesFollow' PROVE BatchesAreWhole'
<1> SUFFICES ASSUME NEW n \in 1..loans', Sound(n)'
             PROVE  InsertsIn(saved)' \cap Inserts(n)' \in {{}, Inserts(n)'}
  BY DEF BatchesAreWhole, Sound, IsBatch
<1>1. BatchOK(n)'
  BY DEF BatchesFollow
<1>2. CASE Inserts(n)' \subseteq saved'
  BY <1>2 DEF InsertsIn, Inserts
<1>3. CASE \A i \in Nat : <<n, i>> \notin saved'
  BY <1>3 DEF InsertsIn, Inserts
<1> QED
  BY <1>1, <1>2, <1>3 DEF BatchOK

\* What becomes of the statement: it begins a transaction, joins one, is one of
\* its own or commits one, or it fails, and the transaction may end with it.
Begins(n, a, h) ==
    /\ script[n][a] = "BEGIN" /\ h \notin dirty
    /\ dirty' = dirty \cup {h}
    /\ txn' = [txn EXCEPT ![h] = {<<n, a>>}]
    /\ late' = IF n \in Running THEN late ELSE late \cup {h}
    /\ UNCHANGED <<saved, failed>>
Joins(n, a, h) ==
    /\ script[n][a] = "INSERT" /\ h \in dirty
    /\ txn' = [txn EXCEPT ![h] = @ \cup {<<n, a>>}]
    /\ UNCHANGED <<dirty, late, saved, failed>>
SavesItself(n, a, h) ==
    /\ script[n][a] = "INSERT" /\ h \notin dirty
    /\ saved' = saved \cup {<<n, a>>}
    /\ UNCHANGED <<dirty, late, txn, failed>>
Commits(n, a, h) ==
    /\ script[n][a] = "COMMIT" /\ h \in dirty
    /\ saved' = saved \cup txn[h]
    /\ Forget(h)
    /\ UNCHANGED failed
Fails(n, h) ==
    /\ failed' = failed \cup {n}
    /\ UNCHANGED saved
    /\ UNCHANGED <<dirty, txn, late>> \/ Forget(h)

Outcome(n, a, h) ==
    \/ Begins(n, a, h) \/ Joins(n, a, h) \/ SavesItself(n, a, h)
    \/ Commits(n, a, h) \/ Fails(n, h)

LEMMA ExecuteEffect ==
    ASSUME AsyncInv, Execute
    PROVE  \E n, a, h : First(n, a, h) /\ Outcome(n, a, h)
<1>1. PICK n, a, h : /\ First(n, a, h) /\ Head(busy).loan = n
                     /\ Head(busy).at = a /\ Head(busy).db = h
  BY Serving DEF Execute
<1>2. PICK r : r = Head(busy)
  OBVIOUS
<1>3. /\ r.loan = n /\ r.at = a /\ r.db = h
      /\ \/ Statement(r) /\ failed' = failed
         \/ StatementFails(r) /\ failed' = failed \cup {r.loan}
  BY <1>1, <1>2 DEF Execute
<1>4. CASE Statement(r) /\ failed' = failed
  <2>1. \/ Begins(n, a, h) \/ Joins(n, a, h) \/ SavesItself(n, a, h)
        \/ Commits(n, a, h)
    BY <1>3, <1>4 DEF Statement, Begins, Joins, SavesItself, Commits
  <2> QED
    BY <1>1, <2>1 DEF Outcome
<1>5. CASE StatementFails(r) /\ failed' = failed \cup {r.loan}
  <2>1. Fails(n, h)
    BY <1>3, <1>5 DEF StatementFails, Fails
  <2> QED
    BY <1>1, <2>1 DEF Outcome
<1> QED
  BY <1>3, <1>4, <1>5

\* Other connections have nothing to do with it.
LEMMA OutcomeIsLocal ==
    ASSUME AsyncTypes, NEW n, NEW a, NEW h \in Handles, Outcome(n, a, h),
           <<n, a>> \in (1..loans) \X Nat
    PROVE  /\ txn' \in [Handles -> SUBSET ((1..loans) \X Nat)]
           /\ \A g \in Handles : g # h => txn'[g] = txn[g]
           /\ \A g : g # h => /\ g \in dirty' <=> g \in dirty
                              /\ g \in late' <=> g \in late
           /\ txn'[h] \in {{}, {<<n, a>>}, txn[h], txn[h] \cup {<<n, a>>}}
           /\ saved' \in {saved, saved \cup {<<n, a>>}, saved \cup txn[h]}
           /\ failed' \in {failed, failed \cup {n}}
           /\ dirty' \in {dirty, dirty \cup {h}, dirty \ {h}}
<1>1. txn \in [Handles -> SUBSET ((1..loans) \X Nat)]
  BY DEF AsyncTypes
<1>2. txn' \in {txn, [txn EXCEPT ![h] = {}], [txn EXCEPT ![h] = {<<n, a>>}],
                [txn EXCEPT ![h] = txn[h] \cup {<<n, a>>}]}
  BY DEF Outcome, Begins, Joins, SavesItself, Commits, Fails, Forget
<1>3. /\ \A g \in Handles : g # h => txn'[g] = txn[g]
      /\ txn'[h] \in {{}, {<<n, a>>}, txn[h], txn[h] \cup {<<n, a>>}}
  BY <1>1, <1>2
<1>4. txn' \in [Handles -> SUBSET ((1..loans) \X Nat)]
  <2>1. txn[h] \cup {<<n, a>>} \subseteq (1..loans) \X Nat
    BY <1>1
  <2>2. ASSUME NEW S \in SUBSET ((1..loans) \X Nat)
        PROVE  [txn EXCEPT ![h] = S] \in [Handles -> SUBSET ((1..loans) \X Nat)]
    BY <1>1
  <2> QED
    BY <1>1, <1>2, <2>1, <2>2
<1>5. /\ \A g : g # h => /\ g \in dirty' <=> g \in dirty
                         /\ g \in late' <=> g \in late
      /\ saved' \in {saved, saved \cup {<<n, a>>}, saved \cup txn[h]}
      /\ failed' \in {failed, failed \cup {n}}
      /\ dirty' \in {dirty, dirty \cup {h}, dirty \ {h}}
  BY DEF Outcome, Begins, Joins, SavesItself, Commits, Fails, Forget
<1> QED
  BY <1>3, <1>4, <1>5

\* The rest moves up, and one statement more is done.
LEMMA ExecuteServes ==
    ASSUME AsyncInv, Execute, NEW n, NEW a, NEW h, First(n, a, h)
    PROVE  /\ \A u \in Tasks : Lent(u)' <=> Lent(u)
           /\ \A i \in Places' : /\ i + 1 \in Places /\ i + 1 # 1
                                 /\ Line'[i] = Line[i + 1]
           /\ \A i \in Places : i # 1 => i - 1 \in Places' /\ Line'[i - 1] = Line[i]
           /\ \A m, j : Done(m, j)' <=> Done(m, j) \/ (m = n /\ j = a)
<1>1. /\ busy # <<>> /\ busy' = <<>>
      /\ UNCHANGED <<held, queue, loans, loan, script, step>>
  BY DEF Execute
<1>2. \A u \in Tasks : Lent(u)' <=> Lent(u)
  BY <1>1 DEF Lent
<1>3. /\ \A i \in Places' : i + 1 \in Places /\ Line'[i] = Line[i + 1]
      /\ \A i \in Places : i # 1 => i - 1 \in Places' /\ Line'[i - 1] = Line[i]
  BY <1>1, LineServed DEF AsyncInv
<1>4. \A i \in Places' : i + 1 # 1
  <2>1. AsyncTypes
    BY DEF AsyncInv
  <2>2. Places' = 1..(Len(Line) - 1)
    BY <1>1, <2>1, LineServed
  <2> QED
    BY <2>1, <2>2, LineIs
<1>5. ASSUME NEW m, NEW j
      PROVE  Done(m, j)' <=> Done(m, j) \/ (m = n /\ j = a)
  <2>1. (\E u \in Tasks : Lent(u) /\ loan[u] = m /\ step[u] < j)'
          <=> \E u \in Tasks : Lent(u) /\ loan[u] = m /\ step[u] < j
    BY <1>1, <1>2
  <2>2. (\E k \in Places : Line[k].loan = m /\ Line[k].at = j)'
          <=> \E k \in Places : k # 1 /\ Line[k].loan = m /\ Line[k].at = j
    BY <1>3, <1>4
  <2>3. CASE m = n /\ j = a
    <3>1. /\ \A k \in Places : k # 1 /\ Line[k].loan = n => Line[k].at > a
          /\ \A u \in Tasks : Lent(u) /\ loan[u] = n => a <= step[u]
          /\ a \in Nat
      BY DoneBefore
    <3>2. ~(\E k \in Places : k # 1 /\ Line[k].loan = m /\ Line[k].at = j)
      BY <2>3, <3>1
    <3>3. ~(\E u \in Tasks : Lent(u) /\ loan[u] = m /\ step[u] < j)
      <4>1. \A u \in Tasks : step[u] \in Nat
        BY DEF AsyncInv, AsyncTypes
      <4> QED
        BY <2>3, <3>1, <4>1
    <3>4. j \in 1..Len(script[m])
      BY <2>3 DEF First
    <3> QED
      BY <1>1, <2>1, <2>2, <2>3, <3>2, <3>3, <3>4 DEF Done, Ahead
  <2>4. CASE ~(m = n /\ j = a)
    <3>1. (\E k \in Places : Line[k].loan = m /\ Line[k].at = j)
            <=> \E k \in Places : k # 1 /\ Line[k].loan = m /\ Line[k].at = j
      BY <2>4 DEF First
    <3> QED
      BY <1>1, <2>1, <2>2, <2>4, <3>1 DEF Done, Ahead
  <2> QED
    BY <2>3, <2>4
<1> QED
  BY <1>2, <1>3, <1>4, <1>5

\* Types, order and hand-over hold, whatever the statement finds.
LEMMA ExecuteIsSafe ==
    ASSUME PoolOK, AsyncInv, Execute
    PROVE  /\ AsyncTypes' /\ TasksOK' /\ RequestsOK' /\ OrderOK' /\ TxnsOK'
           /\ DirtyOnlyIfLate'
<1>1. /\ busy # <<>> /\ busy' = <<>>
      /\ UNCHANGED <<phase, db, in_use, live, pc, held, exec, loans, loan, script,
                     step, queue, exhausted, cut, rejected>>
  BY DEF Execute
<1>2. PICK n, a, h : First(n, a, h) /\ Outcome(n, a, h)
  BY ExecuteEffect
<1>3. AsyncTypes /\ TasksOK /\ OrderOK /\ TxnsOK
  BY DEF AsyncInv
<1>4. h \in live /\ h \in Handles /\ <<n, a>> \in (1..loans) \X Nat /\ n \in 1..loans
  BY <1>2, DoneBefore, PoolFacts DEF First
<1>5. RequestsOK' /\ OrderOK'
  BY <1>1, ServedKeeps
<1>6. /\ txn' \in [Handles -> SUBSET ((1..loans) \X Nat)]
      /\ \A g \in Handles : g # h => txn'[g] = txn[g]
      /\ \A g : g # h => /\ g \in dirty' <=> g \in dirty
                         /\ g \in late' <=> g \in late
      /\ saved' \in {saved, saved \cup {<<n, a>>}, saved \cup txn[h]}
      /\ failed' \in {failed, failed \cup {n}}
      /\ dirty' \in {dirty, dirty \cup {h}, dirty \ {h}}
  BY <1>2, <1>3, <1>4, OutcomeIsLocal
<1>7. AsyncTypes'
  <2>1. <<>> \in Seq(Requests) /\ Len(<<>>) <= 1
    OBVIOUS
  <2>2. dirty' \subseteq live'
    BY <1>1, <1>3, <1>4, <1>6 DEF AsyncTypes
  <2>3. saved' \subseteq (1..loans) \X Nat
    <3>1. txn[h] \subseteq (1..loans) \X Nat
      BY <1>3, <1>4 DEF AsyncTypes
    <3> QED
      BY <1>3, <1>4, <1>6, <3>1 DEF AsyncTypes
  <2>4. failed' \subseteq 1..loans
    BY <1>3, <1>4, <1>6 DEF AsyncTypes
  <2> QED
    BY <1>1, <1>3, <1>6, <2>1, <2>2, <2>3, <2>4 DEF AsyncTypes
<1>8. TasksOK'
  BY <1>1, <1>3 DEF TasksOK, Lent
<1>9. TxnsOK'
  <2>1. h \in dirty' <=> txn'[h] # {}
    BY <1>2, <1>3, <1>4
    DEF AsyncTypes, TxnsOK, Outcome, Begins, Joins, SavesItself, Commits, Fails,
        Forget
  <2> QED
    BY <1>3, <1>6, <2>1 DEF TxnsOK
<1>10. DirtyOnlyIfLate'
  <2> SUFFICES ASSUME NEW i \in IdleSlots, db[i] \in dirty'
               PROVE  db[i] \in late'
    BY <1>1 DEF DirtyOnlyIfLate, IdleSlots, OpenSlots, Slots
  <2>1. db[i] \in dirty => db[i] \in late
    BY DEF AsyncInv, DirtyOnlyIfLate
  <2>2. CASE db[i] # h
    BY <1>6, <2>1, <2>2
  <2>3. CASE db[i] = h
    <3>1. \A u \in Tasks : h \notin held[u]
      BY <1>2, <2>3, IdleIsFree DEF First
    <3>2. n \notin Running
      <4> SUFFICES ASSUME NEW u \in Tasks, Lent(u), loan[u] = n PROVE FALSE
        BY DEF Running
      <4>1. h \in held[u]
        BY <1>2, <1>3 DEF OrderOK, First
      <4> QED
        BY <3>1, <4>1
    <3> QED
      BY <1>2, <2>1, <2>3, <3>2
      DEF Outcome, Begins, Joins, SavesItself, Commits, Fails, Forget
  <2> QED
    BY <2>2, <2>3
<1> QED
  BY <1>5, <1>7, <1>8, <1>9, <1>10

\* The line goes on, its transactions and batches with it, when all that was
\* submitted is executed.
LEMMA ExecuteFollows ==
    ASSUME ScriptsAreBatches, PoolOK, AsyncInv, Execute, ~rejected, ~exhausted
    PROVE  ScriptsComplete' /\ TxnsFollow' /\ BatchesFollow' /\ BatchesAreWhole'
<1>1. UNCHANGED <<phase, held, exec, loans, loan, script, step, cut>>
  BY DEF Execute
<1>2. PICK n, a, h : First(n, a, h) /\ Outcome(n, a, h)
  BY ExecuteEffect
<1>3. AsyncTypes /\ TasksOK /\ RequestsOK /\ OrderOK /\ TxnsOK
      /\ ScriptsComplete /\ TxnsFollow /\ BatchesFollow
  BY DEF AsyncInv
<1>4. /\ 1 \in Places /\ Line[1].loan = n /\ Line[1].at = a /\ Line[1].db = h
      /\ n \in 1..loans /\ a \in 1..Len(script[n]) /\ h \in Handles
      /\ exec # "down" /\ n \in Nat /\ a \in Nat
  BY <1>2, DoneBefore, PoolFacts DEF First
<1>5. /\ \A u \in Tasks : Lent(u)' <=> Lent(u)
      /\ \A i \in Places' : /\ i + 1 \in Places /\ i + 1 # 1
                            /\ Line'[i] = Line[i + 1]
      /\ \A i \in Places : i # 1 => i - 1 \in Places' /\ Line'[i - 1] = Line[i]
  BY <1>2, ExecuteServes
<1>6. \A m, j : Done(m, j)' <=> Done(m, j) \/ (m = n /\ j = a)
  BY <1>2, ExecuteServes
<1>7. /\ Len(script[n]) \in Nat /\ Len(script[n]) \in 1..Len(script[n])
      /\ 1 \in 1..Len(script[n]) /\ script[n] # <<>>
      /\ script[n][a] \in {"BEGIN", "INSERT", "COMMIT"}
      /\ script[n][a] = "BEGIN" => /\ a = 1 /\ a < Len(script[n])
                                   /\ script[n][Len(script[n])] = "COMMIT"
      /\ script[n][a] = "COMMIT" => /\ a = Len(script[n]) /\ 1 < a
                                    /\ script[n][1] = "BEGIN"
  BY <1>3, <1>4, ScriptIs DEF Statements
<1>8. /\ \A m : Sound(m) /\ m # n => \A i : <<m, i>> \notin txn[h]
      /\ h \in dirty => \E m \in 1..loans :
           <<m, 1>> \in txn[h] /\ (m \notin failed => m = n /\ TxnOf(h, n))
      /\ Sound(n) /\ 1 < a =>
           /\ h \in dirty /\ OneLoan(h, n)
           /\ \A i \in Nat : Done(n, i) => <<n, i>> \in txn[h]
      /\ Sound(n) => \A i \in Nat : <<n, i>> \notin saved
  BY <1>2, <1>3, StatementFits
<1>9. /\ \A g \in Handles : g # h => txn'[g] = txn[g] /\ (g \in dirty' <=> g \in dirty)
      /\ txn'[h] \in {{}, {<<n, a>>}, txn[h], txn[h] \cup {<<n, a>>}}
      /\ saved' \in {saved, saved \cup {<<n, a>>}, saved \cup txn[h]}
      /\ failed' \in {failed, failed \cup {n}}
      /\ txn \in [Handles -> SUBSET ((1..loans) \X Nat)]
  <2>1. <<n, a>> \in (1..loans) \X Nat /\ AsyncTypes
    BY <1>3, <1>4
  <2>2. txn \in [Handles -> SUBSET ((1..loans) \X Nat)]
    BY <2>1 DEF AsyncTypes
  <2> QED
    BY <1>2, <1>4, <2>1, <2>2, OutcomeIsLocal
<1>9a. \A m : Sound(m)' => Sound(m) /\ m \notin failed'
  BY <1>1, <1>9 DEF Sound, IsBatch
<1>10. /\ dirty \subseteq Handles /\ dirty' \subseteq Handles
       /\ h \notin dirty => txn[h] = {}
  <2>1. AsyncTypes'
    BY ExecuteIsSafe
  <2>2. dirty \subseteq live /\ dirty' \subseteq live /\ live' = live
    BY <1>3, <2>1 DEF AsyncTypes, Execute
  <2>3. h \notin dirty => txn[h] = {}
    BY <1>3, <1>4 DEF TxnsOK
  <2> QED
    BY <2>2, <2>3, PoolFacts
\* What is ahead of a loan with a request further on is still ahead.
<1>11. ASSUME NEW m, NEW g, LastAhead(m, g),
              ~(m = n /\ g = h /\ a = Len(script[m]))
       PROVE  LastAhead(m, g)'
  <2>1. CASE \E k \in Places : /\ Line[k].loan = m /\ Line[k].db = g
                               /\ Line[k].at = Len(script[m])
    <3>1. PICK k \in Places : /\ Line[k].loan = m /\ Line[k].db = g
                              /\ Line[k].at = Len(script[m])
      BY <2>1
    <3>2. k # 1
      BY <1>4, <1>11, <3>1
    <3>3. k - 1 \in Places' /\ Line'[k - 1] = Line[k]
      BY <1>5, <3>2
    <3> QED
      BY <1>1, <3>1, <3>3 DEF LastAhead
  <2>2. ASSUME NEW u \in Tasks, StillAt(u, m), g \in held[u]
        PROVE  LastAhead(m, g)'
    <3>1. StillAt(u, m)'
      BY <1>1, <1>5, <2>2 DEF StillAt
    <3> QED
      BY <1>1, <2>2, <3>1 DEF LastAhead
  <2> QED
    BY <1>11, <2>1, <2>2 DEF LastAhead
<1>12. ScriptsComplete'
  <2> SUFFICES ASSUME NEW i \in Places'
               PROVE  LastAhead(Line[i].loan, Line[i].db)'
    BY DEF ScriptsComplete
  <2>1. PICK k \in Places : k # 1 /\ Line'[i] = Line[k]
    BY <1>5
  <2>2. LastAhead(Line[k].loan, Line[k].db)
    BY <1>3, <1>4 DEF ScriptsComplete
  <2>3. ~(Line[k].loan = n /\ a = Len(script[Line[k].loan]))
    <3> SUFFICES ASSUME Line[k].loan = n, a = Len(script[n]) PROVE FALSE
      OBVIOUS
    <3>1. Line[k].at > a
      BY <1>2, <2>1, DoneBefore
    <3>2. Line[k].at \in 1..Len(script[n])
      BY <1>3 DEF RequestsOK
    <3> QED
      BY <1>4, <1>7, <3>1, <3>2
  <2>4. PICK m, g : m = Line[k].loan /\ g = Line[k].db
    OBVIOUS
  <2>5. LastAhead(m, g)'
    BY <1>11, <2>2, <2>3, <2>4
  <2> QED
    BY <2>1, <2>4, <2>5
\* A transaction of the loan served that has its COMMIT ahead.
<1>12a. ASSUME script[n][a] # "COMMIT", script[n][Len(script[n])] = "COMMIT",
               OneLoan(h, n)'
        PROVE  TxnOf(h, n)'
  <2>1. LastAhead(n, h)'
    <3>1. LastAhead(n, h)
      BY <1>3, <1>4 DEF ScriptsComplete
    <3>2. a # Len(script[n])
      BY <1>12a
    <3> QED
      BY <1>11, <3>1, <3>2
  <2>2. \A i \in Places' : Line'[i].db = h => Line'[i].loan >= n
    <3> SUFFICES ASSUME NEW i \in Places', Line'[i].db = h
                 PROVE  Line'[i].loan >= n
      OBVIOUS
    <3>1. PICK k \in Places : k # 1 /\ Line'[i] = Line[k]
      BY <1>5
    <3>2. 1 < k
      BY <3>1 DEF Places
    <3>3. Line[k].loan \in Nat /\ (n < Line[k].loan \/ n = Line[k].loan)
      <4>1. Line[k] \in Requests
        BY <1>3, LineIs
      <4>2. Line[k].loan \in Nat
        BY <4>1 DEF Requests
      <4>3. Line[1].db = Line[k].db
        BY <1>4, <3>1
      <4> QED
        BY <1>3, <1>4, <3>2, <4>2, <4>3 DEF OrderOK
    <3> QED
      BY <1>4, <3>1, <3>3
  <2> QED
    BY <1>1, <1>4, <1>7, <1>12a, <2>1, <2>2 DEF TxnOf
<1>13. TxnsFollow'
  <2> SUFFICES ASSUME NEW g \in dirty'
               PROVE  /\ \E m \in 1..loans : BegunBy(g, m)'
                      /\ \A r \in txn'[g] : Sound(r[1])' => OneLoan(g, r[1])'
    BY <1>1 DEF TxnsFollow
  <2>1. CASE g # h
    <3>1. g \in dirty /\ txn'[g] = txn[g]
      BY <1>9, <1>10, <2>1
    <3>2. PICK m \in 1..loans : BegunBy(g, m)
      BY <1>3, <3>1 DEF TxnsFollow
    <3>3. \A k : OneLoan(g, k) => OneLoan(g, k)'
      BY <3>1 DEF OneLoan
    <3>4. TxnOf(g, m) => TxnOf(g, m)'
      <4> SUFFICES ASSUME TxnOf(g, m) PROVE TxnOf(g, m)'
        OBVIOUS
      <4>1. LastAhead(m, g)'
        BY <1>4, <1>11, <2>1 DEF TxnOf
      <4>2. \A i \in Places' : Line'[i].db = g => Line'[i].loan >= m
        BY <1>4, <1>5 DEF TxnOf
      <4> QED
        BY <1>1, <1>4, <3>3, <4>1, <4>2 DEF TxnOf
    <3>5. BegunBy(g, m)'
      BY <1>9, <3>1, <3>2, <3>4 DEF BegunBy
    <3>6. \A r \in txn'[g] : Sound(r[1])' => OneLoan(g, r[1])'
      BY <1>3, <1>9a, <3>1, <3>3 DEF TxnsFollow
    <3> QED
      BY <3>5, <3>6
  <2>2. CASE g = h /\ Begins(n, a, h)
    <3>1. txn'[h] = {<<n, 1>>} /\ script[n][a] = "BEGIN"
      BY <1>4, <1>7, <1>9, <2>2 DEF Begins
    <3>2. OneLoan(h, n)'
      BY <3>1 DEF OneLoan
    <3>3. TxnOf(h, n)'
      BY <1>7, <1>12a, <3>1, <3>2
    <3>4. BegunBy(h, n)'
      BY <3>1, <3>3 DEF BegunBy
    <3>5. \A r \in txn'[h] : r[1] = n
      BY <3>1
    <3> QED
      BY <1>4, <2>2, <3>2, <3>4, <3>5
  <2>3. CASE g = h /\ Joins(n, a, h)
    <3>1. /\ txn'[h] = txn[h] \cup {<<n, a>>} /\ failed' = failed
          /\ script[n][a] = "INSERT" /\ h \in dirty
      BY <1>4, <1>9, <2>3 DEF Joins
    <3>2. \A r \in txn'[h] : r \in txn[h] \/ r[1] = n
      BY <3>1
    <3>3. OneLoan(h, n) => OneLoan(h, n)'
      BY <3>2 DEF OneLoan
    <3>4. TxnOf(h, n) => TxnOf(h, n)'
      BY <1>4, <1>12a, <3>1, <3>3 DEF TxnOf
    <3>5. PICK m \in 1..loans :
            <<m, 1>> \in txn[h] /\ (m \notin failed => m = n /\ TxnOf(h, n))
      BY <1>8, <3>1
    <3>6. BegunBy(h, m)'
      BY <3>1, <3>4, <3>5 DEF BegunBy
    <3>7. ASSUME NEW r \in txn'[h], Sound(r[1])' PROVE OneLoan(h, r[1])'
      <4>1. r \in (1..loans) \X Nat \/ r = <<n, a>>
        BY <1>4, <1>9, <3>1
      <4>2. r = <<r[1], r[2]>>
        BY <4>1
      <4>3. r[1] = n
        BY <1>8, <1>9a, <3>2, <3>7, <4>2
      <4>4. Sound(n)
        BY <1>9a, <3>7, <4>3
      <4>5. 1 < a
        <5>1. script[n][1] = "BEGIN"
          BY <4>4 DEF Sound, IsBatch
        <5>2. a # 1
          BY <3>1, <5>1
        <5> QED
          BY <1>4, <5>2
      <4> QED
        BY <1>8, <3>3, <4>3, <4>4, <4>5
    <3> QED
      BY <2>3, <3>6, <3>7
  <2>4. CASE g = h /\ Fails(n, h)
    <3>1. /\ txn'[h] = txn[h] /\ h \in dirty /\ failed' = failed \cup {n}
      BY <2>4 DEF Fails, Forget
    <3>2. PICK m \in 1..loans :
            <<m, 1>> \in txn[h] /\ (m \notin failed => m = n /\ TxnOf(h, n))
      BY <1>8, <3>1
    <3>3. BegunBy(h, m)'
      BY <3>1, <3>2 DEF BegunBy
    <3>4. \A r \in txn'[h] : Sound(r[1])' => OneLoan(h, r[1])'
      BY <1>3, <1>9a, <3>1 DEF TxnsFollow, OneLoan
    <3> QED
      BY <2>4, <3>3, <3>4
  <2>5. CASE g = h /\ (SavesItself(n, a, h) \/ Commits(n, a, h))
    BY <2>5 DEF SavesItself, Commits, Forget
  <2> QED
    BY <1>2, <2>1, <2>2, <2>3, <2>4, <2>5 DEF Outcome
<1>14. ASSUME NEW m \in 1..loans, m # n PROVE BatchOK(m)'
  <2>1. BatchOK(m)
    BY <1>3, <1>4 DEF BatchesFollow
  <2>2. \A j : Done(m, j)' <=> Done(m, j)
    BY <1>6, <1>14
  <2>3. \A i : <<m, i>> # <<n, a>>
    BY <1>14
  <2>4. \A g \in Handles : \A i \in Nat : <<m, i>> \in txn'[g] => Done(m, i)
    <3>1. \A i : <<m, i>> \in txn'[h] => <<m, i>> \in txn[h]
      BY <1>9, <2>3
    <3> QED
      BY <1>4, <1>9, <2>1, <3>1 DEF BatchOK
  <2>5. \A i \in Nat : <<m, i>> \in saved' => Done(m, i)
    BY <1>4, <1>9, <2>1, <2>3 DEF BatchOK
  <2>6. /\ \A i, j \in 1..Len(script[m]) : i < j /\ Done(m, j)' => Done(m, i)'
        /\ \A g \in Handles : \A i \in Nat : <<m, i>> \in txn'[g] => Done(m, i)'
        /\ \A i \in Nat : <<m, i>> \in saved' => Done(m, i)'
    BY <2>1, <2>2, <2>4, <2>5 DEF BatchOK
  <2>7. ASSUME Sound(m)
        PROVE  IF Done(m, Len(script[m]))
               THEN Inserts(m) \subseteq saved'
               ELSE /\ \A i \in Nat : <<m, i>> \notin saved'
                    /\ Done(m, 1) =>
                         \E g \in dirty' : \A i \in Nat :
                           Done(m, i) => <<m, i>> \in txn'[g]
    <3>1. IF Done(m, Len(script[m]))
          THEN Inserts(m) \subseteq saved
          ELSE /\ \A i \in Nat : <<m, i>> \notin saved
               /\ Done(m, 1) =>
                    \E g \in dirty : \A i \in Nat : Done(m, i) => <<m, i>> \in txn[g]
      BY <2>1, <2>7 DEF BatchOK
    <3>2. \A i : <<m, i>> \notin txn[h]
      BY <1>8, <1>14, <2>7
    <3>3. saved \subseteq saved' /\ \A i : <<m, i>> \in saved' => <<m, i>> \in saved
      BY <1>9, <2>3, <3>2
    <3>4. ASSUME NEW g \in dirty, Done(m, 1),
                 \A i \in Nat : Done(m, i) => <<m, i>> \in txn[g]
          PROVE  g \in dirty' /\ txn'[g] = txn[g]
      <4>1. <<m, 1>> \in txn[g]
        BY <3>4
      <4>2. g # h
        BY <3>2, <4>1
      <4> QED
        BY <1>9, <1>10, <4>2
    <3> QED
      BY <3>1, <3>3, <3>4
  <2>8. /\ Sound(m)' => Sound(m)
        /\ Inserts(m)' = Inserts(m)
        /\ Done(m, Len(script[m]))' <=> Done(m, Len(script[m]))
        /\ script' = script
    BY <1>1, <1>9a, <2>2 DEF Inserts
  <2> QED
    BY <2>2, <2>6, <2>7, <2>8 DEF BatchOK
<1>15. BatchOK(n)'
  <2>1. BatchOK(n)
    BY <1>3, <1>4 DEF BatchesFollow
  <2>2. \A j : Done(n, j)' <=> Done(n, j) \/ j = a
    BY <1>6
  <2>3. /\ ~Done(n, a)
        /\ \A j \in 1..Len(script[n]) : j < a => Done(n, j)
    BY <1>2, DoneBefore
  <2>4. \A i, j \in 1..Len(script[n]) : i < j /\ Done(n, j)' => Done(n, i)'
    BY <2>1, <2>2, <2>3 DEF BatchOK
  <2>5. \A g \in Handles : \A i \in Nat : <<n, i>> \in txn'[g] => Done(n, i)'
    <3>1. \A i : <<n, i>> \in txn'[h] => <<n, i>> \in txn[h] \/ i = a
      BY <1>9
    <3> QED
      BY <1>4, <1>9, <2>1, <2>2, <3>1 DEF BatchOK
  <2>6. \A i \in Nat : <<n, i>> \in saved' => Done(n, i)'
    BY <1>4, <1>9, <2>1, <2>2 DEF BatchOK
  <2>7. ASSUME Sound(n), n \notin failed'
        PROVE  IF a = Len(script[n])
               THEN Inserts(n) \subseteq saved'
               ELSE /\ \A i \in Nat : <<n, i>> \notin saved'
                    /\ \E g \in dirty' : \A i \in Nat :
                         Done(n, i)' => <<n, i>> \in txn'[g]
    <3>1. script[n][1] = "BEGIN" /\ script[n][Len(script[n])] = "COMMIT"
      BY <1>3, <1>4, <1>7, <2>7, ScriptIs DEF Sound, IsBatch
    <3>2. a = 1 \/ 1 < a
      BY <1>4
    <3>3. ~Fails(n, h)
      BY <2>7 DEF Fails
    <3>4. 1 < a => h \in dirty /\ \A i \in Nat : Done(n, i) => <<n, i>> \in txn[h]
      BY <1>8, <2>7
    <3>5. CASE a = Len(script[n])
      <4>1. script[n][a] = "COMMIT" /\ 1 < a
        BY <1>7, <3>1, <3>5
      <4>2. saved' = saved \cup txn[h]
        BY <1>2, <3>3, <4>1 DEF Outcome, Begins, Joins, SavesItself, Commits
      <4>3. \A i \in 1..Len(script[n]) : script[n][i] = "INSERT" => i < a /\ i \in Nat
        BY <1>4, <1>7, <3>5, <4>1
      <4>4. \A i \in 1..Len(script[n]) : script[n][i] = "INSERT" =>
              <<n, i>> \in txn[h]
        BY <2>3, <3>4, <4>1, <4>3
      <4>5. Inserts(n) \subseteq txn[h]
        BY <4>4 DEF Inserts
      <4> QED
        BY <3>5, <4>2, <4>5
    <3>6. CASE a # Len(script[n])
      <4>1. Begins(n, a, h) \/ Joins(n, a, h)
        <5>1. script[n][a] # "COMMIT"
          BY <1>7, <3>6
        <5>2. script[n][a] = "BEGIN" \/ h \in dirty
          BY <3>1, <3>2, <3>4
        <5> QED
          BY <1>2, <1>7, <3>3, <5>1, <5>2 DEF Outcome, SavesItself, Commits
      <4>2. saved' = saved /\ h \in dirty' /\ <<n, a>> \in txn'[h]
        BY <1>4, <1>9, <4>1 DEF Begins, Joins
      <4>3. ASSUME NEW i \in Nat, Done(n, i) PROVE <<n, i>> \in txn'[h]
        <5>1. CASE 1 < a
          <6>1. Joins(n, a, h)
            BY <1>7, <4>1, <5>1 DEF Begins
          <6>2. txn[h] \subseteq txn'[h]
            BY <1>4, <1>9, <6>1 DEF Joins
          <6> QED
            BY <3>4, <4>3, <5>1, <6>2
        <5>2. CASE a = 1
          <6>1. i \in 1..Len(script[n]) /\ (i = 1 \/ 1 < i)
            BY <4>3 DEF Done
          <6>2. Done(n, 1)
            BY <1>7, <2>1, <4>3, <6>1 DEF BatchOK
          <6> QED
            BY <2>3, <5>2, <6>2
        <5> QED
          BY <3>2, <5>1, <5>2
      <4>4. \A i \in Nat : Done(n, i)' => <<n, i>> \in txn'[h]
        BY <2>2, <4>2, <4>3
      <4> QED
        BY <1>8, <2>7, <3>6, <4>2, <4>4
    <3> QED
      BY <3>5, <3>6
  <2>8. Done(n, Len(script[n]))' <=> a = Len(script[n])
    <3>1. ~Done(n, Len(script[n]))
      <4>1. a = Len(script[n]) \/ a < Len(script[n])
        BY <1>4, <1>7
      <4> QED
        BY <1>4, <1>7, <2>1, <2>3, <4>1 DEF BatchOK
    <3> QED
      BY <1>1, <2>2, <3>1
  <2>9. /\ Inserts(n)' = Inserts(n) /\ script' = script
        /\ Sound(n)' => Sound(n) /\ n \notin failed'
    BY <1>1, <1>9a DEF Inserts
  <2> QED
    BY <2>4, <2>5, <2>6, <2>7, <2>8, <2>9 DEF BatchOK
<1>16. BatchesFollow'
  BY <1>1, <1>14, <1>15 DEF BatchesFollow
<1>17. BatchesAreWhole'
  <2>1. exec' # "down"
    BY <1>1, <1>4
  <2> QED
    BY <1>16, <2>1, WholeIfFollowed
<1> QED
  BY <1>12, <1>13, <1>16, <1>17

-----------------------------------------------------------------------------
(* The theorems *)

\* At first there is nothing to keep in step.
LEMMA AsyncInitially == PoolAsyncInit => AsyncInv
<1> SUFFICES ASSUME PoolAsyncInit PROVE AsyncInv
  OBVIOUS
<1>1. /\ phase = "create" /\ live = {} /\ dirty = {}
      /\ held = [t \in Tasks |-> {}] /\ pc = [t \in Tasks |-> "out"]
      /\ exec = "up" /\ loans = 0 /\ loan = [t \in Tasks |-> 0]
      /\ script = [n \in 0..MaxLoans |-> <<>>] /\ step = [t \in Tasks |-> 0]
      /\ queue = <<>> /\ busy = <<>>
      /\ txn = [h \in Handles |-> {}] /\ saved = {} /\ failed = {} /\ cut = {}
  BY DEF PoolAsyncInit, Init
<1>2. Line = <<>> /\ Places = {}
  BY <1>1 DEF Line, Places
<1>3. \A t \in Tasks : ~Lent(t)
  BY <1>1 DEF Lent
<1>4. 1..loans = {}
  BY <1>1
<1>5. AsyncTypes
  <2>1. <<>> \in Seq(Requests) /\ Len(<<>>) <= 1 /\ <<>> \in Seq(Statements)
    OBVIOUS
  <2>2. 0 \in 0..MaxLoans /\ 0 \in 0..0
    BY ScriptsAssumption
  <2> QED
    BY <1>1, <1>4, <2>1, <2>2 DEF AsyncTypes
<1>6. TasksOK
  BY <1>1, <1>3 DEF TasksOK
<1>7. RequestsOK /\ OrderOK
  BY <1>1, <1>2 DEF RequestsOK, OrderOK
<1>8. TxnsOK /\ DirtyOnlyIfLate
  BY <1>1 DEF TxnsOK, DirtyOnlyIfLate
<1>9. ScriptsComplete /\ TxnsFollow /\ BatchesFollow /\ BatchesAreWhole
  BY <1>1, <1>2, <1>4 DEF ScriptsComplete, TxnsFollow, BatchesFollow, BatchesAreWhole
<1> QED
  BY <1>5, <1>6, <1>7, <1>8, <1>9 DEF AsyncInv

\* Every action keeps the invariant.
LEMMA AsyncStep ==
    ASSUME OneLoanEach, PoolOK, AsyncInv, [PoolAsyncNext]_allVars
    PROVE  AsyncInv'
<1>1. CASE (CreateSlot \/ CreateReturn) /\ UNCHANGED asyncVars
  BY <1>1, CreateKeeps
<1>2. CASE Shrink /\ exec = "up" /\ UNCHANGED asyncVars
  BY <1>2, ShrinkKeeps
<1>3. ASSUME NEW t \in Tasks, PoolCall(t) PROVE AsyncInv'
  BY <1>3, PoolCallKeeps
<1>4. ASSUME NEW t \in Tasks, Borrow(t) PROVE AsyncInv'
  <2>1. CASE UNCHANGED <<live, held>>
    BY <1>4, <2>1, NothingBorrowedKeeps
  <2>2. CASE ~UNCHANGED <<live, held>>
    BY <1>4, <2>2, LoanKeeps
  <2> QED
    BY <2>1, <2>2
<1>5. ASSUME NEW t \in Tasks, Submit(t) PROVE AsyncInv'
  BY <1>5, SubmitKeeps
<1>6. ASSUME NEW t \in Tasks, Return(t) PROVE AsyncInv'
  BY <1>6, ReturnKeeps
<1>7. CASE Take \/ Exhaust \/ DeleteTasks
  BY <1>7, WorkerQuietKeeps
<1>8. CASE Execute
  <2>1. UNCHANGED <<rejected, exhausted>>
    BY <1>8 DEF Execute
  <2> QED
    BY <1>8, <2>1, ExecuteIsSafe, ExecuteFollows DEF AsyncInv
<1>9. CASE DropRequest
  BY <1>9, DropKeeps
<1>10. CASE AsyncShutdown
  BY <1>10, ShutdownKeeps
<1>11. CASE PoolDestroy
  BY <1>11, DestroyKeeps
<1>12. CASE UNCHANGED allVars
  <2>1. Line' = Line /\ AsyncTypes'
    BY <1>12 DEF allVars, vars, asyncVars, Line, AsyncInv, AsyncTypes
  <2>2. DirtyOnlyIfLate'
    BY <1>12 DEF allVars, vars, asyncVars, AsyncInv, DirtyOnlyIfLate, IdleSlots,
       OpenSlots, Slots
  <2>3. \A t \in Tasks : pc'[t] \in {"waiting", "granted"} => ~Lent(t)
    BY <1>12 DEF allVars, vars, AsyncInv, TasksOK
  <2> QED
    BY <1>12, <2>1, <2>2, <2>3, QuietKeeps DEF allVars, vars, asyncVars
<1> QED
  BY <1>1, <1>2, <1>3, <1>4, <1>5, <1>6, <1>7, <1>8, <1>9, <1>10, <1>11, <1>12
  DEF PoolAsyncNext

\* Loans, requests and transactions stay in step.
THEOREM AsyncInvariant ==
    ASSUME OneLoanEach
    PROVE  PoolAsyncSpec => []AsyncInv
<1>1. PoolOK /\ AsyncInv /\ [PoolAsyncNext]_allVars => AsyncInv'
  BY AsyncStep
<1>2. PoolAsyncSpec => []PoolOK
  BY PoolIsOK
<1> QED
  BY <1>1, <1>2, AsyncInitially, PTL DEF PoolAsyncSpec

\* sqlite_pool_shrink may ignore the executor's queue: no request ever reaches
\* the worker with a connection that was closed.
THEOREM RequestsAreServable ==
    ASSUME OneLoanEach
    PROVE  PoolAsyncSpec => []RequestsOutliveLoansOnly
<1>1. AsyncInv => RequestsOutliveLoansOnly
  <2> SUFFICES ASSUME AsyncInv, NEW r \in Outstanding PROVE r.db \in live
    BY DEF RequestsOutliveLoansOnly
  <2>1. /\ busy \in Seq(Requests) /\ queue \in Seq(Requests)
        /\ Len(busy) \in Nat /\ Len(queue) \in Nat
    BY DEF AsyncInv, AsyncTypes
  <2>2. /\ Len(Line) = Len(busy) + Len(queue)
        /\ \A i \in 1..(Len(busy) + Len(queue)) :
             Line[i] = IF i <= Len(busy) THEN busy[i] ELSE queue[i - Len(busy)]
    BY <2>1, Joined DEF Line
  <2>3. ASSUME NEW i \in 1..Len(queue), r = queue[i] PROVE r.db \in live
    <3>1. /\ Len(busy) + i \in 1..(Len(busy) + Len(queue))
          /\ ~(Len(busy) + i <= Len(busy)) /\ (Len(busy) + i) - Len(busy) = i
      BY <2>1
    <3>2. Len(busy) + i \in Places /\ Line[Len(busy) + i] = r
      BY <2>2, <2>3, <3>1 DEF Places
    <3> QED
      BY <3>2 DEF AsyncInv, RequestsOK
  <2>4. ASSUME NEW i \in 1..Len(busy), r = busy[i] PROVE r.db \in live
    <3>1. i \in 1..(Len(busy) + Len(queue)) /\ i <= Len(busy)
      BY <2>1
    <3>2. i \in Places /\ Line[i] = r
      BY <2>2, <2>4, <3>1 DEF Places
    <3> QED
      BY <3>2 DEF AsyncInv, RequestsOK
  <2> QED
    BY <2>3, <2>4 DEF Outstanding
<1> QED
  BY <1>1, AsyncInvariant, PTL

\* The next holder of a connection finds a transaction in it only where the
\* worker began one after the release.
THEOREM HandoverIsCleanButForLate ==
    ASSUME OneLoanEach
    PROVE  PoolAsyncSpec => []DirtyOnlyIfLate
<1>1. AsyncInv => DirtyOnlyIfLate
  BY DEF AsyncInv
<1> QED
  BY <1>1, AsyncInvariant, PTL

\* While nothing is refused or dropped, a transaction in which nothing failed has
\* the statements of one loan only, though loans end before their requests are
\* executed and the worker goes on after the failures of others.
THEOREM LoansStayApart ==
    ASSUME OneLoanEach, ScriptsAreBatches
    PROVE  PoolAsyncSpec => []LoansDoNotMix
<1>1. AsyncInv => LoansDoNotMix
  <2> SUFFICES ASSUME AsyncInv, ~rejected, ~exhausted, NEW h \in dirty,
                      \A r \in txn[h] : r[1] \notin failed
               PROVE  \A r, s \in txn[h] : r[1] = s[1]
    BY DEF LoansDoNotMix
  <2>1. PICK n \in 1..loans : BegunBy(h, n)
    BY DEF AsyncInv, TxnsFollow
  <2>2. PICK b \in txn[h] : b = <<n, 1>>
    BY <2>1 DEF BegunBy
  <2>3. n \notin failed
    BY <2>2
  <2> QED
    BY <2>1, <2>3 DEF BegunBy, TxnOf, OneLoan
<1> QED
  BY <1>1, AsyncInvariant, PTL

\* And a batch is saved whole or not at all, unless a release cut it or one of
\* its own statements failed; statements that fail in other loans, and end
\* transactions, take nothing from it.
THEOREM BatchesStayWhole ==
    ASSUME OneLoanEach, ScriptsAreBatches
    PROVE  PoolAsyncSpec => []BatchesAreWhole
<1>1. AsyncInv => BatchesAreWhole
  BY DEF AsyncInv, BatchesAreWhole
<1> QED
  BY <1>1, AsyncInvariant, PTL

=============================================================================
